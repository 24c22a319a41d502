--------------------------- MODULE NotifierProofs ---------------------------
(* Proofs about Notifier and the document repository under it, for any set   *)
(* of callers, keys and channels, any capacities and any number of events,   *)
(* calls and faults.  The repository is shown to implement Documents.        *)
EXTENDS Notifier, FiniteSetTheorems, TLAPS

-----------------------------------------------------------------------------
(* The types of the values. *)

AnyKey == Key \cup {DeliveryAt(r) : r \in Nat}
Doc == [payload : SUBSET Channel, rev : Nat]
Docs == [Key -> Doc]
Changes == UNION {[S -> SUBSET Channel] : S \in {T \in SUBSET AnyKey : IsFiniteSet(T)}}
Expected == UNION {[S -> Nat] : S \in SUBSET Key}
Found == UNION {[S -> Doc] : S \in SUBSET Key}
Res == [status : {"none", "read", "unchanged", "failed", "done"}, found : Found]

GetCmd == [op : {"get"}, keys : SUBSET Key]
PutCmd == [op : {"put", "put_if_changed"}, rev : Nat \ {0}, changes : Changes]
CasCmd == {x \in [op : {"compare_and_put"}, rev : Nat \ {0}, changes : Changes, expected : Expected] :
             DOMAIN x.changes \subseteq DOMAIN x.expected}
DeleteCmd == [op : {"delete"}, rev : Nat \ {0}, key : Key]
PruneCmd == [op : {"prune"}, keep : {KeepLatest}]
Cmd == GetCmd \cup PutCmd \cup CasCmd \cup DeleteCmd \cup PruneCmd

Puts == {"put", "put_if_changed", "compare_and_put"}
Writes(cmd) == cmd.op \notin {"get", "prune"}

Txn == [docs : Docs \cup {Nothing}, revs : SUBSET Nat]
WorkerState ==
    [step : {"idle", "begin", "record", "write", "commit", "reply"}, client : Client \cup {"none"},
     cmd : Cmd \cup {NoCmd}, txn : Txn, left : SUBSET AnyKey, result : Res]
CallState ==
    [phase : {"idle", "prepared", "sent", "answered"}, cmd : Cmd \cup {NoCmd}, result : Res]

-----------------------------------------------------------------------------
(* The invariant of the repository. *)

DbType == db \in [docs : Docs, revs : SUBSET Nat] /\ last \in Nat
ChannelType == channel \in Seq([client : Client, cmd : Cmd])
WorkerType == worker \in WorkerState
CallerType == caller \in [Client -> CallState]
Typed == DbType /\ ChannelType /\ WorkerType /\ CallerType

(* A document has a recorded revision, no revision is above the counter, and the
   pruned history is finite. *)
Few(docs) == IsFiniteSet({k \in History : docs[k].rev # 0})
Stamped ==
    /\ Few(db.docs)
    /\ \A k \in Key : /\ db.docs[k].rev \in db.revs \cup {0}
                      /\ db.docs[k].rev = 0 => db.docs[k] = NoDoc
    /\ \A r \in db.revs : 0 < r /\ r <= last

(* A call: nothing before it starts, a command with a revision that was taken, an
   answer only at the end. *)
GoodCall(s, latest) ==
    /\ s.phase = "idle" => s = NoCall
    /\ s.phase # "idle" => s.cmd \in Cmd /\ (Writes(s.cmd) => s.cmd.rev <= latest)
    /\ s.phase \in {"prepared", "sent"} => s.result = NoResult
    /\ s.phase = "answered" /\ s.result.status = "read" => s.cmd.op = "get" /\ DOMAIN s.result.found = s.cmd.keys
Calls == \A c \in Client : GoodCall(caller[c], last)

(* A command is in one place, and its caller waits for it. *)
Queued ==
    /\ \A i \in 1..Len(channel) : /\ caller[channel[i].client].phase = "sent"
                                  /\ caller[channel[i].client].cmd = channel[i].cmd
    /\ \A i, j \in 1..Len(channel) : channel[i].client = channel[j].client => i = j
Served ==
    worker.step # "idle" =>
       /\ worker.client \in Client /\ caller[worker.client].phase = "sent"
       /\ caller[worker.client].cmd = worker.cmd
       /\ \A i \in 1..Len(channel) : channel[i].client # worker.client

(* The reads of a writing command went through. *)
Passed(cmd, docs) ==
    /\ cmd.op = "put_if_changed" =>
          ~\A k \in DOMAIN cmd.changes : docs[k] # NoDoc /\ docs[k].payload = cmd.changes[k]
    /\ cmd.op = "compare_and_put" =>
          matches(cmd, docs) /\ \A k \in DOMAIN cmd.changes : cmd.rev > docs[k].rev

(* The documents once all changes but those left are written. *)
Partly(docs, cmd, left) ==
    [k \in Key |-> IF k \in DOMAIN cmd.changes \ left
                   THEN [payload |-> cmd.changes[k], rev |-> cmd.rev] ELSE docs[k]]

Erased(docs, keys) == [k \in Key |-> IF k \in keys THEN NoDoc ELSE docs[k]]

(* What the transaction w.txn of a command is when it is committed. *)
Final(w, base) ==
    \/ /\ w.cmd.op = "prune" /\ w.txn.revs = base.revs
       /\ w.txn.docs = Erased(base.docs, pruned(base.docs, w.cmd.keep))
    \/ /\ w.cmd.op = "delete" /\ w.cmd.rev \notin base.revs
       /\ w.txn.revs = base.revs \cup {w.cmd.rev} /\ w.txn.docs = Erased(base.docs, {w.cmd.key})
    \/ /\ w.cmd.op \in Puts /\ Passed(w.cmd, base.docs) /\ w.cmd.rev \notin base.revs
       /\ w.txn.revs = base.revs \cup {w.cmd.rev} /\ w.txn.docs = Partly(base.docs, w.cmd, {})

(* The transaction, step by step. *)
Transacts(w, base) ==
    /\ w.step = "begin" => w.txn = base
    /\ w.step = "record" => w.txn = base /\ Writes(w.cmd) /\ Passed(w.cmd, base.docs)
    /\ w.step = "write" =>
          \/ w.cmd.op = "prune" /\ w.txn = base
          \/ /\ w.cmd.op = "delete" /\ w.cmd.rev \notin base.revs
             /\ w.txn.revs = base.revs \cup {w.cmd.rev} /\ w.txn.docs = base.docs
          \/ /\ w.cmd.op \in Puts /\ Passed(w.cmd, base.docs) /\ w.cmd.rev \notin base.revs
             /\ w.left \subseteq DOMAIN w.cmd.changes
             /\ w.txn.revs = base.revs \cup {w.cmd.rev} /\ w.txn.docs = Partly(base.docs, w.cmd, w.left)
    /\ w.step = "commit" => Final(w, base)
    /\ w.step = "reply" /\ w.result.status = "read" => w.cmd.op = "get" /\ DOMAIN w.result.found = w.cmd.keys
Transaction == Transacts(worker, db)

SInv == Typed /\ Stamped /\ Calls /\ Queued /\ Served /\ Transaction

-----------------------------------------------------------------------------
(* The calls of the abstract specification. *)

Asked(cmd) == [phase |-> "asked", cmd |-> cmd, result |-> NoResult]
DoneCall(cmd, result) == [phase |-> "done", cmd |-> cmd, result |-> result]
AbsCall(s, w, c) ==
    IF s.phase = "idle" THEN NoCall
    ELSE IF s.phase = "answered" THEN DoneCall(s.cmd, s.result)
    ELSE IF w.step = "reply" /\ w.client = c THEN DoneCall(s.cmd, w.result)
    ELSE Asked(s.cmd)

LEMMA CallOfIs ==
    ASSUME Typed, Calls, Served, NEW c \in Client
    PROVE  CallOf(c) = AbsCall(caller[c], worker, c)
  <1>1. caller[c].phase \in {"idle", "prepared", "sent", "answered"}
    BY DEF Typed, CallerType, CallState
  <1>2. caller[c].phase \in {"prepared", "sent"} => caller[c].result = NoResult
    BY DEF Calls, GoodCall
  <1>3. worker.step = "reply" /\ worker.client = c => caller[c].phase = "sent"
    BY DEF Served
  <1>4. CASE caller[c].phase = "idle"
    BY <1>4 DEF CallOf, AbsCall
  <1>5. CASE caller[c].phase = "answered"
    BY <1>3, <1>5 DEF CallOf, AbsCall, DoneCall
  <1>6. CASE caller[c].phase \in {"prepared", "sent"}
    BY <1>2, <1>6 DEF CallOf, AbsCall, DoneCall, Asked
  <1> QED BY <1>1, <1>4, <1>5, <1>6

LEMMA CallOfNext ==
    ASSUME Typed', Calls', Served', NEW c \in Client
    PROVE  CallOf(c)' = AbsCall(caller'[c], worker', c)
  <1>1. caller'[c].phase \in {"idle", "prepared", "sent", "answered"}
    BY DEF Typed, CallerType, CallState
  <1>2. caller'[c].phase \in {"prepared", "sent"} => caller'[c].result = NoResult
    BY DEF Calls, GoodCall
  <1>3. worker'.step = "reply" /\ worker'.client = c => caller'[c].phase = "sent"
    BY DEF Served
  <1>4. CASE caller'[c].phase = "idle"
    BY <1>4 DEF CallOf, AbsCall
  <1>5. CASE caller'[c].phase = "answered"
    BY <1>3, <1>5 DEF CallOf, AbsCall, DoneCall
  <1>6. CASE caller'[c].phase \in {"prepared", "sent"}
    BY <1>2, <1>6 DEF CallOf, AbsCall, DoneCall, Asked
  <1> QED BY <1>1, <1>4, <1>5, <1>6

-----------------------------------------------------------------------------
(* What a command may do, operation by operation. *)

Effect(docs, revs, status, found) == [docs |-> docs, revs |-> revs, result |-> Result(status, found)]

LEMMA MayFail ==
    ASSUME NEW cmd, NEW d, NEW r
    PROVE  Effect(d, r, "failed", Nothing) \in Abstract!Outcome(cmd, d, r)
  BY DEF Effect, Result, Nothing, NoDoc, Abstract!Outcome, Abstract!Result, Abstract!Nothing, Abstract!NoDoc

LEMMA MayRead ==
    ASSUME NEW cmd, NEW d, NEW r, cmd.op = "get"
    PROVE  Effect(d, r, "read", [k \in cmd.keys |-> d[k]]) \in Abstract!Outcome(cmd, d, r)
  BY DEF Effect, Result, Nothing, NoDoc, Abstract!Outcome, Abstract!Result, Abstract!Nothing, Abstract!NoDoc

LEMMA MayStay ==
    ASSUME NEW cmd, NEW d, NEW r,
           \/ cmd.op = "put_if_changed" /\ \A k \in DOMAIN cmd.changes :
                   d[k] # NoDoc /\ d[k].payload = cmd.changes[k]
           \/ cmd.op = "compare_and_put" /\ ~matches(cmd, d)
    PROVE  Effect(d, r, "unchanged", Nothing) \in Abstract!Outcome(cmd, d, r)
  BY DEF Effect, Result, Nothing, NoDoc, matches, Abstract!Outcome, Abstract!Result, Abstract!Nothing, Abstract!NoDoc

LEMMA MayPut ==
    ASSUME NEW cmd, NEW d, NEW r, cmd.op \in Puts, Passed(cmd, d), cmd.rev \notin r
    PROVE  Effect(Partly(d, cmd, {}), r \cup {cmd.rev}, "done", Nothing) \in Abstract!Outcome(cmd, d, r)
  <1>1. Partly(d, cmd, {}) = Abstract!Written(d, cmd.changes, cmd.rev)
    BY DEF Partly, Abstract!Written
  <1> QED BY <1>1 DEF Puts, Passed, Effect, Result, Nothing, NoDoc, matches, Abstract!Outcome, Abstract!Result, Abstract!Nothing, Abstract!NoDoc

LEMMA MayDelete ==
    ASSUME NEW cmd, NEW d \in Docs, NEW r, cmd.op = "delete", cmd.rev \notin r
    PROVE  Effect(Erased(d, {cmd.key}), r \cup {cmd.rev}, "done", Nothing) \in Abstract!Outcome(cmd, d, r)
  <1>1. Erased(d, {cmd.key}) = [d EXCEPT ![cmd.key] = NoDoc]
    BY DEF Erased, Docs
  <1> QED BY <1>1 DEF Effect, Result, Nothing, NoDoc, Abstract!Outcome, Abstract!Result, Abstract!Nothing, Abstract!NoDoc

LEMMA SameCardinality ==
    ASSUME NEW S
    PROVE  Abstract!Cardinality(S) = Cardinality(S)
  BY Zenon DEF Cardinality, Abstract!Cardinality

LEMMA MayPrune ==
    ASSUME NEW cmd, NEW d \in Docs, NEW r, cmd.op = "prune", cmd.keep \in Nat, Few(d)
    PROVE  Effect(Erased(d, pruned(d, cmd.keep)), r, "done", Nothing) \in Abstract!Outcome(cmd, d, r)
  <1> DEFINE Above(k) == {j \in History : d[j].rev > d[k].rev}
  <1>1. ASSUME NEW k \in History PROVE Cardinality(Above(k)) \in Nat
    <2>1. \A j \in History : d[j].rev \in Nat /\ d[k].rev \in Nat
      BY StoreAssumption DEF Docs, Doc
    <2>2. Above(k) \subseteq {j \in History : d[j].rev # 0}
      BY <2>1
    <2> QED BY <2>2, FS_Subset, FS_CardinalityType DEF Few
  <1>2. \A k \in Key : k \in pruned(d, cmd.keep) <=> k \in History \ Abstract!Latest(d, cmd.keep) /\ d[k] # NoDoc
    BY <1>1, SameCardinality DEF pruned, Abstract!Latest, Abstract!NoDoc, NoDoc
  <1>3. Erased(d, pruned(d, cmd.keep)) =
          [k \in Key |-> IF k \in History \ Abstract!Latest(d, cmd.keep) THEN NoDoc ELSE d[k]]
    BY <1>2 DEF Erased
  <1> QED BY <1>3 DEF Effect, Result, Nothing, NoDoc, Abstract!Outcome, Abstract!Result, Abstract!Nothing, Abstract!NoDoc

-----------------------------------------------------------------------------
(* What a step may be for the abstract specification. *)

Good == Typed /\ Calls /\ Served

LEMMA RefStutter ==
    ASSUME Good, Good', UNCHANGED db,
           \A c \in Client : AbsCall(caller'[c], worker', c) = AbsCall(caller[c], worker, c)
    PROVE  UNCHANGED Abstract!vars
  <1>1. \A c \in Client : CallOf(c)' = CallOf(c)
    BY CallOfIs, CallOfNext DEF Good
  <1> QED BY <1>1 DEF Abstract!vars

LEMMA RefDo ==
    ASSUME Good, Good', UNCHANGED caller,
           worker.step \notin {"idle", "reply"},
           worker'.client = worker.client, worker'.step = "reply",
           NEW o \in Abstract!Outcome(worker.cmd, db.docs, db.revs),
           db'.docs = o.docs, db'.revs = o.revs, worker'.result = o.result
    PROVE  Abstract!Next
  <1> DEFINE c == worker.client
             call == [x \in Client |-> CallOf(x)]
  <1>0. c \in Client /\ caller[c].phase = "sent" /\ caller[c].cmd = worker.cmd
    BY DEF Good, Served
  <1>1. \A x \in Client : call[x] = AbsCall(caller[x], worker, x)
    BY CallOfIs DEF Good
  <1>2. \A x \in Client : CallOf(x)' = AbsCall(caller'[x], worker', x)
    BY CallOfNext DEF Good
  <1>3. call[c] = Asked(worker.cmd)
    BY <1>0, <1>1 DEF AbsCall
  <1>4. \A x \in Client : CallOf(x)' = IF x = c THEN DoneCall(worker.cmd, o.result) ELSE call[x]
    BY <1>0, <1>1, <1>2 DEF AbsCall
  <1>5. call' = [call EXCEPT ![c] = DoneCall(worker.cmd, o.result)]
    BY <1>4
  <1>6. call[c].phase = "asked" /\ call[c].cmd = worker.cmd
    BY <1>3 DEF Asked
  <1>7. call' = [call EXCEPT ![c] = [phase |-> "done", cmd |-> call[c].cmd, result |-> o.result]]
    BY <1>5, <1>6 DEF DoneCall
  <1>8. Abstract!Do(c)
    BY <1>6, <1>7 DEF Abstract!Do
  <1> QED BY <1>0, <1>8 DEF Abstract!Next

LEMMA RefAsk ==
    ASSUME Good, Good', UNCHANGED db, NEW c \in Client, NEW cmd,
           AbsCall(caller[c], worker, c) = NoCall, AbsCall(caller'[c], worker', c) = Asked(cmd),
           \A x \in Client \ {c} : AbsCall(caller'[x], worker', x) = AbsCall(caller[x], worker, x)
    PROVE  Abstract!Next
  <1> DEFINE call == [x \in Client |-> CallOf(x)]
  <1>1. call[c] = NoCall /\ \A x \in Client : CallOf(x)' = IF x = c THEN Asked(cmd) ELSE call[x]
    BY CallOfIs, CallOfNext DEF Good
  <1>2. call' = [call EXCEPT ![c] = Asked(cmd)]
    BY <1>1
  <1>3. (call')[c] = Asked(cmd)
    BY <1>1
  <1>4. Asked(cmd) = [phase |-> "asked", cmd |-> (call')[c].cmd, result |-> Abstract!NoResult]
    <2>1. (call')[c].cmd = cmd
      BY <1>3 DEF Asked
    <2> QED BY <2>1 DEF Asked, Abstract!NoResult, Abstract!Result, Abstract!Nothing, Abstract!NoDoc,
                        NoResult, Result, Nothing, NoDoc
  <1>5. call[c] = Abstract!NoCall
    BY <1>1 DEF NoCall, NoCmd, Abstract!NoCall, Abstract!NoResult, Abstract!Result, Abstract!Nothing, Abstract!NoDoc,
                NoResult, Result, Nothing, NoDoc
  <1>6. Abstract!Ask(c)
    BY <1>2, <1>4, <1>5 DEF Abstract!Ask
  <1> QED BY <1>6 DEF Abstract!Next

LEMMA RefReceive ==
    ASSUME Good, Good', UNCHANGED db, NEW c \in Client, NEW cmd, NEW result,
           AbsCall(caller[c], worker, c) = DoneCall(cmd, result), AbsCall(caller'[c], worker', c) = NoCall,
           \A x \in Client \ {c} : AbsCall(caller'[x], worker', x) = AbsCall(caller[x], worker, x)
    PROVE  Abstract!Next
  <1> DEFINE call == [x \in Client |-> CallOf(x)]
  <1>1. call[c] = DoneCall(cmd, result) /\ \A x \in Client : CallOf(x)' = IF x = c THEN NoCall ELSE call[x]
    BY CallOfIs, CallOfNext DEF Good
  <1>2. call' = [call EXCEPT ![c] = NoCall]
    BY <1>1
  <1>3. NoCall = Abstract!NoCall
    BY DEF NoCall, NoCmd, Abstract!NoCall, Abstract!NoResult, Abstract!Result, Abstract!Nothing, Abstract!NoDoc,
                NoResult, Result, Nothing, NoDoc
  <1>4. call[c].phase = "done"
    BY <1>1 DEF DoneCall
  <1>5. Abstract!Receive(c)
    BY <1>2, <1>3, <1>4 DEF Abstract!Receive
  <1> QED BY <1>5 DEF Abstract!Next

LEMMA RefDie ==
    ASSUME Good', UNCHANGED db, \A c \in Client : caller'[c] = NoCall
    PROVE  Abstract!Next
  <1>1. \A x \in Client : CallOf(x)' = NoCall
    BY CallOfNext DEF Good, AbsCall, NoCall
  <1>2. NoCall = Abstract!NoCall
    BY DEF NoCall, NoCmd, Abstract!NoCall, Abstract!NoResult, Abstract!Result, Abstract!Nothing, Abstract!NoDoc,
                NoResult, Result, Nothing, NoDoc
  <1> QED BY <1>1, <1>2 DEF Abstract!Next, Abstract!Die

-----------------------------------------------------------------------------
(* The steps of the callers. *)

LEMMA GoodLater ==
    ASSUME NEW s, NEW a \in Nat, NEW b \in Nat, a <= b, GoodCall(s, a), s.cmd \in Cmd \cup {NoCmd}
    PROVE  GoodCall(s, b)
  <1>1. Writes(s.cmd) /\ s.cmd \in Cmd => s.cmd.rev \in Nat
    BY DEF Writes, Cmd, GetCmd, PutCmd, CasCmd, DeleteCmd, PruneCmd
  <1> QED BY <1>1 DEF GoodCall

LEMMA ChannelOf ==
    ASSUME Typed, NEW i \in 1..Len(channel)
    PROVE  channel[i] \in [client : Client, cmd : Cmd] /\ channel[i].client \in Client /\ channel[i].cmd \in Cmd
  <1> DEFINE S == [client : Client, cmd : Cmd]
  <1>1. channel \in Seq(S)
    BY DEF Typed, ChannelType
  <1> HIDE DEF S
  <1>2. channel[i] \in S
    BY <1>1
  <1> QED BY <1>2 DEF S

LEMMA NothingFound == Nothing \in Found
  <1>1. Nothing \in [{} -> Doc]
    BY DEF Nothing
  <1> QED BY <1>1 DEF Found

LEMMA NoResultIs == NoResult \in Res
  BY NothingFound DEF NoResult, Result, Res

LEMMA SendKeeps ==
    ASSUME SInv, NEW c \in Client, Send(c)
    PROVE  SInv' /\ UNCHANGED Abstract!vars
  <1>0. caller[c] \in CallState /\ caller[c].cmd \in Cmd /\ caller[c].result = NoResult
    BY DEF SInv, Typed, CallerType, Calls, GoodCall, Send
  <1>1. /\ \A x \in Client \ {c} : caller'[x] = caller[x]
        /\ caller'[c].phase = "sent" /\ caller'[c].cmd = caller[c].cmd /\ caller'[c].result = caller[c].result
        /\ caller' \in [Client -> CallState]
    BY <1>0 DEF SInv, Typed, CallerType, Send, CallState
  <1>2. channel \in Seq([client : Client, cmd : Cmd]) /\ [client |-> c, cmd |-> caller[c].cmd] \in [client : Client, cmd : Cmd]
    BY <1>0 DEF SInv, Typed, ChannelType
  <1>3. /\ channel' \in Seq([client : Client, cmd : Cmd]) /\ Len(channel') = Len(channel) + 1
        /\ \A i \in 1..Len(channel) : channel'[i] = channel[i]
        /\ channel'[Len(channel) + 1].client = c /\ channel'[Len(channel) + 1].cmd = caller[c].cmd
    BY <1>2 DEF Send
  <1>4. \A i \in 1..Len(channel') : i \in 1..Len(channel) \/ i = Len(channel) + 1
    BY <1>2, <1>3
  <1>5. \A i \in 1..Len(channel) : channel[i].client # c
    BY DEF SInv, Queued, Send
  <1>6. Typed' /\ Stamped' /\ Transaction'
    BY <1>1, <1>3 DEF SInv, Typed, DbType, ChannelType, WorkerType, CallerType, Stamped, Transaction, Send
  <1>7. Calls'
    <2> SUFFICES ASSUME NEW x \in Client PROVE GoodCall(caller'[x], last')
      BY DEF Calls
    <2>1. CASE x = c
      BY <1>0, <1>1, <2>1 DEF SInv, Calls, GoodCall, Send
    <2>2. CASE x # c
      BY <1>1, <2>2 DEF SInv, Calls, Send
    <2> QED BY <2>1, <2>2
  <1>8. Queued'
    <2>1. ASSUME NEW i \in 1..Len(channel')
          PROVE  /\ caller'[channel'[i].client].phase = "sent"
                 /\ caller'[channel'[i].client].cmd = channel'[i].cmd
      <3>1. CASE i = Len(channel) + 1
        BY <1>1, <1>3, <3>1
      <3>2. CASE i \in 1..Len(channel)
        <4>1. channel[i].client \in Client \ {c}
          BY <1>5, <3>2, ChannelOf DEF SInv
        <4> QED BY <1>1, <1>3, <3>2, <4>1 DEF SInv, Queued
      <3> QED BY <1>4, <3>1, <3>2
    <2>2. ASSUME NEW i \in 1..Len(channel'), NEW j \in 1..Len(channel'), channel'[i].client = channel'[j].client
          PROVE  i = j
      BY <1>3, <1>4, <1>5, <2>2 DEF SInv, Queued
    <2> QED BY <2>1, <2>2 DEF Queued
  <1>9. Served'
    <2> SUFFICES ASSUME worker.step # "idle" PROVE Served'
      BY DEF Served, Send
    <2>1. worker.client \in Client /\ worker.client # c
      BY DEF SInv, Served, Send
    <2>2. \A i \in 1..Len(channel') : channel'[i].client # worker.client
      BY <1>3, <1>4, <2>1 DEF SInv, Served
    <2> QED BY <1>1, <2>1, <2>2 DEF SInv, Served, Send
  <1>10. \A x \in Client : AbsCall(caller'[x], worker', x) = AbsCall(caller[x], worker, x)
    <2> SUFFICES ASSUME NEW x \in Client PROVE AbsCall(caller'[x], worker', x) = AbsCall(caller[x], worker, x)
      OBVIOUS
    <2>1. CASE x = c
      <3>1. ~(worker.step = "reply" /\ worker.client = c)
        BY DEF SInv, Served, Send
      <3> QED BY <1>1, <2>1, <3>1 DEF AbsCall, Send
    <2>2. CASE x # c
      BY <1>1, <2>2 DEF Send
    <2> QED BY <2>1, <2>2
  <1>11. UNCHANGED db
    BY DEF Send
  <1>12. Good /\ Good'
    BY <1>6, <1>7, <1>9 DEF SInv, Good
  <1>13. UNCHANGED Abstract!vars
    BY <1>10, <1>11, <1>12, RefStutter
  <1> QED BY <1>6, <1>7, <1>8, <1>9, <1>13 DEF SInv

LEMMA PrepareKeeps ==
    ASSUME SInv, NEW c \in Client, NEW cmd \in Cmd, Prepare(c, cmd), Writes(cmd) => cmd.rev = next_revision
    PROVE  SInv' /\ Abstract!Next
  <1>0. last \in Nat /\ last' \in Nat /\ last <= last' /\ (Writes(cmd) => cmd.rev <= last')
    BY DEF SInv, Typed, DbType, Prepare, next_revision, Writes
  <1>1. /\ \A x \in Client \ {c} : caller'[x] = caller[x]
        /\ caller'[c].phase = "prepared" /\ caller'[c].cmd = cmd /\ caller'[c].result = NoResult
        /\ caller' \in [Client -> CallState]
    <2>1. NoCall \in CallState /\ NoCall.result = NoResult
      BY NoResultIs DEF NoCall, CallState
    <2> DEFINE new == [NoCall EXCEPT !.phase = "prepared", !.cmd = cmd]
    <2>2. new \in CallState /\ new.phase = "prepared" /\ new.cmd = cmd /\ new.result = NoResult
      BY <2>1 DEF CallState
    <2>3. caller' = [caller EXCEPT ![c] = new]
      BY DEF Prepare
    <2> HIDE DEF new
    <2> QED BY <2>2, <2>3 DEF SInv, Typed, CallerType
  <1>2. caller[c].phase = "idle"
    BY DEF Prepare, NoCall
  <1>3. Typed'
    BY <1>0, <1>1 DEF SInv, Typed, DbType, ChannelType, WorkerType, CallerType, Prepare
  <1>4. Stamped'
    <2>1. \A r \in db.revs : r \in Nat /\ r <= last'
      BY <1>0 DEF SInv, Typed, DbType, Stamped
    <2> QED BY <2>1 DEF SInv, Stamped, Prepare
  <1>5. Calls'
    <2> SUFFICES ASSUME NEW x \in Client PROVE GoodCall(caller'[x], last')
      BY DEF Calls
    <2>1. CASE x = c
      BY <1>0, <1>1, <2>1 DEF GoodCall
    <2>2. CASE x # c
      <3>1. GoodCall(caller[x], last) /\ caller[x].cmd \in Cmd \cup {NoCmd}
        BY DEF SInv, Calls, Typed, CallerType, CallState
      <3> QED BY <1>0, <1>1, <2>2, <3>1, GoodLater
    <2> QED BY <2>1, <2>2
  <1>6. Queued'
    <2>1. \A i \in 1..Len(channel) : channel[i].client \in Client \ {c}
      BY <1>2, ChannelOf DEF SInv, Queued
    <2> QED BY <1>1, <2>1 DEF SInv, Queued, Prepare
  <1>7. Served'
    BY <1>1, <1>2 DEF SInv, Served, Prepare
  <1>8. Transaction'
    BY DEF SInv, Transaction, Prepare
  <1>9. /\ AbsCall(caller[c], worker, c) = NoCall
        /\ \A x \in Client \ {c} : AbsCall(caller'[x], worker', x) = AbsCall(caller[x], worker, x)
    BY <1>1, <1>2 DEF AbsCall, Prepare
  <1>10. AbsCall(caller'[c], worker', c) = Asked(cmd)
    <2>1. ~(worker.step = "reply" /\ worker.client = c)
      BY <1>2 DEF SInv, Served
    <2> QED BY <1>1, <2>1 DEF AbsCall, Prepare
  <1>11. UNCHANGED db
    BY DEF Prepare
  <1>12. Good /\ Good'
    BY <1>3, <1>5, <1>7 DEF SInv, Good
  <1>13. Abstract!Next
    BY <1>9, <1>10, <1>11, <1>12, RefAsk
  <1> QED BY <1>3, <1>4, <1>5, <1>6, <1>7, <1>8, <1>13 DEF SInv

LEMMA ReceiveKeeps ==
    ASSUME SInv, NEW c \in Client, Receive(c)
    PROVE  SInv' /\ Abstract!Next
  <1>0. NoCall \in CallState /\ NoCall.phase = "idle"
    BY NoResultIs DEF NoCall, CallState
  <1>1. /\ \A x \in Client \ {c} : caller'[x] = caller[x]
        /\ caller'[c] = NoCall /\ caller' \in [Client -> CallState]
    BY <1>0 DEF SInv, Typed, CallerType, Receive
  <1>2. caller[c].phase = "answered"
    BY DEF Receive
  <1>3. Typed' /\ Stamped' /\ Transaction'
    BY <1>1 DEF SInv, Typed, DbType, ChannelType, WorkerType, CallerType, Stamped, Transaction, Receive
  <1>4. Calls'
    <2> SUFFICES ASSUME NEW x \in Client PROVE GoodCall(caller'[x], last')
      BY DEF Calls
    <2>1. CASE x = c
      BY <1>0, <1>1, <2>1 DEF GoodCall
    <2>2. CASE x # c
      BY <1>1, <2>2 DEF SInv, Calls, Receive
    <2> QED BY <2>1, <2>2
  <1>5. Queued'
    <2>1. \A i \in 1..Len(channel) : channel[i].client \in Client \ {c}
      BY <1>2, ChannelOf DEF SInv, Queued
    <2> QED BY <1>1, <2>1 DEF SInv, Queued, Receive
  <1>6. Served'
    BY <1>1, <1>2 DEF SInv, Served, Receive
  <1>7. \A x \in Client \ {c} : AbsCall(caller'[x], worker', x) = AbsCall(caller[x], worker, x)
    BY <1>1 DEF Receive
  <1>8. AbsCall(caller[c], worker, c) = DoneCall(caller[c].cmd, caller[c].result) /\ AbsCall(caller'[c], worker', c) = NoCall
    BY <1>0, <1>1, <1>2 DEF AbsCall
  <1>9. UNCHANGED db
    BY DEF Receive
  <1>10. Good /\ Good'
    BY <1>3, <1>4, <1>6 DEF SInv, Good
  <1>11. Abstract!Next
    BY <1>7, <1>8, <1>9, <1>10, RefReceive
  <1> QED BY <1>3, <1>4, <1>5, <1>6, <1>11 DEF SInv

-----------------------------------------------------------------------------
(* The steps of the storage thread. *)

LEMMA AtWork ==
    ASSUME SInv, worker.step # "idle"
    PROVE  /\ worker \in WorkerState /\ worker.client \in Client
           /\ caller[worker.client].phase = "sent" /\ worker.cmd \in Cmd
           /\ (Writes(worker.cmd) => worker.cmd.rev \in Nat \ {0} /\ worker.cmd.rev <= last)
  <1>1. worker \in WorkerState /\ worker.client \in Client /\ caller[worker.client].phase = "sent"
        /\ caller[worker.client].cmd = worker.cmd
    BY DEF SInv, Typed, WorkerType, Served
  <1>2. worker.cmd \in Cmd /\ (Writes(worker.cmd) => worker.cmd.rev <= last)
    BY <1>1 DEF SInv, Calls, GoodCall
  <1>3. Writes(worker.cmd) => worker.cmd.rev \in Nat \ {0}
    BY <1>2 DEF Writes, Cmd, GetCmd, PutCmd, CasCmd, DeleteCmd, PruneCmd
  <1> QED BY <1>1, <1>2, <1>3

LEMMA MovesKeeps ==
    ASSUME SInv, UNCHANGED <<db, last, channel, caller>>, worker.step # "idle",
           worker' \in WorkerState, worker'.step # "idle",
           worker'.client = worker.client, worker'.cmd = worker.cmd, Transacts(worker', db)
    PROVE  SInv' /\ Good /\ Good'
  <1>1. Typed' /\ Stamped' /\ Calls' /\ Queued'
    BY DEF SInv, Typed, DbType, ChannelType, WorkerType, CallerType, Stamped, Calls, Queued
  <1>2. Served' /\ Transaction'
    BY DEF SInv, Served, Transaction
  <1> QED BY <1>1, <1>2 DEF SInv, Good

LEMMA Moves ==
    ASSUME SInv, UNCHANGED <<db, last, channel, caller>>, worker.step \notin {"idle", "reply"},
           worker' \in WorkerState, worker'.step \notin {"idle", "reply"},
           worker'.client = worker.client, worker'.cmd = worker.cmd, Transacts(worker', db)
    PROVE  SInv' /\ UNCHANGED Abstract!vars
  <1>1. SInv' /\ Good /\ Good'
    BY MovesKeeps
  <1>2. \A x \in Client : AbsCall(caller'[x], worker', x) = AbsCall(caller[x], worker, x)
    BY DEF AbsCall
  <1> QED BY <1>1, <1>2, RefStutter

LEMMA FinishIs ==
    ASSUME worker \in WorkerState, NEW r \in Res
    PROVE  /\ Finish(r) \in WorkerState /\ Finish(r).step = "reply" /\ Finish(r).result = r
           /\ Finish(r).client = worker.client /\ Finish(r).cmd = worker.cmd
  BY DEF Finish, WorkerState

LEMMA Answers ==
    ASSUME SInv, UNCHANGED <<db, last, channel, caller>>, worker.step \notin {"idle", "reply"},
           NEW status \in {"read", "unchanged", "failed"}, NEW found \in Found,
           status = "read" => worker.cmd.op = "get" /\ DOMAIN found = worker.cmd.keys,
           worker' = Finish(Result(status, found)),
           Effect(db.docs, db.revs, status, found) \in Abstract!Outcome(worker.cmd, db.docs, db.revs)
    PROVE  SInv' /\ Abstract!Next
  <1> DEFINE r == Result(status, found)
  <1>0. r \in Res /\ r.status = status /\ r.found = found
    BY DEF Result, Res
  <1> HIDE DEF r
  <1>1. /\ worker' \in WorkerState /\ worker'.step = "reply" /\ worker'.result = r
        /\ worker'.client = worker.client /\ worker'.cmd = worker.cmd
    BY <1>0, AtWork, FinishIs DEF r
  <1>2. Transacts(worker', db)
    BY <1>0, <1>1 DEF Transacts
  <1>3. SInv' /\ Good /\ Good'
    BY <1>1, <1>2, MovesKeeps
  <1> DEFINE o == Effect(db.docs, db.revs, status, found)
  <1>4. db'.docs = o.docs /\ db'.revs = o.revs /\ worker'.result = o.result
    BY <1>1 DEF Effect, r
  <1> HIDE DEF o
  <1>5. o \in Abstract!Outcome(worker.cmd, db.docs, db.revs)
    BY DEF o
  <1>6. Abstract!Next
    BY <1>1, <1>3, <1>4, <1>5, RefDo
  <1> QED BY <1>3, <1>6

LEMMA BeginKeeps ==
    ASSUME SInv, Begin
    PROVE  SInv' /\ UNCHANGED Abstract!vars
  <1> DEFINE S == [client : Client, cmd : Cmd]
  <1>1. channel \in Seq(S) /\ channel # <<>>
    BY DEF SInv, Typed, ChannelType, Begin
  <1>2. Head(channel) = channel[1] /\ 1 \in 1..Len(channel)
    BY <1>1
  <1>3. channel[1].client \in Client /\ channel[1].cmd \in Cmd
    BY <1>2, ChannelOf DEF SInv
  <1>4. /\ channel' \in Seq(S) /\ Len(channel') = Len(channel) - 1
        /\ \A i \in 1..Len(channel') : channel'[i] = channel[i + 1] /\ i + 1 \in 1..Len(channel) /\ i + 1 # 1
    BY <1>1 DEF Begin
  <1>5. /\ worker' \in WorkerState /\ worker'.step = "begin" /\ worker'.client = channel[1].client
        /\ worker'.cmd = channel[1].cmd /\ worker'.txn = db
    <2>1. IdleWorker \in WorkerState
      BY NoResultIs DEF IdleWorker, WorkerState, Txn
    <2>2. db \in Txn
      BY DEF SInv, Typed, DbType, Txn
    <2>3. worker' = [IdleWorker EXCEPT !.step = "begin", !.client = channel[1].client,
                                       !.cmd = channel[1].cmd, !.txn = db]
      BY <1>2 DEF Begin
    <2> QED BY <1>3, <2>1, <2>2, <2>3 DEF WorkerState
  <1>6. Typed'
    BY <1>4, <1>5 DEF SInv, Typed, DbType, ChannelType, WorkerType, CallerType, Begin
  <1>7. Stamped' /\ Calls' /\ Transaction'
    BY <1>5 DEF SInv, Stamped, Calls, Transaction, Transacts, Begin
  <1>8. Queued'
    BY <1>4 DEF SInv, Queued, Begin
  <1>9. Served'
    BY <1>2, <1>3, <1>4, <1>5 DEF SInv, Queued, Served, Begin
  <1>10. \A x \in Client : AbsCall(caller'[x], worker', x) = AbsCall(caller[x], worker, x)
    BY <1>5 DEF AbsCall, Begin
  <1>11. UNCHANGED db
    BY DEF Begin
  <1>12. Good /\ Good'
    BY <1>6, <1>7, <1>9 DEF SInv, Good
  <1>13. UNCHANGED Abstract!vars
    BY <1>10, <1>11, <1>12, RefStutter
  <1> QED BY <1>6, <1>7, <1>8, <1>9, <1>13 DEF SInv

LEMMA ReadKeeps ==
    ASSUME SInv, Read
    PROVE  SInv' /\ [Abstract!Next]_Abstract!vars
  <1> DEFINE cmd == worker.cmd
             unchanged == \/ cmd.op = "put_if_changed" /\ \A k \in DOMAIN cmd.changes :
                               db.docs[k] # NoDoc /\ db.docs[k].payload = cmd.changes[k]
                          \/ cmd.op = "compare_and_put" /\ ~matches(cmd, db.docs)
             stuck == cmd.op = "compare_and_put" /\ \E k \in DOMAIN cmd.changes : cmd.rev <= cmd.expected[k]
  <1>1. /\ worker.step = "begin" /\ worker.txn = db /\ UNCHANGED <<db, last, channel, caller>>
        /\ cmd \in Cmd /\ worker \in WorkerState /\ db.docs \in Docs
    BY AtWork DEF Read, SInv, Transaction, Transacts, Typed, DbType
  <1>2. worker' = IF cmd.op = "get" THEN Finish(Result("read", [k \in cmd.keys |-> db.docs[k]]))
                  ELSE IF unchanged THEN Finish(Result("unchanged", Nothing))
                  ELSE IF stuck THEN Finish(Result("failed", Nothing))
                  ELSE [worker EXCEPT !.step = IF cmd.op = "prune" THEN "write" ELSE "record"]
    BY <1>1 DEF Read
  <1>3. CASE cmd.op = "get"
    <2>1. cmd.keys \in SUBSET Key
      BY <1>1, <1>3 DEF Cmd, GetCmd, PutCmd, CasCmd, DeleteCmd, PruneCmd
    <2> DEFINE found == [k \in cmd.keys |-> db.docs[k]]
    <2>2. found \in [cmd.keys -> Doc] /\ DOMAIN found = cmd.keys
      BY <1>1, <2>1 DEF Docs
    <2>3. found \in Found
      BY <2>1, <2>2 DEF Found
    <2>4. Effect(db.docs, db.revs, "read", found) \in Abstract!Outcome(cmd, db.docs, db.revs)
      BY <1>3, MayRead
    <2>5. worker' = Finish(Result("read", found))
      BY <1>2, <1>3
    <2> HIDE DEF found
    <2> QED BY <1>1, <1>3, <2>2, <2>3, <2>4, <2>5, Answers
  <1>4. CASE cmd.op # "get" /\ unchanged
    <2>1. worker' = Finish(Result("unchanged", Nothing))
      BY <1>2, <1>4
    <2>2. Effect(db.docs, db.revs, "unchanged", Nothing) \in Abstract!Outcome(cmd, db.docs, db.revs)
      BY <1>4, MayStay
    <2> QED BY <1>1, <2>1, <2>2, NothingFound, Answers
  <1>5. CASE cmd.op # "get" /\ ~unchanged /\ stuck
    <2>1. worker' = Finish(Result("failed", Nothing))
      BY <1>2, <1>5
    <2>2. Effect(db.docs, db.revs, "failed", Nothing) \in Abstract!Outcome(cmd, db.docs, db.revs)
      BY MayFail
    <2> QED BY <1>1, <2>1, <2>2, NothingFound, Answers
  <1>6. CASE cmd.op # "get" /\ ~unchanged /\ ~stuck
    <2>1. worker' = [worker EXCEPT !.step = IF cmd.op = "prune" THEN "write" ELSE "record"]
      BY <1>2, <1>6
    <2>2. /\ worker' \in WorkerState /\ worker'.client = worker.client /\ worker'.cmd = cmd
          /\ worker'.txn = db /\ worker'.step = IF cmd.op = "prune" THEN "write" ELSE "record"
      BY <1>1, <2>1 DEF WorkerState
    <2>3. Passed(cmd, db.docs)
      <3>1. ASSUME cmd.op = "compare_and_put", NEW k \in DOMAIN cmd.changes
            PROVE  cmd.rev > db.docs[k].rev
        <4>1. cmd.rev \in Nat /\ k \in DOMAIN cmd.expected /\ cmd.expected[k] \in Nat
          BY <1>1, <3>1 DEF Cmd, GetCmd, PutCmd, CasCmd, DeleteCmd, PruneCmd, Expected
        <4>2. db.docs[k].rev = cmd.expected[k]
          BY <1>6, <3>1, <4>1 DEF matches
        <4> QED BY <1>6, <3>1, <4>1, <4>2
      <3> QED BY <1>6, <3>1 DEF Passed
    <2>4. Transacts(worker', db)
      BY <1>6, <2>2, <2>3 DEF Transacts, Writes
    <2> QED BY <1>1, <2>2, <2>4, Moves
  <1> QED BY <1>3, <1>4, <1>5, <1>6

LEMMA RecordRevisionKeeps ==
    ASSUME SInv, RecordRevision
    PROVE  SInv' /\ [Abstract!Next]_Abstract!vars
  <1> DEFINE cmd == worker.cmd
             left == IF cmd.op = "delete" THEN {} ELSE DOMAIN cmd.changes
  <1>1. /\ worker.step = "record" /\ worker.txn = db /\ UNCHANGED <<db, last, channel, caller>>
        /\ cmd \in Cmd /\ worker \in WorkerState /\ db.docs \in Docs /\ db.revs \in SUBSET Nat
        /\ Writes(cmd) /\ Passed(cmd, db.docs) /\ cmd.rev \in Nat
    BY AtWork DEF RecordRevision, SInv, Transaction, Transacts, Typed, DbType
  <1>2. CASE cmd.rev \in db.revs
    <2>1. worker' = Finish(Result("failed", Nothing))
      BY <1>1, <1>2 DEF RecordRevision
    <2>2. Effect(db.docs, db.revs, "failed", Nothing) \in Abstract!Outcome(cmd, db.docs, db.revs)
      BY MayFail
    <2> QED BY <1>1, <2>1, <2>2, NothingFound, Answers
  <1>3. CASE cmd.rev \notin db.revs
    <2>1. worker' = [worker EXCEPT !.step = "write", !.txn.revs = @ \cup {cmd.rev}, !.left = left]
      BY <1>1, <1>3 DEF RecordRevision
    <2>2. left \in SUBSET AnyKey
      BY <1>1 DEF Writes, Cmd, GetCmd, PutCmd, CasCmd, DeleteCmd, PruneCmd, Changes
    <2> HIDE DEF left
    <2>3. /\ worker' \in WorkerState /\ worker'.client = worker.client /\ worker'.cmd = cmd
          /\ worker'.txn.docs = db.docs /\ worker'.txn.revs = db.revs \cup {cmd.rev}
          /\ worker'.step = "write" /\ worker'.left = left
      BY <1>1, <2>1, <2>2 DEF WorkerState, Txn
    <2>4. cmd.op = "delete" \/ cmd.op \in Puts
      BY <1>1 DEF Writes, Cmd, GetCmd, PutCmd, CasCmd, DeleteCmd, PruneCmd, Puts
    <2>5. cmd.op \in Puts => left \subseteq DOMAIN cmd.changes /\ db.docs = Partly(db.docs, cmd, left)
      BY <1>1 DEF left, Puts, Partly, Docs
    <2>6. Transacts(worker', db)
      BY <1>1, <1>3, <2>3, <2>4, <2>5 DEF Transacts
    <2> QED BY <1>1, <2>3, <2>6, Moves
  <1> QED BY <1>2, <1>3

LEMMA ErasedType ==
    ASSUME NEW d \in Docs, NEW keys
    PROVE  Erased(d, keys) \in Docs
  BY DEF Erased, Docs, Doc, NoDoc

LEMMA PartlyType ==
    ASSUME NEW d \in Docs, NEW cmd \in Cmd, cmd.op \in Puts, NEW left
    PROVE  Partly(d, cmd, left) \in Docs
  <1>1. cmd.rev \in Nat /\ cmd.changes \in Changes
    BY DEF Cmd, GetCmd, PutCmd, CasCmd, DeleteCmd, PruneCmd, Puts
  <1>2. \A k \in DOMAIN cmd.changes : cmd.changes[k] \in SUBSET Channel
    BY <1>1 DEF Changes
  <1>3. ASSUME NEW k \in Key, k \in DOMAIN cmd.changes
        PROVE  [payload |-> cmd.changes[k], rev |-> cmd.rev] \in Doc
    BY <1>1, <1>2, <1>3 DEF Doc
  <1> QED BY <1>3 DEF Partly, Docs

LEMMA WriteDocumentKeeps ==
    ASSUME SInv, WriteDocument
    PROVE  SInv' /\ UNCHANGED Abstract!vars
  <1> DEFINE cmd == worker.cmd
  <1>1. /\ worker.step = "write" /\ UNCHANGED <<db, last, channel, caller>>
        /\ cmd \in Cmd /\ worker \in WorkerState /\ db.docs \in Docs /\ db.revs \in SUBSET Nat
        /\ Transacts(worker, db)
    BY AtWork DEF WriteDocument, SInv, Transaction, Typed, DbType
  <1>2. CASE cmd.op = "prune"
    <2> DEFINE docs == Erased(db.docs, pruned(db.docs, cmd.keep))
    <2>1. worker.txn = db
      BY <1>1, <1>2 DEF Transacts, Puts
    <2>2. worker' = [worker EXCEPT !.step = "commit", !.txn.docs = docs]
      BY <1>2, <2>1 DEF WriteDocument, Erased
    <2>3. docs \in Docs
      BY <1>1, ErasedType
    <2> HIDE DEF docs
    <2>4. /\ worker' \in WorkerState /\ worker'.client = worker.client /\ worker'.cmd = cmd
          /\ worker'.txn.docs = docs /\ worker'.txn.revs = db.revs /\ worker'.step = "commit"
      BY <1>1, <2>1, <2>2, <2>3 DEF WorkerState, Txn
    <2>5. Transacts(worker', db)
      BY <1>2, <2>4 DEF Transacts, Final, docs
    <2> QED BY <1>1, <2>4, <2>5, Moves
  <1>3. CASE cmd.op = "delete"
    <2> DEFINE docs == Erased(db.docs, {cmd.key})
    <2>1. worker.txn.docs = db.docs /\ worker.txn.revs = db.revs \cup {cmd.rev} /\ cmd.rev \notin db.revs
      BY <1>1, <1>3 DEF Transacts, Puts
    <2>2. worker' = [worker EXCEPT !.step = "commit", !.txn.docs = docs]
      BY <1>3, <2>1 DEF WriteDocument, Erased
    <2>3. docs \in Docs
      BY <1>1, ErasedType
    <2> HIDE DEF docs
    <2>4. /\ worker' \in WorkerState /\ worker'.client = worker.client /\ worker'.cmd = cmd
          /\ worker'.txn.docs = docs /\ worker'.txn.revs = worker.txn.revs /\ worker'.step = "commit"
      BY <1>1, <2>2, <2>3 DEF WorkerState, Txn
    <2>5. Transacts(worker', db)
      BY <1>3, <2>1, <2>4 DEF Transacts, Final, docs
    <2> QED BY <1>1, <2>4, <2>5, Moves
  <1>4. CASE cmd.op \notin {"prune", "delete"}
    <2>1. /\ cmd.op \in Puts /\ Passed(cmd, db.docs) /\ cmd.rev \notin db.revs
          /\ worker.left \subseteq DOMAIN cmd.changes
          /\ worker.txn.revs = db.revs \cup {cmd.rev} /\ worker.txn.docs = Partly(db.docs, cmd, worker.left)
      BY <1>1, <1>4 DEF Transacts
    <2>2. PICK k \in worker.left :
            worker' = [worker EXCEPT
                       !.step = IF worker.left = {k} THEN "commit" ELSE "write",
                       !.left = @ \ {k},
                       !.txn.docs[k] = [payload |-> cmd.changes[k], rev |-> cmd.rev]]
      BY <1>4 DEF WriteDocument
    <2> DEFINE docs == [worker.txn.docs EXCEPT ![k] = [payload |-> cmd.changes[k], rev |-> cmd.rev]]
               left == worker.left \ {k}
    <2>3. docs = Partly(db.docs, cmd, left)
      BY <2>1 DEF Partly
    <2>4. docs \in Docs
      BY <1>1, <2>1, <2>3, PartlyType
    <2>5. worker' = [worker EXCEPT !.step = IF worker.left = {k} THEN "commit" ELSE "write",
                                   !.left = left, !.txn.docs = docs]
      BY <2>2
    <2>6. left \in SUBSET AnyKey
      BY <1>1 DEF WorkerState
    <2>7. worker.left = {k} => left = {}
      OBVIOUS
    <2>8. left \subseteq DOMAIN cmd.changes
      BY <2>1
    <2> HIDE DEF docs, left
    <2>9. /\ worker' \in WorkerState /\ worker'.client = worker.client /\ worker'.cmd = cmd
          /\ worker'.txn.docs = docs /\ worker'.txn.revs = worker.txn.revs /\ worker'.left = left
          /\ worker'.step = IF worker.left = {k} THEN "commit" ELSE "write"
      BY <1>1, <2>4, <2>5, <2>6 DEF WorkerState, Txn
    <2>10. Transacts(worker', db)
      <3>1. CASE worker.left = {k}
        BY <2>1, <2>3, <2>7, <2>9, <3>1 DEF Transacts, Final
      <3>2. CASE worker.left # {k}
        BY <2>1, <2>3, <2>8, <2>9, <3>2 DEF Transacts
      <3> QED BY <3>1, <3>2
    <2> QED BY <1>1, <2>9, <2>10, Moves
  <1> QED BY <1>2, <1>3, <1>4

LEMMA FinalFew ==
    ASSUME NEW w, NEW base, Final(w, base), base.docs \in Docs, w.cmd \in Cmd, Few(base.docs)
    PROVE  Few(w.txn.docs)
  <1> DEFINE Old == {k \in History : base.docs[k].rev # 0}
             New == {k \in History : w.txn.docs[k].rev # 0}
  <1>0. History \subseteq Key
    BY StoreAssumption
  <1>1. CASE w.cmd.op \in {"prune", "delete"}
    <2>1. \A k \in Key : w.txn.docs[k] = base.docs[k] \/ w.txn.docs[k].rev = 0
      BY <1>1 DEF Final, Erased, Puts, NoDoc
    <2>2. New \subseteq Old
      BY <1>0, <2>1
    <2> QED BY <2>2, FS_Subset DEF Few
  <1>2. CASE w.cmd.op \in Puts
    <2>1. IsFiniteSet(DOMAIN w.cmd.changes)
      <3>1. w.cmd.changes \in Changes
        BY <1>2 DEF Cmd, GetCmd, PutCmd, CasCmd, DeleteCmd, PruneCmd, Puts
      <3> QED BY <3>1 DEF Changes
    <2>2. \A k \in Key : w.txn.docs[k] = base.docs[k] \/ k \in DOMAIN w.cmd.changes
      BY <1>2 DEF Final, Partly, Puts
    <2>3. New \subseteq Old \cup DOMAIN w.cmd.changes
      BY <1>0, <2>2
    <2>4. IsFiniteSet(Old \cup DOMAIN w.cmd.changes)
      BY <2>1, FS_Union DEF Few
    <2> QED BY <2>3, <2>4, FS_Subset DEF Few
  <1> QED BY <1>1, <1>2 DEF Final

LEMMA FinalStamped ==
    ASSUME SInv, worker.step = "commit", db' = worker.txn, last' = last
    PROVE  Stamped' /\ DbType'
  <1>0. NoDoc.rev = 0
    BY DEF NoDoc
  <1>1. /\ Final(worker, db) /\ worker.cmd \in Cmd /\ db.docs \in Docs /\ db.revs \in SUBSET Nat
        /\ worker \in WorkerState /\ last \in Nat /\ Stamped
        /\ (Writes(worker.cmd) => worker.cmd.rev \in Nat \ {0} /\ worker.cmd.rev <= last)
    BY AtWork DEF SInv, Typed, DbType, Transaction, Transacts
  <1>2. worker.txn.docs \in Docs
    <2>1. CASE worker.cmd.op \in Puts
      BY <1>1, <2>1, PartlyType DEF Final, Puts
    <2>2. CASE worker.cmd.op \notin Puts
      BY <1>1, <2>2, ErasedType DEF Final
    <2> QED BY <2>1, <2>2
  <1>3. worker.txn \in [docs : Docs, revs : SUBSET Nat]
    BY <1>1, <1>2 DEF WorkerState, Txn
  <1>4. Few(worker.txn.docs)
    BY <1>1, FinalFew DEF Stamped
  <1>5. CASE worker.cmd.op = "prune"
    <2>1. worker.txn.revs = db.revs /\ \A k \in Key : worker.txn.docs[k] \in {db.docs[k], NoDoc}
      BY <1>1, <1>5 DEF Final, Erased, Puts
    <2>2. \A k \in Key : /\ worker.txn.docs[k].rev \in worker.txn.revs \cup {0}
                         /\ worker.txn.docs[k].rev = 0 => worker.txn.docs[k] = NoDoc
      BY <1>0, <1>1, <2>1 DEF Stamped
    <2> QED BY <1>1, <1>3, <1>4, <2>1, <2>2 DEF Stamped, DbType
  <1>6. CASE worker.cmd.op # "prune"
    <2>0. Writes(worker.cmd)
      BY <1>1, <1>6 DEF Final, Writes, Puts
    <2>1. worker.txn.revs = db.revs \cup {worker.cmd.rev}
      BY <1>1, <1>6 DEF Final, Puts
    <2>2. \A k \in Key : \/ worker.txn.docs[k] \in {db.docs[k], NoDoc}
                         \/ worker.txn.docs[k].rev = worker.cmd.rev
      BY <1>1, <1>6 DEF Final, Erased, Partly, Puts
    <2>3. \A k \in Key : /\ worker.txn.docs[k].rev \in worker.txn.revs \cup {0}
                         /\ worker.txn.docs[k].rev = 0 => worker.txn.docs[k] = NoDoc
      <3> SUFFICES ASSUME NEW k \in Key
                   PROVE  /\ worker.txn.docs[k].rev \in worker.txn.revs \cup {0}
                          /\ worker.txn.docs[k].rev = 0 => worker.txn.docs[k] = NoDoc
        OBVIOUS
      <3>1. CASE worker.txn.docs[k].rev = worker.cmd.rev
        BY <1>1, <2>0, <2>1, <3>1
      <3>2. CASE worker.txn.docs[k] = NoDoc
        BY <1>0, <3>2
      <3>3. CASE worker.txn.docs[k] = db.docs[k]
        BY <1>1, <2>1, <3>3 DEF Stamped
      <3> QED BY <2>2, <3>1, <3>2, <3>3
    <2>4. \A r \in worker.txn.revs : 0 < r /\ r <= last
      BY <1>1, <2>0, <2>1 DEF Stamped
    <2> QED BY <1>1, <1>3, <1>4, <2>3, <2>4 DEF Stamped, DbType
  <1> QED BY <1>5, <1>6

LEMMA CommitKeeps ==
    ASSUME SInv, Commit
    PROVE  SInv' /\ Abstract!Next
  <1> DEFINE r == Result("done", Nothing)
  <1>0. r \in Res /\ r.status = "done"
    BY NothingFound DEF Result, Res
  <1>1. /\ worker.step = "commit" /\ db' = worker.txn /\ worker' = Finish(r)
        /\ UNCHANGED <<last, channel, caller>>
    BY DEF Commit
  <1> HIDE DEF r
  <1>2. /\ worker' \in WorkerState /\ worker'.step = "reply" /\ worker'.result = r
        /\ worker'.client = worker.client /\ worker'.cmd = worker.cmd
    BY <1>0, <1>1, AtWork, FinishIs
  <1>3. Typed' /\ Stamped'
    BY <1>1, <1>2, FinalStamped DEF SInv, Typed, ChannelType, WorkerType, CallerType
  <1>4. Calls' /\ Queued' /\ Served'
    BY <1>1, <1>2 DEF SInv, Calls, Queued, Served
  <1>5. Transaction'
    BY <1>0, <1>2 DEF Transaction, Transacts
  <1>6. Good /\ Good'
    BY <1>3, <1>4 DEF SInv, Good
  <1> DEFINE o == Effect(worker.txn.docs, worker.txn.revs, "done", Nothing)
  <1>7. o \in Abstract!Outcome(worker.cmd, db.docs, db.revs)
    <2>1. Final(worker, db) /\ db.docs \in Docs /\ Few(db.docs) /\ worker.cmd \in Cmd
      BY <1>1, AtWork DEF SInv, Transaction, Transacts, Typed, DbType, Stamped
    <2>2. CASE worker.cmd.op = "prune"
      <3>1. worker.cmd.keep \in Nat
        BY <2>1, <2>2, NotifierAssumption DEF Cmd, GetCmd, PutCmd, CasCmd, DeleteCmd, PruneCmd
      <3>2. o = Effect(Erased(db.docs, pruned(db.docs, worker.cmd.keep)), db.revs, "done", Nothing)
        BY <2>1, <2>2 DEF Final, Puts
      <3> QED BY <2>1, <2>2, <3>1, <3>2, MayPrune
    <2>3. CASE worker.cmd.op = "delete"
      <3>1. o = Effect(Erased(db.docs, {worker.cmd.key}), db.revs \cup {worker.cmd.rev}, "done", Nothing)
            /\ worker.cmd.rev \notin db.revs
        BY <2>1, <2>3 DEF Final, Puts
      <3> QED BY <2>1, <2>3, <3>1, MayDelete
    <2>4. CASE worker.cmd.op \in Puts
      <3>1. o = Effect(Partly(db.docs, worker.cmd, {}), db.revs \cup {worker.cmd.rev}, "done", Nothing)
            /\ worker.cmd.rev \notin db.revs /\ Passed(worker.cmd, db.docs)
        BY <2>1, <2>4 DEF Final, Puts
      <3> QED BY <2>1, <2>4, <3>1, MayPut
    <2> QED BY <2>1, <2>2, <2>3, <2>4 DEF Final
  <1>8. db'.docs = o.docs /\ db'.revs = o.revs /\ worker'.result = o.result
    BY <1>1, <1>2 DEF Effect, r
  <1> HIDE DEF o
  <1>9. Abstract!Next
    BY <1>1, <1>2, <1>6, <1>7, <1>8, RefDo
  <1> QED BY <1>3, <1>4, <1>5, <1>9 DEF SInv

LEMMA ReplyKeeps ==
    ASSUME SInv, Reply
    PROVE  SInv' /\ UNCHANGED Abstract!vars
  <1> DEFINE c == worker.client
  <1>0. /\ worker.step = "reply" /\ UNCHANGED <<db, last, channel>> /\ worker' = IdleWorker
        /\ c \in Client /\ caller[c].phase = "sent" /\ worker.result \in Res /\ caller[c].cmd = worker.cmd
    BY AtWork DEF Reply, SInv, Served, WorkerState
  <1>1. /\ \A x \in Client \ {c} : caller'[x] = caller[x]
        /\ caller'[c].phase = "answered" /\ caller'[c].cmd = caller[c].cmd /\ caller'[c].result = worker.result
        /\ caller' \in [Client -> CallState]
    <2>1. caller' = [caller EXCEPT ![c].phase = "answered", ![c].result = worker.result]
      BY DEF Reply
    <2>2. caller \in [Client -> CallState]
      BY DEF SInv, Typed, CallerType
    <2> QED BY <1>0, <2>1, <2>2 DEF CallState
  <1>2. IdleWorker \in WorkerState /\ IdleWorker.step = "idle"
    BY NoResultIs DEF IdleWorker, WorkerState, Txn
  <1>3. Typed' /\ Stamped' /\ Transaction' /\ Served'
    BY <1>0, <1>1, <1>2 DEF SInv, Typed, DbType, ChannelType, WorkerType, CallerType, Stamped, Transaction, Transacts, Served
  <1>4. Calls'
    <2> SUFFICES ASSUME NEW x \in Client PROVE GoodCall(caller'[x], last')
      BY DEF Calls
    <2>1. CASE x = c
      <3>1. worker.result.status = "read" => worker.cmd.op = "get" /\ DOMAIN worker.result.found = worker.cmd.keys
        BY <1>0 DEF SInv, Transaction, Transacts
      <3>2. GoodCall(caller[c], last)
        BY <1>0 DEF SInv, Calls
      <3> QED BY <1>0, <1>1, <2>1, <3>1, <3>2 DEF GoodCall
    <2>2. CASE x # c
      BY <1>0, <1>1, <2>2 DEF SInv, Calls
    <2> QED BY <2>1, <2>2
  <1>5. Queued'
    <2>1. \A i \in 1..Len(channel) : channel[i].client \in Client \ {c}
      BY <1>0, ChannelOf DEF SInv, Served
    <2> QED BY <1>0, <1>1, <2>1 DEF SInv, Queued
  <1>6. \A x \in Client : AbsCall(caller'[x], worker', x) = AbsCall(caller[x], worker, x)
    BY <1>0, <1>1, <1>2 DEF AbsCall
  <1>7. Good /\ Good'
    BY <1>3, <1>4 DEF SInv, Good
  <1>8. UNCHANGED Abstract!vars
    BY <1>0, <1>6, <1>7, RefStutter
  <1> QED BY <1>3, <1>4, <1>5, <1>8 DEF SInv

LEMMA FailStatementKeeps ==
    ASSUME SInv, FailStatement
    PROVE  SInv' /\ Abstract!Next
  <1>1. /\ worker.step \notin {"idle", "reply"} /\ UNCHANGED <<db, last, channel, caller>>
        /\ worker' = Finish(Result("failed", Nothing))
    BY DEF FailStatement, rolled_back
  <1>2. Effect(db.docs, db.revs, "failed", Nothing) \in Abstract!Outcome(worker.cmd, db.docs, db.revs)
    BY MayFail
  <1> QED BY <1>1, <1>2, NothingFound, Answers

LEMMA Least ==
    ASSUME NEW T \in SUBSET Nat, T # {}
    PROVE  \E x \in T : \A y \in T : x <= y
  <1> DEFINE Upto(m) == {y \in T : y <= m}
             U == {Upto(m) : m \in T}
  <1>1. \A m \in T : Upto(m) \in FiniteSubsetsOf(Nat)
    <2> SUFFICES ASSUME NEW m \in T PROVE Upto(m) \in FiniteSubsetsOf(Nat)
      OBVIOUS
    <2>1. m \in Nat /\ Upto(m) \in SUBSET Nat /\ \A y \in Upto(m) : y <= m
      OBVIOUS
    <2>2. IsFiniteSet(Upto(m))
      BY <2>1, FS_BoundedSetOfNaturals
    <2> QED BY <2>1, <2>2 DEF FiniteSubsetsOf
  <1>2. IsWellFoundedOn(StrictSubsetOrdering(Nat), FiniteSubsetsOf(Nat))
    BY FS_StrictSubsetOrderingWellFounded
  <1>3. U \subseteq FiniteSubsetsOf(Nat) /\ U # {}
    BY <1>1
  <1>4. PICK u \in U : \A v \in U : ~(<<v, u>> \in StrictSubsetOrdering(Nat))
    BY <1>2, <1>3, WFMin
  <1>5. PICK x \in T : u = Upto(x)
    OBVIOUS
  <1>6. ASSUME NEW y \in T, y < x
        PROVE  FALSE
    <2>0. x \in Nat /\ y \in Nat
      OBVIOUS
    <2>1. Upto(y) \subseteq Upto(x) /\ x \in Upto(x) /\ x \notin Upto(y)
      <3>1. ASSUME NEW z \in T, z <= y PROVE z <= x
        <4>1. z \in Nat
          OBVIOUS
        <4> QED BY <1>6, <2>0, <3>1, <4>1
      <3>2. x <= x /\ ~(x <= y)
        BY <1>6, <2>0
      <3> QED BY <3>1, <3>2
    <2>2. <<Upto(y), Upto(x)>> \in StrictSubsetOrdering(Nat)
      BY <2>1, <1>1 DEF StrictSubsetOrdering, FiniteSubsetsOf
    <2> QED BY <1>4, <1>5, <2>2
  <1> QED BY <1>6

LEMMA Greatest ==
    ASSUME NEW S \in SUBSET Nat, S # {}, NEW top \in Nat, \A y \in S : y <= top
    PROVE  \E x \in S : \A y \in S : x >= y
  <1> DEFINE U == {u \in Nat : \A y \in S : y <= u}
  <1>1. U \in SUBSET Nat /\ U # {}
    OBVIOUS
  <1>2. PICK u \in U : \A v \in U : u <= v
    BY <1>1, Least
  <1>3. CASE u \in S
    BY <1>3
  <1>4. CASE u \notin S
    <2>1. \A y \in S : y \in Nat /\ y < u
      BY <1>4
    <2>2. u - 1 \in Nat
      <3>1. PICK y \in S : y \in Nat /\ y < u
        BY <2>1
      <3>2. u \in Nat
        OBVIOUS
      <3> QED BY <3>1, <3>2
    <2>3. u - 1 \in U
      BY <2>1, <2>2
    <2> QED BY <1>2, <2>3
  <1> QED BY <1>3, <1>4

LEMMA RestartKeeps ==
    ASSUME SInv, Restart
    PROVE  SInv' /\ Abstract!Next
  <1>1. /\ db' = db /\ last' = Max(db.revs \cup {0}) /\ channel' = <<>> /\ worker' = IdleWorker
        /\ caller' = [c \in Client |-> NoCall]
    BY DEF Restart, rolled_back, observe_revision
  <1>2. last' \in Nat /\ \A r \in db.revs : r <= last'
    <2> DEFINE S == db.revs \cup {0}
    <2>1. S \in SUBSET Nat /\ S # {} /\ last \in Nat /\ \A y \in S : y <= last
      BY DEF SInv, Typed, DbType, Stamped
    <2>2. \E x \in S : \A y \in S : x >= y
      BY <2>1, Greatest
    <2>3. Max(S) \in S /\ \A y \in S : Max(S) >= y
      BY <2>2 DEF Max
    <2> QED BY <1>1, <2>1, <2>3
  <1>3. IdleWorker \in WorkerState /\ IdleWorker.step = "idle" /\ NoCall \in CallState /\ NoCall.phase = "idle"
    BY NoResultIs DEF IdleWorker, WorkerState, Txn, NoCall, CallState
  <1>4. channel' \in Seq([client : Client, cmd : Cmd]) /\ Len(channel') = 0
    BY <1>1
  <1>5. Typed'
    BY <1>1, <1>2, <1>3, <1>4 DEF SInv, Typed, DbType, ChannelType, WorkerType, CallerType
  <1>6. Stamped'
    BY <1>1, <1>2 DEF SInv, Stamped
  <1>7. Calls' /\ Queued' /\ Served' /\ Transaction'
    BY <1>1, <1>3, <1>4 DEF Calls, GoodCall, Queued, Served, Transaction, Transacts
  <1>8. Good'
    BY <1>5, <1>7 DEF Good
  <1>9. Abstract!Next
    BY <1>1, <1>8, RefDie
  <1> QED BY <1>5, <1>6, <1>7, <1>9 DEF SInv

-----------------------------------------------------------------------------
(* Every step of the specification is a step of the abstract one. *)

StoreStep == Work \/ FailStatement \/ \E c \in Client : Send(c)

LEMMA StoreKeeps ==
    ASSUME SInv, StoreStep
    PROVE  SInv' /\ [Abstract!Next]_Abstract!vars
  <1>1. CASE Begin
    BY <1>1, BeginKeeps
  <1>2. CASE Read
    BY <1>2, ReadKeeps
  <1>3. CASE RecordRevision
    BY <1>3, RecordRevisionKeeps
  <1>4. CASE WriteDocument
    BY <1>4, WriteDocumentKeeps
  <1>5. CASE Commit
    BY <1>5, CommitKeeps
  <1>6. CASE Reply
    BY <1>6, ReplyKeeps
  <1>7. CASE FailStatement
    BY <1>7, FailStatementKeeps
  <1>8. ASSUME NEW c \in Client, Send(c) PROVE SInv' /\ [Abstract!Next]_Abstract!vars
    BY <1>8, SendKeeps
  <1> QED BY <1>1, <1>2, <1>3, <1>4, <1>5, <1>6, <1>7, <1>8 DEF StoreStep, Work

LEMMA QuietKeeps ==
    ASSUME SInv, UNCHANGED storeVars
    PROVE  SInv' /\ UNCHANGED Abstract!vars
  <1>1. SInv'
    BY DEF SInv, Typed, DbType, ChannelType, WorkerType, CallerType, Stamped, Calls, Queued, Served, Transaction, storeVars
  <1>2. Good /\ Good' /\ UNCHANGED <<db, worker, caller>>
    BY <1>1 DEF SInv, Good, storeVars
  <1> QED BY <1>1, <1>2, RefStutter

(* The commands of the dispatcher and of the API workers. *)
LoadCmd == [op |-> "get", keys |-> {Config}]
DeliveryCmd == [op |-> "put", rev |-> next_revision, changes |-> [k \in {DeliveryAt(next_revision)} |-> {}]]
PrunesCmd == [op |-> "prune", keep |-> KeepLatest]

LEMMA DispatcherCmds ==
    ASSUME last \in Nat
    PROVE  /\ LoadCmd \in Cmd /\ ~Writes(LoadCmd)
           /\ DeliveryCmd \in Cmd /\ DeliveryCmd.rev = next_revision
           /\ PrunesCmd \in Cmd /\ ~Writes(PrunesCmd)
  <1>1. LoadCmd \in GetCmd /\ ~Writes(LoadCmd)
    BY NotifierAssumption DEF LoadCmd, GetCmd, Writes
  <1>2. PrunesCmd \in PruneCmd /\ ~Writes(PrunesCmd)
    BY DEF PrunesCmd, PruneCmd, Writes
  <1>3. DeliveryCmd \in PutCmd /\ DeliveryCmd.rev = next_revision
    <2> DEFINE S == {DeliveryAt(next_revision)}
               f == [k \in S |-> {}]
    <2>1. next_revision \in Nat \ {0}
      BY DEF next_revision
    <2>2. S \in SUBSET AnyKey /\ IsFiniteSet(S)
      BY <2>1, FS_Singleton DEF AnyKey
    <2>3. f \in [S -> SUBSET Channel]
      OBVIOUS
    <2> HIDE DEF S
    <2>4. f \in Changes
      BY <2>2, <2>3 DEF Changes
    <2> HIDE DEF f
    <2> QED BY <2>1, <2>4 DEF DeliveryCmd, PutCmd, f, S
  <1> QED BY <1>1, <1>2, <1>3 DEF Cmd

LEMMA ApiCmds ==
    ASSUME DbType, NEW cmd \in Commands
    PROVE  /\ cmd \in Cmd /\ (Writes(cmd) => cmd.rev = next_revision) /\ cmd.op # "prune"
           /\ cmd.op \in Puts => DOMAIN cmd.changes \cap History = {}
           /\ cmd.op = "delete" => cmd.key \notin History
  <1>0. next_revision \in Nat \ {0} /\ {Config, Ha, Listeners, Groups} \subseteq Key \ History
    BY NotifierAssumption DEF DbType, next_revision
  <1>1. ASSUME NEW S, S \subseteq {Config, Ha, Listeners, Groups}
        PROVE  S \in SUBSET AnyKey /\ IsFiniteSet(S)
    <2>1. IsFiniteSet({Config, Ha, Listeners, Groups})
      <3>1. IsFiniteSet({Config}) /\ IsFiniteSet({Config} \cup {Ha})
        BY FS_Singleton, FS_AddElement
      <3>2. IsFiniteSet({Config} \cup {Ha} \cup {Listeners})
        BY <3>1, FS_AddElement
      <3>3. IsFiniteSet({Config} \cup {Ha} \cup {Listeners} \cup {Groups})
        BY <3>2, FS_AddElement
      <3>4. {Config} \cup {Ha} \cup {Listeners} \cup {Groups} = {Config, Ha, Listeners, Groups}
        OBVIOUS
      <3> QED BY <3>3, <3>4
    <2> QED BY <1>0, <1>1, <2>1, FS_Subset DEF AnyKey
  <1>2. CASE cmd \in [op : {"get"}, keys : {{Listeners, Groups}}]
    BY <1>0, <1>2 DEF Cmd, GetCmd, Writes, Puts
  <1>3. CASE cmd \in [op : {"put_if_changed"}, rev : {next_revision}, changes : [{Config} -> Payload]]
    <2>1. cmd.changes \in [{Config} -> SUBSET Channel]
      BY <1>3, NotifierAssumption
    <2>2. cmd.changes \in Changes
      BY <1>1, <2>1 DEF Changes
    <2>3. cmd \in PutCmd
      BY <1>0, <1>3, <2>2 DEF PutCmd
    <2> QED BY <1>0, <1>3, <2>1, <2>3 DEF Cmd, Writes, Puts
  <1>4. CASE cmd \in [op : {"put"}, rev : {next_revision}, changes : [{Ha} -> {{}}]]
    <2>1. cmd.changes \in [{Ha} -> SUBSET Channel]
      BY <1>4
    <2>2. cmd.changes \in Changes
      BY <1>1, <2>1 DEF Changes
    <2>3. cmd \in PutCmd
      BY <1>0, <1>4, <2>2 DEF PutCmd
    <2> QED BY <1>0, <1>4, <2>1, <2>3 DEF Cmd, Writes, Puts
  <1>5. CASE cmd \in [op : {"delete"}, rev : {next_revision}, key : {Ha}]
    BY <1>0, <1>5 DEF Cmd, DeleteCmd, Writes, Puts
  <1>6. ASSUME NEW h \in db.revs \cup {0}, NEW e \in db.revs \cup {0}, cmd = Replace(h, e)
        PROVE  /\ cmd \in Cmd /\ (Writes(cmd) => cmd.rev = next_revision) /\ cmd.op # "prune"
               /\ cmd.op \in Puts => DOMAIN cmd.changes \cap History = {}
               /\ cmd.op = "delete" => cmd.key \notin History
    <2> DEFINE ch == [k \in {Listeners, Groups} |-> Channel]
               ex == [k \in {Listeners, Groups, Ha} |-> IF k = Ha THEN h ELSE e]
    <2>1. ch \in [{Listeners, Groups} -> SUBSET Channel] /\ DOMAIN ch = {Listeners, Groups}
      OBVIOUS
    <2>2. ch \in Changes
      <3>1. {Listeners, Groups} \in {T \in SUBSET AnyKey : IsFiniteSet(T)}
        BY <1>1
      <3> HIDE DEF ch
      <3> QED BY <2>1, <3>1 DEF Changes
    <2>3. h \in Nat /\ e \in Nat
      BY DEF DbType
    <2>4. ex \in [{Listeners, Groups, Ha} -> Nat] /\ DOMAIN ex = {Listeners, Groups, Ha}
      BY <2>3
    <2>5. ex \in Expected
      BY <1>0, <2>4 DEF Expected
    <2>6. cmd = [op |-> "compare_and_put", rev |-> next_revision, changes |-> ch, expected |-> ex]
      BY <1>6 DEF Replace
    <2> HIDE DEF ch, ex
    <2>7. cmd \in CasCmd
      <3>1. cmd \in [op : {"compare_and_put"}, rev : Nat \ {0}, changes : Changes, expected : Expected]
        BY <1>0, <2>2, <2>5, <2>6
      <3>2. DOMAIN cmd.changes \subseteq DOMAIN cmd.expected
        BY <2>1, <2>4, <2>6
      <3> QED BY <3>1, <3>2 DEF CasCmd
    <2> QED BY <1>0, <2>1, <2>6, <2>7 DEF Cmd, Writes, Puts
  <1> QED BY <1>2, <1>3, <1>4, <1>5, <1>6 DEF Commands

LEMMA NextRefines ==
    ASSUME SInv, [Next]_vars
    PROVE  SInv' /\ [Abstract!Next]_Abstract!vars
  <1>0. last \in Nat /\ DbType /\ Dispatcher \in Client
    BY NotifierAssumption DEF SInv, Typed, DbType
  <1>1. CASE Rest \/ publish \/ send_with_retry \/ UNCHANGED vars
    BY <1>1, QuietKeeps DEF Rest, publish, send_with_retry, vars
  <1>2. CASE TakeEvent
    <2>1. Prepare(Dispatcher, LoadCmd)
      BY <1>2 DEF TakeEvent, LoadCmd
    <2> QED BY <1>0, <2>1, DispatcherCmds, PrepareKeeps
  <1>3. CASE append_delivery
    <2>1. Prepare(Dispatcher, DeliveryCmd)
      BY <1>3 DEF append_delivery, DeliveryCmd
    <2> QED BY <1>0, <2>1, DispatcherCmds, PrepareKeeps
  <1>4. CASE prune_deliveries
    <2>1. Prepare(Dispatcher, PrunesCmd)
      BY <1>4 DEF prune_deliveries, PrunesCmd
    <2> QED BY <1>0, <2>1, DispatcherCmds, PrepareKeeps
  <1>5. CASE LoadChannels \/ DeliveryStored \/ DeliveriesPruned
    <2>1. Receive(Dispatcher)
      BY <1>5 DEF LoadChannels, DeliveryStored, DeliveriesPruned
    <2> QED BY <1>0, <2>1, ReceiveKeeps
  <1>6. CASE Store
    BY <1>6, StoreKeeps DEF Store, StoreStep
  <1>7. CASE RestartAll
    BY <1>7, RestartKeeps DEF RestartAll
  <1>8. ASSUME NEW c \in Client, ApiCall(c)
        PROVE  SInv' /\ [Abstract!Next]_Abstract!vars
    <2>1. PICK cmd \in Commands : Prepare(c, cmd)
      BY <1>8 DEF ApiCall
    <2> QED BY <1>0, <2>1, ApiCmds, PrepareKeeps
  <1>9. ASSUME NEW c \in Client, ApiAnswer(c)
        PROVE  SInv' /\ [Abstract!Next]_Abstract!vars
    BY <1>9, ReceiveKeeps DEF ApiAnswer
  <1> QED BY <1>1, <1>2, <1>3, <1>4, <1>5, <1>6, <1>7, <1>8, <1>9 DEF Next, Dispatch

LEMMA InitRefines ==
    ASSUME Init
    PROVE  SInv /\ Abstract!Init
  <1>0. /\ Config \in Key \ History /\ History \subseteq Key
        /\ db.docs = [k \in Key |-> IF k = Config THEN [payload |-> Channel, rev |-> 1] ELSE NoDoc]
        /\ db.revs = {1} /\ DOMAIN db = {"docs", "revs"}
        /\ last = 1 /\ channel = <<>> /\ worker = IdleWorker /\ caller = [c \in Client |-> NoCall]
    BY NotifierAssumption, StoreAssumption DEF Init
  <1>1. NoDoc \in Doc /\ [payload |-> Channel, rev |-> 1] \in Doc /\ NoDoc.rev = 0
    BY DEF NoDoc, Doc
  <1>2. db.docs \in Docs
    BY <1>0, <1>1 DEF Docs
  <1>3. db \in [docs : Docs, revs : SUBSET Nat]
    <2>1. db = [docs |-> db.docs, revs |-> db.revs]
      BY DEF Init
    <2> QED BY <1>0, <1>2, <2>1
  <1>4. IdleWorker \in WorkerState /\ IdleWorker.step = "idle" /\ NoCall \in CallState /\ NoCall.phase = "idle"
    BY NoResultIs DEF IdleWorker, WorkerState, Txn, NoCall, CallState
  <1>5. Typed
    BY <1>0, <1>3, <1>4 DEF Typed, DbType, ChannelType, WorkerType, CallerType
  <1>6. Stamped
    <2>1. {k \in History : db.docs[k].rev # 0} = {}
      BY <1>0, <1>1
    <2>2. Few(db.docs)
      BY <2>1, FS_EmptySet DEF Few
    <2> QED BY <1>0, <1>1, <2>2 DEF Stamped
  <1>7. Calls /\ Queued /\ Served /\ Transaction
    BY <1>0, <1>4 DEF Calls, GoodCall, Queued, Served, Transaction, Transacts
  <1>8. \A c \in Client : CallOf(c) = NoCall
    BY <1>0, <1>4 DEF CallOf
  <1>9. NoCall = Abstract!NoCall /\ NoDoc = Abstract!NoDoc
    BY DEF NoCall, NoCmd, Abstract!NoCall, Abstract!NoResult, Abstract!Result, Abstract!Nothing, Abstract!NoDoc,
                NoResult, Result, Nothing, NoDoc
  <1>10. Abstract!Init
    <2>1. [c \in Client |-> CallOf(c)] = [c \in Client |-> Abstract!NoCall]
      BY <1>8, <1>9
    <2>2. \A k \in Key : db.docs[k] = Abstract!NoDoc \/ db.docs[k].rev \in db.revs
      BY <1>0, <1>9
    <2> QED BY <2>1, <2>2 DEF Abstract!Init
  <1> QED BY <1>5, <1>6, <1>7, <1>10 DEF SInv

(* The repository implements the atomic documents: whatever the interleaving of the
   callers, the order the commands are served in, the statements that fail and the
   restarts of the process, a call of repository.rs takes effect at one moment between
   its start and its answer, entirely or not at all, and its result fits the documents
   of that moment. *)
THEOREM NotifierImplements == Spec => ImplementsDocuments
  <1>1. Init => SInv /\ Abstract!Init
    BY InitRefines
  <1>2. SInv /\ [Next]_vars => SInv' /\ [Abstract!Next]_Abstract!vars
    BY NextRefines
  <1> QED BY <1>1, <1>2, PTL DEF Spec, ImplementsDocuments, Abstract!Spec

-----------------------------------------------------------------------------
(* The invariant of the dispatcher. *)

DispState ==
    [pc : {"idle", "load", "send", "append", "put", "appended", "prune"},
     left : SUBSET Channel, attempt : 0..(MaxRetries - 1)]
Bounds ==
    /\ disp \in DispState /\ Len(channel) <= ChannelCap /\ faults \in 0..MaxFaults
    /\ events \in 0..EventCap /\ published \in 0..MaxEvents /\ calls \in 0..MaxCalls

(* The dispatcher has a call in progress at three points of its loop, and it is the
   call of that point. *)
InTurn(pc, s) ==
    /\ s.phase = "idle" <=> pc \notin {"load", "put", "prune"}
    /\ pc = "load" => s.cmd.op = "get" /\ s.cmd.keys = {Config}
    /\ pc = "put" => s.cmd.op = "put" /\ DOMAIN s.cmd.changes = {DeliveryAt(s.cmd.rev)}
    /\ pc = "prune" => s.cmd.op = "prune" /\ s.cmd.keep = KeepLatest
Turn == InTurn(disp.pc, caller[Dispatcher])

(* The API workers leave the delivery history alone. *)
Foreign(s) ==
    s.phase # "idle" =>
       /\ s.cmd.op # "prune"
       /\ s.cmd.op \in Puts => DOMAIN s.cmd.changes \cap History = {}
       /\ s.cmd.op = "delete" => s.cmd.key \notin History
Foreigns == \A c \in Client \ {Dispatcher} : Foreign(caller[c])

(* A delivery record is named after its revision, and the ones that are no longer
   stored are older than those that are. *)
Dated(docs) == \A k \in History : docs[k].rev # 0 => k = DeliveryAt(docs[k].rev)
Kept(docs) == {k \in History : docs[k].rev # 0}
Remembered(docs, revs, ever) ==
    /\ ever \subseteq History /\ Kept(docs) \subseteq ever
    /\ \A k \in ever : k = DeliveryAt(k[2]) /\ k[2] \in revs
Ordered(docs, ever) == \A j, k \in ever : j \in Kept(docs) /\ k[2] > j[2] => k \in Kept(docs)

(* Whether the dispatcher's call is still undecided, and how it was decided. *)
Replying == worker.step = "reply" /\ worker.client = Dispatcher
Pending == caller[Dispatcher].phase \in {"prepared", "sent"} /\ ~Replying
Decision == IF Replying THEN worker.result.status ELSE caller[Dispatcher].result.status

(* The record being stored is the latest. *)
PutAhead == disp.pc = "put" /\ Pending => \A k \in appended : k[2] < caller[Dispatcher].cmd.rev

(* A record was stored and the prune that follows has not been decided. *)
Over ==
    \/ disp.pc = "put" /\ ~Pending /\ Decision = "done"
    \/ disp.pc = "appended"
    \/ disp.pc = "prune" /\ Pending
Within == Cardinality(Kept(db.docs)) <= KeepLatest + (MaxFaults - faults) + (IF Over THEN 1 ELSE 0)

HistoryInv ==
    /\ Dated(db.docs) /\ Remembered(db.docs, db.revs, appended) /\ Ordered(db.docs, appended)
    /\ PutAhead /\ Within
NInv == SInv /\ Bounds /\ Turn /\ Foreigns /\ HistoryInv


(* What the steps of the repository do to the calls. *)

LEMMA StoreCallers ==
    ASSUME SInv, Bounds, StoreStep
    PROVE  /\ \A c \in Client : /\ caller'[c].cmd = caller[c].cmd
                                /\ caller'[c].phase = "idle" <=> caller[c].phase = "idle"
           /\ Len(channel') <= ChannelCap /\ faults' \in 0..MaxFaults /\ faults' <= faults
  <1>0. /\ channel \in Seq([client : Client, cmd : Cmd]) /\ caller \in [Client -> CallState]
        /\ ChannelCap \in Nat /\ MaxFaults \in Nat /\ Len(channel) <= ChannelCap /\ faults \in 0..MaxFaults
    BY StoreAssumption DEF SInv, Typed, ChannelType, CallerType, Bounds
  <1>1. CASE Begin
    BY <1>0, <1>1 DEF Begin
  <1>2. CASE Read \/ RecordRevision \/ WriteDocument \/ Commit
    <2>1. UNCHANGED <<channel, caller, faults>>
      BY <1>2 DEF Read, RecordRevision, WriteDocument, Commit
    <2> QED BY <1>0, <2>1
  <1>3. CASE FailStatement
    BY <1>0, <1>3 DEF FailStatement
  <1>4. CASE Reply
    <2>1. worker.client \in Client /\ caller[worker.client].phase = "sent"
      BY <1>4, AtWork DEF Reply
    <2>2. caller' = [caller EXCEPT ![worker.client].phase = "answered", ![worker.client].result = worker.result]
          /\ UNCHANGED <<channel, faults>>
      BY <1>4 DEF Reply
    <2> QED BY <1>0, <2>1, <2>2 DEF CallState
  <1>5. ASSUME NEW c \in Client, Send(c)
        PROVE  /\ \A x \in Client : /\ caller'[x].cmd = caller[x].cmd
                                    /\ caller'[x].phase = "idle" <=> caller[x].phase = "idle"
               /\ Len(channel') <= ChannelCap /\ faults' \in 0..MaxFaults /\ faults' <= faults
    <2>1. caller' = [caller EXCEPT ![c].phase = "sent"] /\ caller[c].phase = "prepared" /\ faults' = faults
      BY <1>5 DEF Send
    <2>2. Len(channel') <= ChannelCap
      BY <1>0, <1>5 DEF Send
    <2> QED BY <1>0, <2>1, <2>2 DEF CallState
  <1> QED BY <1>1, <1>2, <1>3, <1>4, <1>5 DEF StoreStep, Work

(* A step of the repository that is not a commit changes no document, and the
   dispatcher's call stays as it is unless a fault decides it. *)
LEMMA StoreDecides ==
    ASSUME SInv, Bounds, Turn, StoreStep, ~Commit, disp' = disp
    PROVE  /\ db' = db /\ (Pending' => Pending)
           /\ Over => Over' \/ faults' = faults - 1
  <1>0. /\ Dispatcher \in Client /\ caller[Dispatcher] \in CallState /\ caller \in [Client -> CallState]
        /\ worker \in WorkerState
    BY NotifierAssumption DEF SInv, Typed, CallerType, WorkerType
  <1>1. CASE FailStatement
    <2>1. db' = db /\ caller' = caller /\ faults' = faults - 1
      BY <1>1 DEF FailStatement, rolled_back
    <2>2. worker.step # "reply"
      BY <1>1 DEF FailStatement
    <2> QED BY <2>1, <2>2 DEF Pending, Replying
  <1>2. CASE Begin
    <2>1. db' = db /\ caller' = caller /\ worker.step = "idle"
      BY <1>2 DEF Begin
    <2>2. worker'.step = "begin"
      BY <1>2 DEF Begin, IdleWorker
    <2> QED BY <2>1, <2>2 DEF Pending, Replying, Decision, Over
  <1>3. CASE Read \/ RecordRevision \/ WriteDocument
    <2>1. db' = db /\ caller' = caller /\ worker.step \in {"begin", "record", "write"}
      BY <1>3 DEF Read, RecordRevision, WriteDocument
    <2>2. /\ worker.client \in Client /\ caller[worker.client].phase = "sent"
          /\ caller[worker.client].cmd = worker.cmd
      BY <2>1 DEF SInv, Served
    <2>3. Pending' => Pending
      BY <2>1 DEF Pending, Replying
    <2>4. worker'.client = worker.client
      BY <1>0, <1>3 DEF Read, RecordRevision, WriteDocument, Finish, WorkerState
    <2>5. ASSUME disp.pc = "prune", worker.client = Dispatcher
          PROVE  worker'.step # "reply"
      <3>1. worker.cmd.op = "prune" /\ worker.step # "record"
        BY <1>0, <2>1, <2>2, <2>5 DEF Turn, InTurn, SInv, Transaction, Transacts, Writes
      <3>2. CASE Read
        <4>1. worker' = [worker EXCEPT !.step = "write"]
          BY <3>1, <3>2 DEF Read
        <4> QED BY <1>0, <4>1 DEF WorkerState
      <3>3. CASE WriteDocument
        <4>1. worker' = [worker EXCEPT !.step = "commit",
                           !.txn.docs = [k \in Key |-> IF k \in pruned(worker.txn.docs, worker.cmd.keep) THEN NoDoc
                                                      ELSE worker.txn.docs[k]]]
          BY <3>1, <3>3 DEF WriteDocument
        <4> QED BY <1>0, <4>1 DEF WorkerState
      <3> QED BY <1>3, <3>1, <3>2, <3>3 DEF RecordRevision
    <2>6. ASSUME Over PROVE Over'
      <3>1. CASE disp.pc = "put" /\ ~Pending /\ Decision = "done"
        <4>1. caller[Dispatcher].phase # "sent" /\ ~Replying
          BY <2>1, <3>1 DEF Pending, Replying
        <4>2. worker.client # Dispatcher
          BY <2>2, <4>1
        <4>3. ~Replying'
          BY <2>4, <4>2 DEF Replying
        <4> QED BY <2>1, <3>1, <4>1, <4>3 DEF Over, Pending, Decision
      <3>2. CASE disp.pc = "appended"
        BY <3>2 DEF Over
      <3>3. CASE disp.pc = "prune" /\ Pending
        <4>1. ~Replying'
          BY <2>4, <2>5, <3>3 DEF Replying
        <4> QED BY <2>1, <3>3, <4>1 DEF Over, Pending
      <3> QED BY <2>6, <3>1, <3>2, <3>3 DEF Over
    <2> QED BY <2>1, <2>3, <2>6
  <1>4. CASE Reply
    <2>1. /\ db' = db /\ worker.step = "reply" /\ worker'.step = "idle"
          /\ caller' = [caller EXCEPT ![worker.client].phase = "answered", ![worker.client].result = worker.result]
      BY <1>4 DEF Reply, IdleWorker
    <2>2. CASE worker.client = Dispatcher
      <3>1. caller'[Dispatcher].phase = "answered" /\ caller'[Dispatcher].result = worker.result
        BY <1>0, <2>1, <2>2 DEF CallState
      <3> QED BY <2>1, <2>2, <3>1 DEF Over, Pending, Replying, Decision
    <2>3. CASE worker.client # Dispatcher
      <3>1. caller'[Dispatcher] = caller[Dispatcher]
        BY <1>0, <2>1, <2>3
      <3> QED BY <2>1, <2>3, <3>1 DEF Over, Pending, Replying, Decision
    <2> QED BY <2>2, <2>3
  <1>5. ASSUME NEW c \in Client, Send(c)
        PROVE  /\ db' = db /\ (Pending' => Pending) /\ (Over => Over')
    <2>1. /\ db' = db /\ worker' = worker /\ caller' = [caller EXCEPT ![c].phase = "sent"]
          /\ caller[c].phase = "prepared"
      BY <1>5 DEF Send
    <2>2. CASE c = Dispatcher
      <3>1. caller'[Dispatcher].phase = "sent" /\ caller'[Dispatcher].result = caller[Dispatcher].result
        BY <1>0, <2>1, <2>2 DEF CallState
      <3> QED BY <2>1, <2>2, <3>1 DEF Over, Pending, Replying, Decision
    <2>3. CASE c # Dispatcher
      <3>1. caller'[Dispatcher] = caller[Dispatcher]
        BY <1>0, <2>1, <2>3
      <3> QED BY <2>1, <3>1 DEF Over, Pending, Replying, Decision
    <2> QED BY <2>2, <2>3
  <1> QED BY <1>1, <1>2, <1>3, <1>4, <1>5 DEF StoreStep, Work

-----------------------------------------------------------------------------
(* The delivery history. *)

LEMMA StoredIs ==
    ASSUME Stamped
    PROVE  Stored = Kept(db.docs)
  <1>1. NoDoc.rev = 0 /\ History \subseteq Key
    BY StoreAssumption DEF NoDoc
  <1>2. \A k \in History : db.docs[k] # NoDoc <=> db.docs[k].rev # 0
    BY <1>1 DEF Stamped
  <1> QED BY <1>2 DEF Stored, Kept

LEMMA StoredNext ==
    ASSUME Stamped'
    PROVE  Stored' = Kept(db'.docs)
  <1>1. NoDoc.rev = 0 /\ History \subseteq Key
    BY StoreAssumption DEF NoDoc
  <1>2. \A k \in History : db'.docs[k] # NoDoc <=> db'.docs[k].rev # 0
    BY <1>1 DEF Stamped
  <1> QED BY <1>2 DEF Stored, Kept

(* Of records with different revisions, at most n have fewer than n above them. *)
LEMMA TopFew ==
    ASSUME NEW d \in Docs, Dated(d), Few(d), NEW n \in Nat,
           NEW T \in SUBSET Kept(d),
           \A k \in T : Cardinality({j \in History : d[j].rev > d[k].rev}) < n
    PROVE  IsFiniteSet(T) /\ Cardinality(T) <= n
  <1> DEFINE Above(k) == {j \in History : d[j].rev > d[k].rev}
             R == {d[k].rev : k \in T}
  <1>0. \A k \in History : d[k].rev \in Nat
    BY StoreAssumption DEF Docs, Doc
  <1>1. IsFiniteSet(Kept(d)) /\ IsFiniteSet(T)
    BY FS_Subset DEF Few, Kept
  <1>2. CASE T = {}
    BY <1>1, <1>2, FS_EmptySet
  <1>3. CASE T # {}
    <2>1. R \in SUBSET Nat /\ R # {}
      BY <1>0, <1>3 DEF Kept
    <2>2. PICK r \in R : \A y \in R : r <= y
      BY <2>1, Least
    <2>3. PICK k \in T : d[k].rev = r
      OBVIOUS
    <2>4. IsFiniteSet(Above(k)) /\ Cardinality(Above(k)) \in Nat
      <3>1. Above(k) \subseteq Kept(d)
        BY <1>0 DEF Kept
      <3> QED BY <1>1, <3>1, FS_Subset, FS_CardinalityType
    <2>5. T \subseteq Above(k) \cup {k}
      <3> SUFFICES ASSUME NEW j \in T, j # k PROVE j \in Above(k)
        OBVIOUS
      <3>1. d[j].rev \in R /\ d[k].rev <= d[j].rev /\ d[j].rev # 0 /\ d[k].rev # 0 /\ j \in History /\ k \in History
        BY <2>2, <2>3 DEF Kept
      <3>2. d[j].rev # d[k].rev
        BY <3>1 DEF Dated
      <3> QED BY <1>0, <3>1, <3>2
    <2>6. IsFiniteSet(Above(k) \cup {k}) /\ Cardinality(Above(k) \cup {k}) <= Cardinality(Above(k)) + 1
      <3> DEFINE A == Above(k)
      <3>1. IsFiniteSet(A) /\ Cardinality(A) \in Nat
        BY <2>4
      <3> HIDE DEF A
      <3>2. IsFiniteSet(A \cup {k}) /\ Cardinality(A \cup {k}) = IF k \in A THEN Cardinality(A) ELSE Cardinality(A) + 1
        BY <3>1, FS_AddElement
      <3>3. IsFiniteSet(A \cup {k}) /\ Cardinality(A \cup {k}) <= Cardinality(A) + 1
        BY <3>1, <3>2
      <3> QED BY <3>3 DEF A
    <2>7. Cardinality(T) <= Cardinality(Above(k) \cup {k})
      BY <2>5, <2>6, FS_Subset
    <2>8. Cardinality(Above(k)) < n
      OBVIOUS
    <2>9. Cardinality(T) \in Nat /\ Cardinality(Above(k) \cup {k}) \in Nat
      BY <1>1, <2>6, FS_CardinalityType
    <2> HIDE DEF Above
    <2> QED BY <1>1, <2>4, <2>6, <2>7, <2>8, <2>9
  <1> QED BY <1>2, <1>3

(* A prune keeps the latest records and no more than the limit. *)
LEMMA PruneKeeps ==
    ASSUME NEW d \in Docs, Dated(d), Few(d), NEW n \in Nat, NEW revs, NEW ever,
           Remembered(d, revs, ever), Ordered(d, ever),
           NEW e, e = Erased(d, pruned(d, n))
    PROVE  /\ Dated(e) /\ Kept(e) \subseteq Kept(d) /\ Ordered(e, ever)
           /\ IsFiniteSet(Kept(e)) /\ Cardinality(Kept(e)) <= n
  <1> DEFINE Above(k) == {j \in History : d[j].rev > d[k].rev}
  <1>0. NoDoc.rev = 0 /\ History \subseteq Key /\ \A k \in History : d[k].rev \in Nat
    BY StoreAssumption DEF NoDoc, Docs, Doc
  <1>1. IsFiniteSet(Kept(d))
    BY DEF Few, Kept
  <1>2. ASSUME NEW k \in History
        PROVE  Above(k) \subseteq Kept(d) /\ IsFiniteSet(Above(k)) /\ Cardinality(Above(k)) \in Nat
    <2>1. Above(k) \subseteq Kept(d)
      BY <1>0 DEF Kept
    <2> QED BY <1>1, <2>1, FS_Subset, FS_CardinalityType
  <1>3. ASSUME NEW k \in History
        PROVE  k \in Kept(e) <=> k \in Kept(d) /\ Cardinality(Above(k)) < n
    <2>1. e[k] = IF k \in pruned(d, n) THEN NoDoc ELSE d[k]
      BY <1>0 DEF Erased
    <2>2. Cardinality(Above(k)) \in Nat
      BY <1>2
    <2>3. k \in Kept(d) => d[k] # NoDoc
      BY <1>0 DEF Kept
    <2>4. k \in pruned(d, n) <=> d[k] # NoDoc /\ Cardinality(Above(k)) >= n
      BY DEF pruned
    <2> HIDE DEF Above
    <2>5. k \in Kept(e) <=> e[k].rev # 0
      BY DEF Kept
    <2>6. k \in Kept(d) <=> d[k].rev # 0
      BY DEF Kept
    <2> QED BY <1>0, <2>1, <2>2, <2>3, <2>4, <2>5, <2>6
  <1>4. Kept(e) \subseteq Kept(d) /\ Kept(e) \subseteq History
    BY <1>3 DEF Kept
  <1>5. Dated(e)
    BY <1>0 DEF Dated, Erased
  <1>6. IsFiniteSet(Kept(e)) /\ Cardinality(Kept(e)) <= n
    <2>1. \A k \in Kept(e) : Cardinality(Above(k)) < n
      BY <1>3, <1>4
    <2> QED BY <1>4, <2>1, TopFew
  <1>7. ASSUME NEW j \in ever, NEW k \in ever, j \in Kept(e), k[2] > j[2]
        PROVE  k \in Kept(e)
    <2>1. j \in Kept(d) /\ k \in Kept(d) /\ j \in History /\ k \in History
      BY <1>4, <1>7 DEF Ordered, Remembered
    <2>2. j[2] = d[j].rev /\ k[2] = d[k].rev
      BY <2>1 DEF Dated, Kept, DeliveryAt
    <2>3. Above(k) \subseteq Above(j)
      BY <1>0, <1>7, <2>1, <2>2
    <2>4. Cardinality(Above(k)) <= Cardinality(Above(j))
      BY <1>2, <2>1, <2>3, FS_Subset
    <2>5. Cardinality(Above(j)) < n
      BY <1>3, <1>7, <2>1
    <2>6. Cardinality(Above(k)) \in Nat /\ Cardinality(Above(j)) \in Nat
      BY <1>2, <2>1
    <2> HIDE DEF Above
    <2>7. Cardinality(Above(k)) < n
      BY <2>4, <2>5, <2>6
    <2> QED BY <1>3, <2>1, <2>7
  <1>8. Ordered(e, ever)
    BY <1>7 DEF Ordered
  <1> QED BY <1>4, <1>5, <1>6, <1>8

(* Storing a record that is later than all the others. *)
LEMMA PutKeeps ==
    ASSUME NEW d \in Docs, Dated(d), Few(d), NEW revs, NEW ever,
           Remembered(d, revs, ever), Ordered(d, ever), revs \in SUBSET Nat,
           NEW rev \in Nat \ {0}, \A k \in ever : k[2] < rev,
           NEW e, \A k \in History : IF k = DeliveryAt(rev) THEN e[k].rev = rev ELSE e[k] = d[k]
    PROVE  /\ Dated(e) /\ Remembered(e, revs \cup {rev}, ever \cup Kept(e)) /\ Ordered(e, ever \cup Kept(e))
           /\ IsFiniteSet(Kept(e)) /\ Cardinality(Kept(e)) <= Cardinality(Kept(d)) + 1
  <1> DEFINE new == DeliveryAt(rev)
  <1>0. new[2] = rev
    BY DEF DeliveryAt
  <1>1. IsFiniteSet(Kept(d))
    BY DEF Few, Kept
  <1>2. Dated(e)
    BY DEF Dated
  <1>3. Kept(e) = Kept(d) \cup ({new} \cap History)
    BY DEF Kept
  <1> DEFINE all == ever \cup Kept(e)
  <1>4. all = ever \cup ({new} \cap History)
    BY <1>3 DEF Remembered
  <1>5. Remembered(e, revs \cup {rev}, all)
    BY <1>0, <1>3, <1>4 DEF Remembered
  <1> HIDE DEF all, new
  <1>6. ASSUME NEW j \in all, NEW k \in all, j \in Kept(e), k[2] > j[2]
        PROVE  k \in Kept(e)
    <2>1. CASE k = new
      <3>1. k \in History
        BY <1>5 DEF Remembered
      <3> QED BY <1>3, <2>1, <3>1
    <2>2. CASE k # new
      <3>1. k \in ever /\ k[2] \in Nat /\ k[2] < rev
        BY <1>4, <2>2 DEF Remembered
      <3>2. j # new
        BY <1>0, <1>6, <3>1
      <3>3. j \in ever /\ j \in Kept(d)
        BY <1>3, <1>4, <1>6, <3>2
      <3>4. k \in Kept(d)
        BY <1>6, <3>1, <3>3 DEF Ordered
      <3> QED BY <1>3, <3>4
    <2> QED BY <2>1, <2>2
  <1>7. Ordered(e, all)
    BY <1>6 DEF Ordered
  <1>8. IsFiniteSet(Kept(e)) /\ Cardinality(Kept(e)) <= Cardinality(Kept(d)) + 1
    <2>1. IsFiniteSet(Kept(d) \cup {new}) /\ Cardinality(Kept(d) \cup {new}) <= Cardinality(Kept(d)) + 1
          /\ Cardinality(Kept(d)) \in Nat
      BY <1>1, FS_AddElement, FS_CardinalityType
    <2>2. Kept(e) \subseteq Kept(d) \cup {new}
      BY <1>3
    <2>3. IsFiniteSet(Kept(e)) /\ Cardinality(Kept(e)) <= Cardinality(Kept(d) \cup {new})
      BY <2>1, <2>2, FS_Subset
    <2>4. Cardinality(Kept(e)) \in Nat /\ Cardinality(Kept(d) \cup {new}) \in Nat
      BY <2>1, <2>3, FS_CardinalityType
    <2> QED BY <2>1, <2>3, <2>4
  <1> QED BY <1>2, <1>5, <1>7, <1>8 DEF all

-----------------------------------------------------------------------------
(* The steps keep the invariant of the dispatcher. *)

(* A step that changes no document. *)
LEMMA SameHistory ==
    ASSUME NInv, SInv', db' = db, appended' = appended \/ Remember,
           disp'.pc = "put" /\ Pending' => disp.pc = "put" /\ Pending
                                         /\ caller'[Dispatcher].cmd = caller[Dispatcher].cmd,
           faults' \in 0..MaxFaults, faults' <= faults,
           Over => Over' \/ faults' = faults - 1
    PROVE  HistoryInv'
  <1>1. appended' = appended
    <2>1. Stored' = Stored /\ Stored \subseteq appended
      <3>1. Stored' = Stored
        BY DEF Stored
      <3> QED BY <3>1, StoredIs DEF NInv, SInv, HistoryInv, Remembered
    <2> QED BY <2>1 DEF Remember
  <1>2. Dated(db'.docs) /\ Remembered(db'.docs, db'.revs, appended') /\ Ordered(db'.docs, appended')
    BY <1>1 DEF NInv, HistoryInv
  <1>3. PutAhead'
    BY <1>1 DEF NInv, HistoryInv, PutAhead
  <1>4. Within'
    <2>1. Cardinality(Kept(db.docs)) \in Nat
      BY FS_CardinalityType DEF NInv, SInv, Stamped, Few, Kept
    <2>2. faults \in 0..MaxFaults /\ MaxFaults \in Nat /\ KeepLatest \in Nat /\ Within
      BY StoreAssumption, NotifierAssumption DEF NInv, Bounds, HistoryInv
    <2>3. Cardinality(Kept(db.docs)) <= KeepLatest + (MaxFaults - faults') + (IF Over' THEN 1 ELSE 0)
      <3>1. CASE ~Over
        BY <2>1, <2>2, <3>1 DEF Within
      <3>2. CASE Over /\ Over'
        BY <2>1, <2>2, <3>2 DEF Within
      <3>3. CASE Over /\ faults' = faults - 1
        BY <2>1, <2>2, <3>3 DEF Within
      <3> QED BY <3>1, <3>2, <3>3
    <2> QED BY <2>3 DEF Within
  <1> QED BY <1>2, <1>3, <1>4 DEF HistoryInv

LEMMA CommitHistory ==
    ASSUME NInv, SInv', Commit, disp' = disp, Remember
    PROVE  HistoryInv'
  <1>0. /\ worker.step = "commit" /\ db' = worker.txn /\ UNCHANGED <<caller, faults>>
        /\ Final(worker, db) /\ worker.client \in Client /\ caller[worker.client].phase = "sent"
        /\ caller[worker.client].cmd = worker.cmd /\ worker \in WorkerState /\ worker.cmd \in Cmd
        /\ (Writes(worker.cmd) => worker.cmd.rev \in Nat \ {0} /\ worker.cmd.rev <= last)
    BY AtWork DEF Commit, NInv, SInv, Served, Transaction, Transacts
  <1>1. worker'.step = "reply" /\ worker'.client = worker.client /\ worker'.result.status = "done"
    <2>1. Result("done", Nothing) \in Res /\ Result("done", Nothing).status = "done"
      BY NothingFound DEF Result, Res
    <2> QED BY <1>0, <2>1, FinishIs DEF Commit
  <1>2. appended' = appended \cup Kept(db'.docs)
    BY StoredNext DEF Remember, SInv
  <1>3. /\ db.docs \in Docs /\ db.revs \in SUBSET Nat /\ Few(db.docs) /\ Dated(db.docs) /\ Turn /\ Foreigns
        /\ Remembered(db.docs, db.revs, appended) /\ Ordered(db.docs, appended) /\ PutAhead /\ Within
        /\ faults \in 0..MaxFaults /\ MaxFaults \in Nat /\ KeepLatest \in Nat /\ History \subseteq Key
        /\ Cardinality(Kept(db.docs)) \in Nat
    <2>1. Cardinality(Kept(db.docs)) \in Nat
      BY FS_CardinalityType DEF NInv, SInv, Stamped, Few, Kept
    <2> QED BY <2>1, StoreAssumption, NotifierAssumption
            DEF NInv, SInv, Typed, DbType, Stamped, HistoryInv, Bounds
  <1>4. ~Replying
    BY <1>0 DEF Replying
  <1>5. CASE worker.client # Dispatcher
    <2>1. Foreign(caller[worker.client]) /\ ~Replying'
      BY <1>0, <1>1, <1>3, <1>5 DEF Foreigns, Replying
    <2>2. \A k \in History : db'.docs[k] = db.docs[k]
      BY <1>0, <1>3, <2>1 DEF Foreign, Final, Erased, Partly
    <2>3. db.revs \subseteq db'.revs
      BY <1>0 DEF Final
    <2>4. Kept(db'.docs) = Kept(db.docs) /\ Dated(db'.docs)
      BY <1>3, <2>2 DEF Kept, Dated
    <2>5. appended' = appended
      BY <1>2, <1>3, <2>4 DEF Remembered
    <2>6. Remembered(db'.docs, db'.revs, appended') /\ Ordered(db'.docs, appended')
      BY <1>3, <2>3, <2>4, <2>5 DEF Remembered, Ordered
    <2>7. (Pending' <=> Pending) /\ Decision' = Decision
      BY <1>0, <1>4, <2>1 DEF Pending, Decision
    <2>8. PutAhead' /\ Within'
      BY <1>0, <1>3, <2>4, <2>5, <2>7 DEF PutAhead, Within, Over
    <2> QED BY <2>4, <2>6, <2>8 DEF HistoryInv
  <1>6. CASE worker.client = Dispatcher
    <2>1. disp.pc \in {"load", "put", "prune"} /\ Pending /\ Replying' /\ ~Pending' /\ Decision' = "done"
      BY <1>0, <1>1, <1>3, <1>4, <1>6, NotifierAssumption DEF Turn, InTurn, Pending, Replying, Decision
    <2>2. PutAhead'
      BY <2>1 DEF PutAhead
    <2>3. CASE disp.pc = "load"
      BY <1>0, <1>3, <1>6, <2>3 DEF Turn, InTurn, Final, Puts
    <2>4. CASE disp.pc = "put"
      <3> DEFINE rev == worker.cmd.rev
      <3>1. worker.cmd.op = "put" /\ DOMAIN worker.cmd.changes = {DeliveryAt(rev)} /\ rev \in Nat \ {0}
            /\ \A k \in appended : k[2] < rev
        BY <1>0, <1>3, <1>6, <2>1, <2>4 DEF Turn, InTurn, Writes, PutAhead
      <3>2. db'.docs = Partly(db.docs, worker.cmd, {}) /\ db'.revs = db.revs \cup {rev}
        BY <1>0, <3>1 DEF Final
      <3>3. \A k \in History : IF k = DeliveryAt(rev) THEN db'.docs[k].rev = rev ELSE db'.docs[k] = db.docs[k]
        BY <1>3, <3>1, <3>2 DEF Partly
      <3> DEFINE e == db'.docs
      <3> HIDE DEF rev, e
      <3>4. /\ Dated(e) /\ Remembered(e, db.revs \cup {rev}, appended \cup Kept(e)) /\ Ordered(e, appended \cup Kept(e))
            /\ IsFiniteSet(Kept(e)) /\ Cardinality(Kept(e)) <= Cardinality(Kept(db.docs)) + 1
        BY <1>3, <3>1, <3>3, PutKeeps DEF e
      <3>5. Over' /\ ~Over
        BY <2>1, <2>4 DEF Over
      <3>6. Within'
        <4>1. Cardinality(Kept(e)) \in Nat
          BY <3>4, FS_CardinalityType
        <4>2. Cardinality(Kept(e)) <= KeepLatest + (MaxFaults - faults) + 1
          BY <1>3, <3>4, <3>5, <4>1 DEF Within
        <4> QED BY <1>0, <3>5, <4>2 DEF Within, e
      <3> QED BY <1>2, <2>2, <3>2, <3>4, <3>6 DEF HistoryInv, e, rev
    <2>5. CASE disp.pc = "prune"
      <3>1. worker.cmd.op = "prune" /\ worker.cmd.keep = KeepLatest
        BY <1>0, <1>3, <1>6, <2>5 DEF Turn, InTurn
      <3>2. db'.docs = Erased(db.docs, pruned(db.docs, KeepLatest)) /\ db'.revs = db.revs
        BY <1>0, <3>1 DEF Final, Puts
      <3> DEFINE e == db'.docs
      <3> HIDE DEF e
      <3>3. /\ Dated(e) /\ Kept(e) \subseteq Kept(db.docs) /\ Ordered(e, appended)
            /\ IsFiniteSet(Kept(e)) /\ Cardinality(Kept(e)) <= KeepLatest
        BY <1>3, <3>2, PruneKeeps DEF e
      <3>4. appended' = appended
        BY <1>2, <1>3, <3>3 DEF Remembered, e
      <3>5. Remembered(e, db'.revs, appended')
        BY <1>3, <3>2, <3>3, <3>4 DEF Remembered
      <3>6. Within'
        <4>1. Cardinality(Kept(e)) \in Nat
          BY <3>3, FS_CardinalityType
        <4>2. Cardinality(Kept(e)) <= KeepLatest + (MaxFaults - faults') + (IF Over' THEN 1 ELSE 0)
          BY <1>0, <1>3, <3>3, <4>1
        <4> QED BY <4>2 DEF Within, e
      <3> QED BY <2>2, <3>3, <3>4, <3>5, <3>6 DEF HistoryInv, e
    <2> QED BY <2>1, <2>3, <2>4, <2>5
  <1> QED BY <1>5, <1>6

LEMMA StoreInv ==
    ASSUME NInv, Store
    PROVE  NInv'
  <1>1. SInv' /\ StoreStep /\ Remember /\ UNCHANGED <<events, disp, published, calls>>
    BY StoreKeeps DEF NInv, Store, StoreStep
  <1>2. /\ \A c \in Client : /\ caller'[c].cmd = caller[c].cmd
                             /\ caller'[c].phase = "idle" <=> caller[c].phase = "idle"
        /\ Len(channel') <= ChannelCap /\ faults' \in 0..MaxFaults /\ faults' <= faults
    BY <1>1, StoreCallers DEF NInv
  <1>3. Bounds'
    BY <1>1, <1>2 DEF NInv, Bounds
  <1>4. Turn' /\ Foreigns'
    BY <1>1, <1>2, NotifierAssumption DEF NInv, Turn, InTurn, Foreigns, Foreign
  <1>5. HistoryInv'
    <2>1. CASE Commit
      BY <1>1, <2>1, CommitHistory
    <2>2. CASE ~Commit
      <3>1. db' = db /\ (Pending' => Pending) /\ (Over => Over' \/ faults' = faults - 1)
        BY <1>1, <2>2, StoreDecides DEF NInv
      <3>2. caller'[Dispatcher].cmd = caller[Dispatcher].cmd
        BY <1>2, NotifierAssumption
      <3> QED BY <1>1, <1>2, <3>1, <3>2, SameHistory
    <2> QED BY <2>1, <2>2
  <1> QED BY <1>1, <1>3, <1>4, <1>5 DEF NInv

LEMMA PrepareCaller ==
    ASSUME SInv, NEW c \in Client, NEW cmd, Prepare(c, cmd)
    PROVE  /\ caller[c].phase = "idle" /\ caller'[c].phase = "prepared" /\ caller'[c].cmd = cmd
           /\ \A x \in Client \ {c} : caller'[x] = caller[x]
           /\ UNCHANGED <<db, channel, worker, faults>>
           /\ ~(worker.step = "reply" /\ worker.client = c)
  <1>1. caller \in [Client -> CallState] /\ caller' = [caller EXCEPT ![c] = [NoCall EXCEPT !.phase = "prepared", !.cmd = cmd]]
    BY DEF SInv, Typed, CallerType, Prepare
  <1>2. caller'[c] = [NoCall EXCEPT !.phase = "prepared", !.cmd = cmd] /\ \A x \in Client \ {c} : caller'[x] = caller[x]
    BY <1>1
  <1>3. caller'[c].phase = "prepared" /\ caller'[c].cmd = cmd
    BY <1>2 DEF NoCall
  <1>4. caller[c].phase = "idle"
    BY DEF Prepare, NoCall
  <1>5. ~(worker.step = "reply" /\ worker.client = c)
    BY <1>4 DEF SInv, Served
  <1> QED BY <1>2, <1>3, <1>4, <1>5 DEF Prepare

LEMMA ReceiveCaller ==
    ASSUME SInv, NEW c \in Client, Receive(c)
    PROVE  /\ caller[c].phase = "answered" /\ caller'[c].phase = "idle"
           /\ \A x \in Client \ {c} : caller'[x] = caller[x]
           /\ UNCHANGED <<db, channel, worker, faults>>
           /\ ~(worker.step = "reply" /\ worker.client = c)
  <1>1. caller \in [Client -> CallState] /\ caller' = [caller EXCEPT ![c] = NoCall] /\ caller[c].phase = "answered"
    BY DEF SInv, Typed, CallerType, Receive
  <1>2. caller'[c] = NoCall /\ \A x \in Client \ {c} : caller'[x] = caller[x]
    BY <1>1
  <1>3. ~(worker.step = "reply" /\ worker.client = c)
    BY <1>1 DEF SInv, Served
  <1> QED BY <1>1, <1>2, <1>3 DEF Receive, NoCall

LEMMA AtRestIs == AtRest \in DispState /\ AtRest.pc = "idle" /\ AtRest.left = {} /\ AtRest.attempt = 0
  <1>1. 0 \in 0..(MaxRetries - 1)
    BY NotifierAssumption
  <1> QED BY <1>1 DEF AtRest, DispState

(* Sending to the next channel, if there is one. *)
LEMMA GoOn ==
    ASSUME NEW left \in SUBSET Channel, NEW d,
           d = IF left = {} THEN AtRest ELSE [AtRest EXCEPT !.pc = "send", !.left = left]
    PROVE  d \in DispState /\ d.pc \in {"idle", "send"}
  BY AtRestIs DEF DispState

LEMMA TakeEventInv ==
    ASSUME NInv, TakeEvent, SInv'
    PROVE  NInv'
  <1>0. Dispatcher \in Client /\ EventCap \in Nat
    BY NotifierAssumption
  <1>1. /\ disp.pc = "idle" /\ events > 0 /\ events' = events - 1 /\ UNCHANGED <<published, calls, appended>>
        /\ Prepare(Dispatcher, LoadCmd) /\ disp' = [AtRest EXCEPT !.pc = "load"]
    BY DEF TakeEvent, LoadCmd
  <1>2. disp' \in DispState /\ disp'.pc = "load"
    BY <1>1, AtRestIs DEF DispState
  <1>3. /\ caller[Dispatcher].phase = "idle" /\ caller'[Dispatcher].phase = "prepared" /\ caller'[Dispatcher].cmd = LoadCmd
        /\ \A x \in Client \ {Dispatcher} : caller'[x] = caller[x]
        /\ UNCHANGED <<db, channel, worker, faults>>
    BY <1>0, <1>1, PrepareCaller DEF NInv
  <1>4. Bounds'
    BY <1>0, <1>1, <1>2, <1>3 DEF NInv, Bounds
  <1>5. Turn' /\ Foreigns'
    BY <1>2, <1>3 DEF NInv, Turn, InTurn, Foreigns, LoadCmd
  <1>6. ~Over
    BY <1>1 DEF Over
  <1>7. HistoryInv'
    BY <1>1, <1>2, <1>3, <1>4, <1>6, SameHistory DEF Bounds
  <1> QED BY <1>4, <1>5, <1>7 DEF NInv

LEMMA LoadChannelsInv ==
    ASSUME NInv, LoadChannels, SInv'
    PROVE  NInv'
  <1> DEFINE result == caller[Dispatcher].result
             left == IF result.status = "read" THEN result.found[Config].payload ELSE {}
  <1>0. Dispatcher \in Client
    BY NotifierAssumption
  <1>1. /\ disp.pc = "load" /\ Receive(Dispatcher) /\ UNCHANGED <<events, published, calls, appended>>
        /\ disp' = IF left = {} THEN AtRest ELSE [AtRest EXCEPT !.pc = "send", !.left = left]
    BY DEF LoadChannels
  <1>2. /\ caller[Dispatcher].phase = "answered" /\ caller'[Dispatcher].phase = "idle"
        /\ \A x \in Client \ {Dispatcher} : caller'[x] = caller[x]
        /\ UNCHANGED <<db, channel, worker, faults>>
    BY <1>0, <1>1, ReceiveCaller DEF NInv
  <1>3. left \in SUBSET Channel
    <2> SUFFICES ASSUME result.status = "read" PROVE result.found[Config].payload \in SUBSET Channel
      OBVIOUS
    <2>1. caller[Dispatcher].cmd.keys = {Config}
      BY <1>1 DEF NInv, Turn, InTurn
    <2>2. DOMAIN result.found = {Config}
      BY <1>0, <1>2, <2>1 DEF NInv, SInv, Calls, GoodCall
    <2>3. result.found \in Found
      BY <1>0 DEF NInv, SInv, Typed, CallerType, CallState, Res
    <2> DEFINE f == result.found
    <2> HIDE DEF f
    <2>4. f[Config] \in Doc
      BY <2>2, <2>3 DEF Found, f
    <2> QED BY <2>4 DEF Doc, f
  <1> HIDE DEF left
  <1>4. disp' \in DispState /\ disp'.pc \in {"idle", "send"}
    BY <1>1, <1>3, GoOn
  <1>5. Bounds'
    BY <1>1, <1>2, <1>4 DEF NInv, Bounds
  <1>6. Turn' /\ Foreigns'
    BY <1>2, <1>4 DEF NInv, Turn, InTurn, Foreigns
  <1>7. ~Over
    BY <1>1 DEF Over
  <1>8. HistoryInv'
    BY <1>1, <1>2, <1>4, <1>5, <1>7, SameHistory DEF Bounds
  <1> QED BY <1>5, <1>6, <1>8 DEF NInv

LEMMA SendRetryInv ==
    ASSUME NInv, send_with_retry, SInv'
    PROVE  NInv'
  <1>1. disp.pc = "send" /\ UNCHANGED <<storeVars, events, published, calls, appended>> /\ disp \in DispState
    BY DEF send_with_retry, NInv, Bounds
  <1>2. disp' \in DispState /\ disp'.pc \in {"send", "append"}
    <2>1. MaxRetries \in Nat \ {0} /\ disp.attempt \in Nat
      BY <1>1, NotifierAssumption DEF DispState
    <2>2. (disp.attempt + 1) % MaxRetries \in 0..(MaxRetries - 1) /\ 0 \in 0..(MaxRetries - 1)
      BY <2>1
    <2>3. \/ disp' = [disp EXCEPT !.attempt = (disp.attempt + 1) % MaxRetries]
          \/ disp' = [disp EXCEPT !.pc = "append", !.attempt = 0]
      BY DEF send_with_retry
    <2> DEFINE n == (disp.attempt + 1) % MaxRetries
    <2> HIDE DEF n
    <2>4. n \in 0..(MaxRetries - 1) /\ (disp' = [disp EXCEPT !.attempt = n] \/ disp' = [disp EXCEPT !.pc = "append", !.attempt = 0])
      BY <2>2, <2>3 DEF n
    <2> QED BY <1>1, <2>2, <2>4 DEF DispState
  <1>3. Bounds'
    BY <1>1, <1>2 DEF NInv, Bounds, storeVars
  <1>4. Turn' /\ Foreigns'
    BY <1>1, <1>2 DEF NInv, Turn, InTurn, Foreigns, storeVars
  <1>5. ~Over
    BY <1>1 DEF Over
  <1>6. HistoryInv'
    BY <1>1, <1>2, <1>3, <1>5, SameHistory DEF Bounds, storeVars
  <1> QED BY <1>3, <1>4, <1>6 DEF NInv

LEMMA AppendInv ==
    ASSUME NInv, append_delivery, SInv'
    PROVE  NInv'
  <1>0. Dispatcher \in Client /\ last \in Nat
    BY NotifierAssumption DEF NInv, SInv, Typed, DbType
  <1>1. /\ disp.pc = "append" /\ UNCHANGED <<events, published, calls, appended>> /\ disp \in DispState
        /\ Prepare(Dispatcher, DeliveryCmd) /\ disp' = [disp EXCEPT !.pc = "put"]
    BY DEF append_delivery, DeliveryCmd, NInv, Bounds
  <1>2. disp' \in DispState /\ disp'.pc = "put"
    BY <1>1 DEF DispState
  <1>3. /\ caller[Dispatcher].phase = "idle" /\ caller'[Dispatcher].phase = "prepared" /\ caller'[Dispatcher].cmd = DeliveryCmd
        /\ \A x \in Client \ {Dispatcher} : caller'[x] = caller[x]
        /\ UNCHANGED <<db, channel, worker, faults>> /\ ~Replying
    BY <1>0, <1>1, PrepareCaller DEF NInv, Replying
  <1>4. Bounds'
    BY <1>1, <1>2, <1>3 DEF NInv, Bounds
  <1>5. DeliveryCmd.op = "put" /\ DeliveryCmd.rev = last + 1 /\ DOMAIN DeliveryCmd.changes = {DeliveryAt(DeliveryCmd.rev)}
    BY DEF DeliveryCmd, next_revision
  <1>6. Turn' /\ Foreigns'
    BY <1>2, <1>3, <1>5 DEF NInv, Turn, InTurn, Foreigns
  <1>7. PutAhead'
    <2>1. \A k \in appended : k[2] \in Nat /\ k[2] <= last
      BY DEF NInv, SInv, HistoryInv, Remembered, Stamped, Typed, DbType
    <2>2. \A k \in appended : k[2] < last + 1
      BY <1>0, <2>1
    <2> QED BY <1>1, <1>3, <1>5, <2>2 DEF PutAhead
  <1>8. ~Over /\ ~Over'
    BY <1>1, <1>2, <1>3 DEF Over, Pending, Replying
  <1>9. HistoryInv'
    BY <1>1, <1>3, <1>7, <1>8 DEF NInv, HistoryInv, Within
  <1> QED BY <1>4, <1>6, <1>9 DEF NInv

LEMMA NextChannelIs ==
    ASSUME Bounds, NextChannel
    PROVE  disp' \in DispState /\ disp'.pc \in {"idle", "send"}
  <1>1. disp.left \ {Current} \in SUBSET Channel
    BY DEF Bounds, DispState
  <1> QED BY <1>1, GoOn DEF NextChannel

LEMMA DeliveryStoredInv ==
    ASSUME NInv, DeliveryStored, SInv'
    PROVE  NInv'
  <1>0. Dispatcher \in Client
    BY NotifierAssumption
  <1>1. /\ disp.pc = "put" /\ Receive(Dispatcher) /\ UNCHANGED <<events, published, calls, appended>> /\ disp \in DispState
        /\ IF caller[Dispatcher].result.status = "done" THEN disp' = [disp EXCEPT !.pc = "appended"] ELSE NextChannel
    BY DEF DeliveryStored, NInv, Bounds
  <1>2. /\ caller[Dispatcher].phase = "answered" /\ caller'[Dispatcher].phase = "idle"
        /\ \A x \in Client \ {Dispatcher} : caller'[x] = caller[x]
        /\ UNCHANGED <<db, channel, worker, faults>> /\ ~Replying
    BY <1>0, <1>1, ReceiveCaller DEF NInv, Replying
  <1>3. /\ disp' \in DispState /\ disp'.pc \in {"idle", "send", "appended"}
        /\ caller[Dispatcher].result.status = "done" => disp'.pc = "appended"
    <2>1. CASE caller[Dispatcher].result.status = "done"
      <3>1. disp' = [disp EXCEPT !.pc = "appended"]
        BY <1>1, <2>1
      <3> QED BY <1>1, <3>1 DEF DispState
    <2>2. CASE caller[Dispatcher].result.status # "done"
      BY <1>1, <2>2, NextChannelIs DEF NInv
    <2> QED BY <2>1, <2>2
  <1>4. Bounds'
    BY <1>1, <1>2, <1>3 DEF NInv, Bounds
  <1>5. Turn' /\ Foreigns'
    BY <1>2, <1>3 DEF NInv, Turn, InTurn, Foreigns
  <1>6. Over => Over'
    BY <1>1, <1>2, <1>3 DEF Over, Pending, Decision
  <1>7. HistoryInv'
    BY <1>1, <1>2, <1>3, <1>4, <1>6, SameHistory DEF Bounds
  <1> QED BY <1>4, <1>5, <1>7 DEF NInv

LEMMA PruneInv ==
    ASSUME NInv, prune_deliveries, SInv'
    PROVE  NInv'
  <1>0. Dispatcher \in Client
    BY NotifierAssumption
  <1>1. /\ disp.pc = "appended" /\ UNCHANGED <<events, published, calls, appended>> /\ disp \in DispState
        /\ Prepare(Dispatcher, PrunesCmd) /\ disp' = [disp EXCEPT !.pc = "prune"]
    BY DEF prune_deliveries, PrunesCmd, NInv, Bounds
  <1>2. disp' \in DispState /\ disp'.pc = "prune"
    BY <1>1 DEF DispState
  <1>3. /\ caller[Dispatcher].phase = "idle" /\ caller'[Dispatcher].phase = "prepared" /\ caller'[Dispatcher].cmd = PrunesCmd
        /\ \A x \in Client \ {Dispatcher} : caller'[x] = caller[x]
        /\ UNCHANGED <<db, channel, worker, faults>> /\ ~Replying
    BY <1>0, <1>1, PrepareCaller DEF NInv, Replying
  <1>4. Bounds'
    BY <1>1, <1>2, <1>3 DEF NInv, Bounds
  <1>5. Turn' /\ Foreigns'
    BY <1>2, <1>3 DEF NInv, Turn, InTurn, Foreigns, PrunesCmd
  <1>6. Over'
    BY <1>2, <1>3 DEF Over, Pending, Replying
  <1>7. HistoryInv'
    BY <1>1, <1>2, <1>3, <1>4, <1>6, SameHistory DEF Bounds
  <1> QED BY <1>4, <1>5, <1>7 DEF NInv

LEMMA PrunedInv ==
    ASSUME NInv, DeliveriesPruned, SInv'
    PROVE  NInv'
  <1>0. Dispatcher \in Client
    BY NotifierAssumption
  <1>1. disp.pc = "prune" /\ Receive(Dispatcher) /\ NextChannel /\ UNCHANGED <<events, published, calls, appended>>
    BY DEF DeliveriesPruned
  <1>2. /\ caller[Dispatcher].phase = "answered" /\ caller'[Dispatcher].phase = "idle"
        /\ \A x \in Client \ {Dispatcher} : caller'[x] = caller[x]
        /\ UNCHANGED <<db, channel, worker, faults>>
    BY <1>0, <1>1, ReceiveCaller DEF NInv
  <1>3. disp' \in DispState /\ disp'.pc \in {"idle", "send"}
    BY <1>1, NextChannelIs DEF NInv
  <1>4. Bounds'
    BY <1>1, <1>2, <1>3 DEF NInv, Bounds
  <1>5. Turn' /\ Foreigns'
    BY <1>2, <1>3 DEF NInv, Turn, InTurn, Foreigns
  <1>6. ~Over
    BY <1>1, <1>2 DEF Over, Pending
  <1>7. HistoryInv'
    BY <1>1, <1>2, <1>3, <1>4, <1>6, SameHistory DEF Bounds
  <1> QED BY <1>4, <1>5, <1>7 DEF NInv

LEMMA ApiInv ==
    ASSUME NInv, NEW c \in Client, ApiCall(c) \/ ApiAnswer(c), SInv'
    PROVE  NInv'
  <1>0. Dispatcher \in Client /\ c # Dispatcher /\ UNCHANGED <<events, disp, published, appended>>
        /\ calls' \in 0..MaxCalls
    BY NotifierAssumption DEF ApiCall, ApiAnswer, NInv, Bounds
  <1>1. /\ \A x \in Client \ {c} : caller'[x] = caller[x]
        /\ UNCHANGED <<db, channel, worker, faults>> /\ Foreign(caller'[c])
    <2>1. CASE ApiCall(c)
      <3>1. PICK cmd \in Commands : Prepare(c, cmd)
        BY <2>1 DEF ApiCall
      <3>2. /\ cmd.op # "prune"
            /\ cmd.op \in Puts => DOMAIN cmd.changes \cap History = {}
            /\ cmd.op = "delete" => cmd.key \notin History
        BY ApiCmds DEF NInv, SInv, Typed
      <3>3. /\ caller'[c].cmd = cmd /\ \A x \in Client \ {c} : caller'[x] = caller[x]
            /\ UNCHANGED <<db, channel, worker, faults>>
        BY <3>1, PrepareCaller DEF NInv
      <3> QED BY <3>2, <3>3 DEF Foreign
    <2>2. CASE ApiAnswer(c)
      <3>1. Receive(c)
        BY <2>2 DEF ApiAnswer
      <3>2. /\ caller'[c].phase = "idle" /\ \A x \in Client \ {c} : caller'[x] = caller[x]
            /\ UNCHANGED <<db, channel, worker, faults>>
        BY <3>1, ReceiveCaller DEF NInv
      <3> QED BY <3>2 DEF Foreign
    <2> QED BY <2>1, <2>2
  <1>2. caller'[Dispatcher] = caller[Dispatcher]
    BY <1>0, <1>1
  <1>3. Bounds'
    BY <1>0, <1>1 DEF NInv, Bounds
  <1>4. Turn' /\ Foreigns'
    BY <1>0, <1>1, <1>2 DEF NInv, Turn, Foreigns
  <1>5. (Pending' <=> Pending) /\ (Over' <=> Over)
    BY <1>0, <1>1, <1>2 DEF Pending, Over, Replying, Decision
  <1>6. HistoryInv'
    BY <1>0, <1>1, <1>2, <1>3, <1>5, SameHistory DEF Bounds
  <1> QED BY <1>3, <1>4, <1>6 DEF NInv

LEMMA RestartInv ==
    ASSUME NInv, RestartAll, SInv'
    PROVE  NInv'
  <1>0. Dispatcher \in Client /\ EventCap \in Nat /\ ChannelCap \in Nat /\ MaxFaults \in Nat
    BY NotifierAssumption, StoreAssumption
  <1>1. /\ faults > 0 /\ faults' = faults - 1 /\ db' = db /\ channel' = <<>> /\ worker' = IdleWorker
        /\ caller' = [c \in Client |-> NoCall] /\ Remember /\ events' = 0 /\ disp' = AtRest
        /\ UNCHANGED <<published, calls>>
    BY DEF RestartAll, Restart, rolled_back
  <1>2. NoCall.phase = "idle" /\ Len(channel') = 0
    BY <1>1 DEF NoCall
  <1>3. Bounds'
    BY <1>0, <1>1, <1>2, AtRestIs DEF NInv, Bounds
  <1>4. Turn' /\ Foreigns'
    BY <1>0, <1>1, <1>2, AtRestIs DEF Turn, InTurn, Foreigns, Foreign
  <1>5. HistoryInv'
    <2>1. faults' \in 0..MaxFaults /\ faults' <= faults /\ disp'.pc # "put"
      BY <1>0, <1>1, AtRestIs DEF NInv, Bounds
    <2> QED BY <1>1, <2>1, SameHistory
  <1> QED BY <1>3, <1>4, <1>5 DEF NInv

LEMMA QuietInv ==
    ASSUME NInv, Rest \/ publish \/ UNCHANGED vars, SInv'
    PROVE  NInv'
  <1>1. UNCHANGED <<storeVars, disp, calls, appended>> /\ published' \in 0..MaxEvents /\ events' \in 0..EventCap
    <2>1. CASE Rest \/ UNCHANGED vars
      BY <2>1 DEF Rest, vars, NInv, Bounds
    <2>2. CASE publish
      BY <2>2, NotifierAssumption DEF publish, NInv, Bounds
    <2> QED BY <2>1, <2>2
  <1>2. Bounds' /\ Turn' /\ Foreigns'
    BY <1>1 DEF NInv, Bounds, Turn, Foreigns, storeVars
  <1>3. (Pending' <=> Pending) /\ (Over' <=> Over)
    BY <1>1 DEF Pending, Over, Replying, Decision, storeVars
  <1>4. HistoryInv'
    BY <1>1, <1>2, <1>3, SameHistory DEF Bounds, storeVars
  <1> QED BY <1>2, <1>4 DEF NInv

LEMMA NInvNext ==
    ASSUME NInv, [Next]_vars
    PROVE  NInv'
  <1>1. SInv'
    BY NextRefines DEF NInv
  <1> QED BY <1>1, QuietInv, TakeEventInv, LoadChannelsInv, SendRetryInv, AppendInv, DeliveryStoredInv,
             PruneInv, PrunedInv, ApiInv, StoreInv, RestartInv DEF Next, Dispatch

LEMMA NInvInit ==
    ASSUME Init
    PROVE  NInv
  <1>1. SInv
    BY InitRefines
  <1>2. /\ \A k \in History : db.docs[k] = NoDoc
        /\ channel = <<>> /\ caller = [c \in Client |-> NoCall] /\ faults = MaxFaults
        /\ events = 0 /\ disp = AtRest /\ published = 0 /\ calls = 0 /\ appended = {}
        /\ Dispatcher \in Client
    BY StoreAssumption, NotifierAssumption DEF Init
  <1>3. NoCall.phase = "idle" /\ NoDoc.rev = 0
    BY DEF NoCall, NoDoc
  <1>4. Bounds
    BY <1>2, AtRestIs, StoreAssumption, NotifierAssumption DEF Bounds
  <1>5. Turn /\ Foreigns
    BY <1>2, <1>3, AtRestIs DEF Turn, InTurn, Foreigns, Foreign
  <1>6. Kept(db.docs) = {}
    BY <1>2, <1>3 DEF Kept
  <1>7. Within
    <2>1. Cardinality(Kept(db.docs)) = 0 /\ ~Over
      BY <1>2, <1>6, AtRestIs, FS_EmptySet DEF Over
    <2> QED BY <1>2, <2>1, StoreAssumption, NotifierAssumption DEF Within
  <1>8. HistoryInv
    BY <1>2, <1>3, <1>6, <1>7, AtRestIs DEF HistoryInv, Dated, Remembered, Ordered, PutAhead
  <1> QED BY <1>1, <1>4, <1>5, <1>8 DEF NInv

LEMMA NInvAlways == Spec => []NInv
  BY NInvInit, NInvNext, PTL DEF Spec

(* The variables of the repository and of the dispatcher have their types in every
   reachable state: no queue is above its capacity, a stored document has a recorded
   revision, and no recorded revision is above the counter next_revision takes from. *)
THEOREM NotifierTypes == Spec => []TypeOK
  <1>1. NInv => TypeOK
    <2> SUFFICES ASSUME NInv PROVE TypeOK
      OBVIOUS
    <2>1. StoreTypeOK
      <3>1. \A k \in Key : db.docs[k].payload \in Payload /\ db.docs[k].rev \in db.revs \cup {0}
        BY NotifierAssumption DEF NInv, SInv, Typed, DbType, Docs, Doc, Stamped
      <3>2. \A r \in db.revs : r <= last
        BY DEF NInv, SInv, Stamped
      <3>3. worker.step \in {"idle", "begin", "record", "write", "commit", "reply"}
        BY DEF NInv, SInv, Typed, WorkerType, WorkerState
      <3>4. \A c \in Client : caller[c].phase \in {"idle", "prepared", "sent", "answered"}
        BY DEF NInv, SInv, Typed, CallerType, CallState
      <3> QED BY <3>1, <3>2, <3>3, <3>4 DEF NInv, Bounds, StoreTypeOK
    <2>2. disp.pc \in {"idle", "load", "send", "append", "put", "appended", "prune"}
          /\ disp.left \subseteq Channel /\ disp.attempt \in 0..(MaxRetries - 1)
      BY DEF NInv, Bounds, DispState
    <2> QED BY <2>1, <2>2 DEF TypeOK, NInv, Bounds, HistoryInv, Remembered
  <1> QED BY <1>1, NInvAlways, PTL

(* A delivery record is never pruned while an older one is kept, and the history is
   over its limit by at most the record being appended and one record for every fault
   (append_delivery_inner: the put and the prune are two commands, between which the
   process may die or a statement fail). *)
THEOREM NotifierKeepsLatest == Spec => []KeepsLatest
  <1>1. NInv => KeepsLatest
    <2> SUFFICES ASSUME NInv PROVE KeepsLatest
      OBVIOUS
    <2>1. Stored = Kept(db.docs)
      BY StoredIs DEF NInv, SInv
    <2>2. Cardinality(Kept(db.docs)) \in Nat
      BY FS_CardinalityType DEF NInv, SInv, Stamped, Few, Kept
    <2>3. Cardinality(Kept(db.docs)) <= KeepLatest + 1 + (MaxFaults - faults)
      BY <2>2, StoreAssumption, NotifierAssumption DEF NInv, Bounds, HistoryInv, Within
    <2> QED BY <2>1, <2>3 DEF KeepsLatest, NInv, HistoryInv, Ordered
  <1> QED BY <1>1, NInvAlways, PTL

=============================================================================
