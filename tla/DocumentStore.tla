--------------------------- MODULE DocumentStore ----------------------------
(***************************************************************************)
(* The document repository of one gateway process (storage/repository.rs,  *)
(* storage/mod.rs): callers take a revision from a process-wide counter,   *)
(* put a command on a bounded channel and wait; one thread serves the      *)
(* commands in order, each in SQL statements of one transaction.  Another  *)
(* caller may take a later revision and be served earlier.  A statement    *)
(* may fail and the process may die between any two steps; SQLite then     *)
(* has the last committed contents.  Module Documents states what callers  *)
(* may rely on.                                                            *)
(***************************************************************************)
EXTENDS Naturals, Sequences, FiniteSets, FiniteSetsExt

CONSTANTS
    Client, Key, History,
    Payload,
    ChannelCap,   \* commands the channel holds (128)
    MaxFaults     \* bound: failed statements and crashes

ASSUME StoreAssumption ==
    /\ History \subseteq Key
    /\ ChannelCap \in Nat \ {0} /\ MaxFaults \in Nat

NoDoc == [payload |-> {}, rev |-> 0]
Nothing == [k \in {} |-> NoDoc]
Result(status, found) == [status |-> status, found |-> found]
NoResult == Result("none", Nothing)
NoCmd == [op |-> "none"]

VARIABLES
    db,       \* committed: the documents and the recorded revisions
    last,     \* LAST_REVISION
    channel,  \* commands sent to the storage thread, with their callers
    worker,   \* the storage thread
    caller,   \* caller[c]: the client's command and its answer
    faults    \* failed statements and crashes left

storeVars == <<db, last, channel, worker, caller, faults>>

IdleWorker == [step |-> "idle", client |-> "none", cmd |-> NoCmd,
               txn |-> [docs |-> Nothing, revs |-> {}], left |-> {}, result |-> NoResult]
NoCall == [phase |-> "idle", cmd |-> NoCmd, result |-> NoResult]

StoreTypeOK ==
    /\ \A k \in Key : db.docs[k].payload \in Payload /\ db.docs[k].rev \in db.revs \cup {0}
    /\ \A r \in db.revs : r <= last
    /\ Len(channel) <= ChannelCap
    /\ worker.step \in {"idle", "begin", "record", "write", "commit", "reply"}
    /\ \A c \in Client : caller[c].phase \in {"idle", "prepared", "sent", "answered"}
    /\ faults \in 0..MaxFaults

-----------------------------------------------------------------------------
(* Callers. *)

(* next_revision: above every revision seen, whatever the wall clock says. *)
next_revision == last + 1

(* The caller has its command; put_if_changed, put, compare_and_put and delete
   carry a revision taken now. *)
Prepare(c, cmd) ==
    /\ caller[c] = NoCall
    /\ caller' = [caller EXCEPT ![c] = [NoCall EXCEPT !.phase = "prepared", !.cmd = cmd]]
    /\ last' = IF cmd.op \in {"get", "prune"} THEN last ELSE next_revision
    /\ UNCHANGED <<db, channel, worker, faults>>

(* tx.send: waits while the channel is full. *)
Send(c) ==
    /\ caller[c].phase = "prepared" /\ Len(channel) < ChannelCap
    /\ channel' = Append(channel, [client |-> c, cmd |-> caller[c].cmd])
    /\ caller' = [caller EXCEPT ![c].phase = "sent"]
    /\ UNCHANGED <<db, last, worker, faults>>

(* rx.recv: the caller goes on with its answer. *)
Receive(c) ==
    /\ caller[c].phase = "answered"
    /\ caller' = [caller EXCEPT ![c] = NoCall]
    /\ UNCHANGED <<db, last, channel, worker, faults>>

-----------------------------------------------------------------------------
(* The storage thread. *)

Finish(result) == [worker EXCEPT !.step = "reply", !.result = result]

Begin ==
    /\ worker.step = "idle" /\ channel # <<>>
    /\ worker' = [IdleWorker EXCEPT !.step = "begin", !.client = Head(channel).client,
                                    !.cmd = Head(channel).cmd, !.txn = db]
    /\ channel' = Tail(channel)
    /\ UNCHANGED <<db, last, caller, faults>>

(* compare_and_put: guards and changed documents still have the expected
   revisions. *)
matches(cmd, docs) == \A k \in DOMAIN cmd.expected : docs[k].rev = cmd.expected[k]

(* The reads at the start of a transaction, and the answers that need no
   write: a read, a payload that is already stored, a stale expectation, a
   revision that does not advance. *)
Read ==
    LET cmd == worker.cmd
        docs == worker.txn.docs
        unchanged == \/ cmd.op = "put_if_changed" /\ \A k \in DOMAIN cmd.changes :
                           docs[k] # NoDoc /\ docs[k].payload = cmd.changes[k]
                     \/ cmd.op = "compare_and_put" /\ ~matches(cmd, docs)
        stuck == cmd.op = "compare_and_put"
                 /\ \E k \in DOMAIN cmd.changes : cmd.rev <= cmd.expected[k]
    IN  /\ worker.step = "begin"
        /\ worker' =
             IF cmd.op = "get"
             THEN Finish(Result("read", [k \in cmd.keys |-> docs[k]]))
             ELSE IF unchanged THEN Finish(Result("unchanged", Nothing))
             ELSE IF stuck THEN Finish(Result("failed", Nothing))
             ELSE [worker EXCEPT !.step = IF cmd.op = "prune" THEN "write" ELSE "record"]
        /\ UNCHANGED <<db, last, channel, caller, faults>>

(* INSERT INTO config_revisions: the revision is a primary key. *)
RecordRevision ==
    LET cmd == worker.cmd IN
    /\ worker.step = "record"
    /\ worker' = IF cmd.rev \in worker.txn.revs THEN Finish(Result("failed", Nothing))
                 ELSE [worker EXCEPT !.step = "write", !.txn.revs = @ \cup {cmd.rev},
                          !.left = IF cmd.op = "delete" THEN {} ELSE DOMAIN cmd.changes]
    /\ UNCHANGED <<db, last, channel, caller, faults>>

(* Mutant: the history is kept from its oldest record on. *)
pruned_oldest(docs, keep) ==
    {k \in History : docs[k] # NoDoc
        /\ Cardinality({j \in History : docs[j] # NoDoc /\ docs[j].rev < docs[k].rev}) >= keep}

(* prune_resource: all but the latest by revision. *)
pruned(docs, keep) ==
    {k \in History : docs[k] # NoDoc
        /\ Cardinality({j \in History : docs[j].rev > docs[k].rev}) >= keep}

(* The statement that writes one document, deletes one or prunes. *)
WriteDocument ==
    LET cmd == worker.cmd
        docs == worker.txn.docs
        erase(keys) == [k \in Key |-> IF k \in keys THEN NoDoc ELSE docs[k]]
    IN  /\ worker.step = "write"
        /\ \/ /\ cmd.op = "prune"
              /\ worker' = [worker EXCEPT !.step = "commit",
                                          !.txn.docs = erase(pruned(docs, cmd.keep))]
           \/ /\ cmd.op = "delete"
              /\ worker' = [worker EXCEPT !.step = "commit", !.txn.docs = erase({cmd.key})]
           \/ /\ cmd.op \notin {"prune", "delete"}
              /\ \E k \in worker.left :
                    worker' = [worker EXCEPT
                       !.step = IF worker.left = {k} THEN "commit" ELSE "write",
                       !.left = @ \ {k},
                       !.txn.docs[k] = [payload |-> cmd.changes[k], rev |-> cmd.rev]]
        /\ UNCHANGED <<db, last, channel, caller, faults>>

Commit ==
    /\ worker.step = "commit"
    /\ db' = worker.txn
    /\ worker' = Finish(Result("done", Nothing))
    /\ UNCHANGED <<last, channel, caller, faults>>

Reply ==
    /\ worker.step = "reply"
    /\ caller' = [caller EXCEPT ![worker.client].phase = "answered",
                                ![worker.client].result = worker.result]
    /\ worker' = IdleWorker
    /\ UNCHANGED <<db, last, channel, faults>>

(* Mutant: the statements take effect one by one. *)
rolled_back_never(txn) == IF txn.docs = Nothing THEN db ELSE txn

(* What is left of a transaction that was not committed. *)
rolled_back(txn) == db

FailStatement ==
    /\ worker.step \in {"begin", "record", "write", "commit"}
    /\ faults > 0 /\ faults' = faults - 1
    /\ db' = rolled_back(worker.txn)
    /\ worker' = Finish(Result("failed", Nothing))
    /\ UNCHANGED <<last, channel, caller>>

Work == Begin \/ Read \/ RecordRevision \/ WriteDocument \/ Commit \/ Reply

(* Mutant: the counter of a new process starts from zero. *)
observe_nothing(revs) == 0

(* The floor of the counter: the largest recorded revision. *)
observe_revision(revs) == Max(revs \cup {0})

(* The process dies and starts again: initialize takes the process lock, and
   the counter starts at the largest recorded revision. *)
Restart ==
    /\ faults > 0 /\ faults' = faults - 1
    /\ db' = rolled_back(worker.txn)
    /\ last' = observe_revision(db.revs)
    /\ channel' = <<>> /\ worker' = IdleWorker
    /\ caller' = [c \in Client |-> NoCall]

-----------------------------------------------------------------------------
(* The refinement: the abstract documents are the committed ones, and a call
   is done from the step that decides its result. *)
CallOf(c) ==
    LET decided == worker.step = "reply" /\ worker.client = c IN
    IF caller[c].phase = "idle" THEN NoCall
    ELSE [phase |-> IF decided \/ caller[c].phase = "answered" THEN "done" ELSE "asked",
          cmd |-> caller[c].cmd,
          result |-> IF decided THEN worker.result ELSE caller[c].result]

Abstract == INSTANCE Documents WITH docs <- db.docs, revs <- db.revs,
                                    call <- [c \in Client |-> CallOf(c)]

(* The repository implements the atomic documents: every call takes effect at
   once or not at all, and is answered with what the documents then were. *)
ImplementsDocuments == Abstract!Spec
=============================================================================
