----------------------------- MODULE Documents ------------------------------
(***************************************************************************)
(* What the document repository promises the threads that call it: a call  *)
(* takes effect at one moment between its start and its answer, all of it  *)
(* or nothing, with a result that fits the documents of that moment.       *)
(* A document is a payload and the revision that wrote it; every revision  *)
(* that wrote something is recorded, once.  A call that fails changes      *)
(* nothing.  When the process dies the calls in progress are gone; those   *)
(* that had taken effect have done so.                                     *)
(***************************************************************************)
EXTENDS Naturals, FiniteSets

CONSTANTS
    Client,    \* the threads that call the repository
    Key,       \* resource_type and resource_name
    History    \* the keys of the resource type that is pruned

NoDoc == [payload |-> {}, rev |-> 0]
Nothing == [k \in {} |-> NoDoc]

Result(status, found) == [status |-> status, found |-> found]
NoResult == Result("none", Nothing)

(* The n latest documents of the pruned type. *)
Latest(docs, n) ==
    {k \in History :
        /\ docs[k] # NoDoc
        /\ Cardinality({j \in History : docs[j].rev > docs[k].rev}) < n}

Written(docs, changes, rev) ==
    [k \in Key |-> IF k \in DOMAIN changes THEN [payload |-> changes[k], rev |-> rev]
                   ELSE docs[k]]

(* What a command may do to the documents d and the recorded revisions r. *)
Outcome(cmd, d, r) ==
    LET same(status) == [docs |-> d, revs |-> r, result |-> Result(status, Nothing)]
        commit(docs) == [docs |-> docs, revs |-> r \cup {cmd.rev},
                         result |-> Result("done", Nothing)]
        fresh == cmd.rev \notin r
    IN  {same("failed")} \cup
        CASE cmd.op = "get" ->
               {[docs |-> d, revs |-> r,
                 result |-> Result("read", [k \in cmd.keys |-> d[k]])]}
          [] cmd.op = "put" ->
               IF fresh THEN {commit(Written(d, cmd.changes, cmd.rev))} ELSE {}
          [] cmd.op = "put_if_changed" ->
               IF \A k \in DOMAIN cmd.changes :
                     d[k] # NoDoc /\ d[k].payload = cmd.changes[k]
               THEN {same("unchanged")}
               ELSE IF fresh THEN {commit(Written(d, cmd.changes, cmd.rev))} ELSE {}
          [] cmd.op = "compare_and_put" ->
               IF \E k \in DOMAIN cmd.expected : d[k].rev # cmd.expected[k]
               THEN {same("unchanged")}
               ELSE IF fresh /\ \A k \in DOMAIN cmd.changes : cmd.rev > d[k].rev
               THEN {commit(Written(d, cmd.changes, cmd.rev))} ELSE {}
          [] cmd.op = "delete" ->
               IF fresh THEN {commit([d EXCEPT ![cmd.key] = NoDoc])} ELSE {}
          [] cmd.op = "prune" ->
               {[docs |-> [k \in Key |->
                    IF k \in History \ Latest(d, cmd.keep) THEN NoDoc ELSE d[k]],
                 revs |-> r, result |-> Result("done", Nothing)]}

VARIABLES
    docs,   \* the documents
    revs,   \* the recorded revisions
    call    \* call[c]: the client's call, if any

vars == <<docs, revs, call>>

NoCall == [phase |-> "idle", cmd |-> [op |-> "none"], result |-> NoResult]

(* The database as an earlier run of the process left it. *)
Init ==
    /\ \A k \in Key : docs[k] = NoDoc \/ docs[k].rev \in revs
    /\ call = [c \in Client |-> NoCall]

Ask(c) ==
    /\ call[c] = NoCall
    /\ call' = [call EXCEPT ![c] = [phase |-> "asked", cmd |-> call'[c].cmd, result |-> NoResult]]
    /\ UNCHANGED <<docs, revs>>

Do(c) ==
    /\ call[c].phase = "asked"
    /\ \E o \in Outcome(call[c].cmd, docs, revs) :
          /\ docs' = o.docs /\ revs' = o.revs
          /\ call' = [call EXCEPT ![c] =
                         [phase |-> "done", cmd |-> call[c].cmd, result |-> o.result]]

Receive(c) ==
    /\ call[c].phase = "done"
    /\ call' = [call EXCEPT ![c] = NoCall]
    /\ UNCHANGED <<docs, revs>>

Die == call' = [c \in Client |-> NoCall] /\ UNCHANGED <<docs, revs>>

Next == (\E c \in Client : Ask(c) \/ Do(c) \/ Receive(c)) \/ Die

Spec == Init /\ [][Next]_vars
=============================================================================
