------------------------------ MODULE Notifier ------------------------------
(***************************************************************************)
(* The notification dispatcher (notify/mod.rs, events.rs) and the API      *)
(* workers as callers of the document repository.  Events are published    *)
(* without waiting and dropped when the dispatcher's queue is full.  For   *)
(* each event the dispatcher loads the channels, sends to every channel    *)
(* that matches with a bounded number of attempts, records the delivery    *)
(* and prunes the delivery history: two commands, between which the        *)
(* process may die.  The payload of the channel document is the set of the *)
(* enabled channels that subscribe to the events; what a channel's server  *)
(* answers is a choice.                                                    *)
(***************************************************************************)
EXTENDS DocumentStore

CONSTANTS
    Dispatcher,    \* the dispatcher's thread
    Channel,
    Coded,         \* the channels whose service reports errors in the body
    EventCap,      \* events the dispatcher's queue holds (1024)
    MaxRetries,    \* attempts per delivery (5)
    KeepLatest,    \* DELIVERY_HISTORY_LIMIT (512)
    MaxEvents,     \* bound: published events
    MaxCalls       \* bound: calls of the API workers

Config == <<"notifications", 0>>
Ha == <<"ha", 0>>
Listeners == <<"listeners", 0>>
Groups == <<"groups", 0>>
DeliveryAt(rev) == <<"delivery", rev>>

ASSUME NotifierAssumption ==
    /\ Coded \subseteq Channel
    /\ Dispatcher \in Client /\ Payload = SUBSET Channel
    /\ {Config, Ha, Listeners, Groups} \subseteq Key \ History
    /\ EventCap \in Nat \ {0} /\ MaxRetries \in Nat \ {0} /\ KeepLatest \in Nat
    /\ MaxEvents \in Nat /\ MaxCalls \in Nat

VARIABLES
    events,     \* events in the dispatcher's queue
    disp,       \* the dispatcher
    published,  \* events published so far
    calls,      \* calls of the API workers so far
    appended    \* history: the delivery records that were ever stored

vars == <<storeVars, events, disp, published, calls, appended>>

AtRest == [pc |-> "idle", left |-> {}, attempt |-> 0]

TypeOK ==
    /\ StoreTypeOK
    /\ events \in 0..EventCap /\ published \in 0..MaxEvents /\ calls \in 0..MaxCalls
    /\ disp.pc \in {"idle", "load", "send", "append", "put", "appended", "prune"}
    /\ disp.left \subseteq Channel /\ disp.attempt \in 0..(MaxRetries - 1)
    /\ appended \subseteq History

(* The process starts on a database that already has a channel document. *)
Init ==
    /\ db = [docs |-> [k \in Key |->
                IF k = Config THEN [payload |-> Channel, rev |-> 1] ELSE NoDoc],
             revs |-> {1}]
    /\ last = 1 /\ channel = <<>> /\ worker = IdleWorker
    /\ caller = [c \in Client |-> NoCall] /\ faults = MaxFaults
    /\ events = 0 /\ disp = AtRest /\ published = 0 /\ calls = 0 /\ appended = {}

Stored == {k \in History : db.docs[k] # NoDoc}
Remember == appended' = appended \cup Stored'

-----------------------------------------------------------------------------
(* try_send: an event that does not fit is dropped. *)
publish ==
    /\ published < MaxEvents /\ published' = published + 1
    /\ events' = IF events < EventCap THEN events + 1 ELSE events
    /\ UNCHANGED <<storeVars, disp, calls, appended>>

(* dispatch_event loads the channels. *)
TakeEvent ==
    /\ disp.pc = "idle" /\ events > 0
    /\ events' = events - 1 /\ disp' = [AtRest EXCEPT !.pc = "load"]
    /\ Prepare(Dispatcher, [op |-> "get", keys |-> {Config}])
    /\ UNCHANGED <<published, calls, appended>>

(* The event is given up when the channels cannot be read. *)
LoadChannels ==
    LET result == caller[Dispatcher].result
        left == IF result.status = "read" THEN result.found[Config].payload ELSE {}
    IN  /\ disp.pc = "load" /\ Receive(Dispatcher)
        /\ disp' = IF left = {} THEN AtRest ELSE [AtRest EXCEPT !.pc = "send", !.left = left]
        /\ UNCHANGED <<events, published, calls, appended>>

(* The channel the dispatcher is sending to. *)
Current == CHOOSE ch \in disp.left : TRUE

(* Mutant: a failed attempt is not counted. *)
tries_left_always(attempt) == TRUE

(* The loop of send_with_retry. *)
tries_left(attempt) == attempt + 1 < MaxRetries

(* What comes back from the server of a channel. *)
Answer == {"accepted", "refused in the body", "HTTP error", "no answer"}

(* response and json_code_delivery: some services answer 200 to a message
   they refuse and say so in the body; for the others only the status counts. *)
delivered(ch, answer) ==
    answer = "accepted" \/ (answer = "refused in the body" /\ ch \notin Coded)

(* send_once, and after the last attempt a delivery record either way. *)
send_with_retry ==
    /\ disp.pc = "send"
    /\ \E answer \in Answer :
          disp' = IF ~delivered(Current, answer) /\ tries_left(disp.attempt)
                  THEN [disp EXCEPT !.attempt = (@ + 1) % MaxRetries]
                  ELSE [disp EXCEPT !.pc = "append", !.attempt = 0]
    /\ UNCHANGED <<storeVars, events, published, calls, appended>>

append_delivery ==
    /\ disp.pc = "append" /\ disp' = [disp EXCEPT !.pc = "put"]
    /\ Prepare(Dispatcher, [op |-> "put", rev |-> next_revision,
                            changes |-> [k \in {DeliveryAt(next_revision)} |-> {}]])
    /\ UNCHANGED <<events, published, calls, appended>>

NextChannel ==
    LET left == disp.left \ {Current} IN
    disp' = IF left = {} THEN AtRest ELSE [AtRest EXCEPT !.pc = "send", !.left = left]

(* A record that could not be stored is logged; nothing is pruned then. *)
DeliveryStored ==
    /\ disp.pc = "put" /\ Receive(Dispatcher)
    /\ IF caller[Dispatcher].result.status = "done"
       THEN disp' = [disp EXCEPT !.pc = "appended"] ELSE NextChannel
    /\ UNCHANGED <<events, published, calls, appended>>

prune_deliveries ==
    /\ disp.pc = "appended" /\ disp' = [disp EXCEPT !.pc = "prune"]
    /\ Prepare(Dispatcher, [op |-> "prune", keep |-> KeepLatest])
    /\ UNCHANGED <<events, published, calls, appended>>

DeliveriesPruned ==
    /\ disp.pc = "prune" /\ Receive(Dispatcher) /\ NextChannel
    /\ UNCHANGED <<events, published, calls, appended>>

Dispatch == TakeEvent \/ LoadChannels \/ send_with_retry \/ append_delivery \/ DeliveryStored
            \/ prune_deliveries \/ DeliveriesPruned

-----------------------------------------------------------------------------
(* The transaction of the business configuration: it expects the revisions of
   an earlier read. *)
Replace(ha, config) ==
    [op |-> "compare_and_put", rev |-> next_revision,
     changes |-> [k \in {Listeners, Groups} |-> Channel],
     expected |-> [k \in {Listeners, Groups, Ha} |-> IF k = Ha THEN ha ELSE config]]

(* The commands of the other callers: reads, saves of the channel document,
   the HA documents, and the business configuration. *)
Commands ==
    [op : {"get"}, keys : {{Listeners, Groups}}]
    \cup [op : {"put_if_changed"}, rev : {next_revision}, changes : [{Config} -> Payload]]
    \cup [op : {"put"}, rev : {next_revision}, changes : [{Ha} -> {{}}]]
    \cup [op : {"delete"}, rev : {next_revision}, key : {Ha}]
    \cup {Replace(ha, config) : ha \in db.revs \cup {0}, config \in db.revs \cup {0}}

ApiCall(c) ==
    /\ c # Dispatcher /\ calls < MaxCalls /\ calls' = calls + 1
    /\ \E cmd \in Commands : Prepare(c, cmd)
    /\ UNCHANGED <<events, disp, published, appended>>

ApiAnswer(c) ==
    /\ c # Dispatcher /\ Receive(c)
    /\ UNCHANGED <<events, disp, published, calls, appended>>

Store ==
    /\ Work \/ FailStatement \/ \E c \in Client : Send(c)
    /\ Remember
    /\ UNCHANGED <<events, disp, published, calls>>

(* The queued events are lost with the process. *)
RestartAll ==
    /\ Restart /\ Remember
    /\ events' = 0 /\ disp' = AtRest
    /\ UNCHANGED <<published, calls>>

(* Nothing is left to do. *)
Rest ==
    /\ published = MaxEvents /\ events = 0 /\ disp = AtRest /\ calls = MaxCalls
    /\ \A c \in Client : caller[c] = NoCall
    /\ UNCHANGED vars

Next ==
    \/ Rest
    \/ publish \/ Dispatch \/ Store \/ RestartAll
    \/ \E c \in Client : ApiCall(c) \/ ApiAnswer(c)

Spec == Init /\ [][Next]_vars

(* The dispatcher, the callers and the storage thread run. *)
FairSpec ==
    /\ Spec
    /\ WF_vars(Dispatch) /\ WF_vars(Store)
    /\ \A c \in Client : WF_vars(ApiAnswer(c))

-----------------------------------------------------------------------------
(* A delivery record is never pruned while an older one is kept, and the
   history is over its limit by the record being appended and by the ones of
   appends that a fault cut short, no more (append_delivery_inner). *)
KeepsLatest ==
    /\ \A j, k \in appended : j \in Stored /\ k[2] > j[2] => k \in Stored
    /\ Cardinality(Stored) <= KeepLatest + 1 + (MaxFaults - faults)

(* Every event that was not dropped is dealt with: neither a channel that
   keeps failing nor a failing database blocks the dispatcher. *)
EventuallyDispatched == <>[](events = 0 /\ disp = AtRest)
=============================================================================
