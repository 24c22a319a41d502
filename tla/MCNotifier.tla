----------------------------- MODULE MCNotifier -----------------------------
EXTENDS Notifier
CONSTANT MaxRevision
MCKey == {Config, Ha, Listeners, Groups} \cup ({"delivery"} \X (1..MaxRevision))
MCHistory == {"delivery"} \X (1..MaxRevision)
MCPayload == SUBSET Channel
=============================================================================
