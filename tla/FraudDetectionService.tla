------------------------ MODULE FraudDetectionService ------------------------
(***************************************************************************)
(* The voice-switch side of the anti-call-masking core:                    *)
(* src/anti-call-masking/integration/voice-switch-im/fraud_handler.go      *)
(*                                                                         *)
(*  - the call-event handlers (POST /fraud/events, /fraud/events/batch),   *)
(*    each a goroutine that runs trackCall and then appends to the event   *)
(*    buffer, in two separate critical sections;                           *)
(*  - the Active-Call Registry (activeCalls, guarded by mu);               *)
(*  - the event buffer (callEventsBuffer, guarded by bufferMu) and the     *)
(*    flushBuffer goroutines: the 100 ms ticker, the size-triggered        *)
(*    goroutine and the goroutine started by every batch request;          *)
(*  - the per-event fast path (go sendToLumaDB) for ringing/active events; *)
(*  - the disconnect dispatcher (POST /fraud/disconnect), which looks a    *)
(*    call up under RLock, releases it, calls dlg.end_dlg on the SBC and   *)
(*    deletes the entry on HTTP 200.                                       *)
(*                                                                         *)
(* The SBC (which produces the events and executes dlg.end_dlg) and the    *)
(* LumaDB detection service (which receives the batches) are the           *)
(* environment.  A call id is a model value; an event is the pair          *)
(* (call, status): a dialog reports each status at most once, so events    *)
(* are distinct and sequences of them can be compared by position.         *)
(***************************************************************************)
EXTENDS Naturals, Sequences, FiniteSets, SequencesExt

CONSTANTS
    Calls,                 \* call ids (model values)
    Dispatchers,           \* concurrent POST /fraud/disconnect requests
    DisconnectLists,       \* the call_ids lists a disconnect request may carry
    FlushHighWatermark,    \* len(buffer) >= 50 triggers a flush goroutine
    ReportModes,           \* how the SBC posts events: "single", "batch"
    MaxDisconnectRequests  \* bound on disconnect requests in a behaviour

ASSUME FlushHighWatermark \in Nat \ {0}
ASSUME ReportModes \subseteq {"single", "batch"} /\ ReportModes # {}
ASSUME \A ids \in DisconnectLists : ids \in Seq(Calls) /\ ids # <<>>

Statuses == {"ringing", "active", "completed", "disconnected"}
Live     == {"ringing", "active"}      \* statuses trackCall stores
Event    == [call : Calls, status : Statuses]
None     == "none"                     \* no entry in activeCalls
Outcomes == {"ok", "rpcError", "late", "lost", "rejected"}
  \* ok: SBC ended the dialog and answered 200; rpcError: SBC answered 200
  \* with a JSON-RPC error body (no such dialog, say) without acting; late:
  \* SBC ended it but the 5 s client timeout fired first; lost: transport
  \* error, the request never reached the SBC; rejected: SBC answered non-200
  \* without acting.
HttpOK == {"ok", "rpcError"}           \* answers with resp.StatusCode == 200

VARIABLES
    dialog,        \* SBC: state of each dialog
    outbox,        \* SBC: events held back to be posted as one batch request
    handlers,      \* running event-handler goroutines
    activeCalls,   \* s.activeCalls: call id -> stored status, or None
    buffer,        \* s.callEventsBuffer
    spawned,       \* flushBuffer goroutines started but not yet run
    inflight,      \* batches taken from the buffer whose POST is pending
    received,      \* LumaDB: events of /acm/calls/batch, in arrival order
    dropped,       \* events of batches whose POST failed (only logged)
    dispatch,      \* per disconnect request: program counter and state
    dreqs,         \* disconnect requests received so far
    accepted       \* history: events appended to the buffer

vars == <<dialog, outbox, handlers, activeCalls, buffer, spawned, inflight,
          received, dropped, dispatch, dreqs, accepted>>

sbcVars      == <<dialog, outbox>>
flushVars    == <<spawned, inflight, received, dropped>>
dispatchVars == <<dispatch, dreqs>>

Handler  == [kind : {"single", "batch"}, evs : Seq(Event),
             phase : {"track", "append"}]
Dispatch == [pc : {"idle", "lookup", "rpc", "reply"}, todo : Seq(Calls),
             reply : Outcomes]

TypeOK ==
    /\ dialog \in [Calls -> {"idle", "ringing", "active", "ended"}]
    /\ outbox \in Seq(Event)
    /\ handlers \subseteq Handler
    /\ activeCalls \in [Calls -> Live \cup {None}]
    /\ buffer \in Seq(Event)
    /\ spawned \in Nat
    /\ inflight \subseteq [batch : Seq(Event), by : {"ticker", "goroutine"}]
    /\ received \in Seq(Event)
    /\ dropped \subseteq Event
    /\ dispatch \in [Dispatchers -> Dispatch]
    /\ dreqs \in Nat
    /\ accepted \subseteq Event

Init ==
    /\ dialog = [c \in Calls |-> "idle"]
    /\ outbox = <<>>
    /\ handlers = {}
    /\ activeCalls = [c \in Calls |-> None]
    /\ buffer = <<>>
    /\ spawned = 0
    /\ inflight = {}
    /\ received = <<>>
    /\ dropped = {}
    /\ dispatch = [d \in Dispatchers |-> [pc |-> "idle", todo |-> <<>>,
                                          reply |-> "ok"]]
    /\ dreqs = 0
    /\ accepted = {}

-----------------------------------------------------------------------------
(* The SBC.  It reports every dialog state change with one HTTP request,   *)
(* either at once (POST /fraud/events) or later together with other        *)
(* events (POST /fraud/events/batch).  Requests run as concurrent          *)
(* goroutines: nothing orders two requests that are both in flight.        *)

Report(e) ==
    \/ /\ "single" \in ReportModes
       /\ handlers' = handlers \cup
                      {[kind |-> "single", evs |-> <<e>>, phase |-> "track"]}
       /\ UNCHANGED outbox
    \/ /\ "batch" \in ReportModes
       /\ outbox' = Append(outbox, e)
       /\ UNCHANGED handlers

SbcStep(c, from, to, status) ==
    /\ dialog[c] \in from
    /\ dialog' = [dialog EXCEPT ![c] = to]
    /\ Report([call |-> c, status |-> status])

SbcRing(c)   == SbcStep(c, {"idle"}, "ringing", "ringing")
SbcAnswer(c) == SbcStep(c, {"ringing"}, "active", "active")
SbcHangup(c) == SbcStep(c, Live, "ended", "completed")

SbcPostBatch ==
    /\ outbox # <<>>
    /\ handlers' = handlers \cup
                   {[kind |-> "batch", evs |-> outbox, phase |-> "track"]}
    /\ outbox' = <<>>
    /\ UNCHANGED dialog

SbcNext ==
    /\ \/ \E c \in Calls : SbcRing(c) \/ SbcAnswer(c) \/ SbcHangup(c)
       \/ SbcPostBatch
    /\ UNCHANGED <<activeCalls, buffer, accepted>>
    /\ UNCHANGED <<flushVars, dispatchVars>>

-----------------------------------------------------------------------------
(* Fault model for trackCall: every status upserts, the delete is lost.    *)
TrackCallUpsertAll(e) ==
    activeCalls' = [activeCalls EXCEPT ![e.call] = e.status]

(* trackCall: under mu, ringing/active upserts the entry and              *)
(* completed/disconnected deletes it.                                      *)
TrackCall(e) ==
    activeCalls' = [activeCalls EXCEPT
                      ![e.call] = IF e.status \in Live THEN e.status ELSE None]

(* First critical section of both handlers: trackCall on the current       *)
(* event of the request.                                                   *)
HandleTrack(h) ==
    /\ h.phase = "track"
    /\ TrackCall(Head(h.evs))
    /\ handlers' = (handlers \ {h}) \cup {[h EXCEPT !.phase = "append"]}
    /\ UNCHANGED <<buffer, accepted, spawned>>

(* handleCallEvent, second part: append under bufferMu, compute            *)
(* shouldFlush from the new length, then `go s.flushBuffer()` when it is   *)
(* set.  The `go s.sendToLumaDB(&event)` fast path for ringing/active      *)
(* events POSTs to /acm/call and only logs the outcome: it changes no      *)
(* state of the service, and no property here observes LumaDB's real-time  *)
(* input, so it is not represented.                                        *)
HandleCallEventAppend(h) ==
    LET e == Head(h.evs) IN
    /\ h.phase = "append"
    /\ h.kind = "single"
    /\ buffer' = Append(buffer, e)
    /\ accepted' = accepted \cup {e}
    /\ spawned' = IF Len(buffer') >= FlushHighWatermark
                  THEN spawned + 1 ELSE spawned
    /\ handlers' = handlers \ {h}
    /\ UNCHANGED activeCalls

(* handleCallEventBatch, loop body after trackCall: append under           *)
(* bufferMu; after the last event, `go s.flushBuffer()` unconditionally.   *)
HandleBatchAppend(h) ==
    LET e == Head(h.evs) IN
    /\ h.phase = "append"
    /\ h.kind = "batch"
    /\ buffer' = Append(buffer, e)
    /\ accepted' = accepted \cup {e}
    /\ IF Tail(h.evs) = <<>>
       THEN /\ handlers' = handlers \ {h}
            /\ spawned' = spawned + 1
       ELSE /\ handlers' = (handlers \ {h}) \cup
                           {[h EXCEPT !.evs = Tail(h.evs), !.phase = "track"]}
            /\ UNCHANGED spawned
    /\ UNCHANGED activeCalls

HandlerNext ==
    /\ \E h \in handlers :
          \/ HandleTrack(h)
          \/ HandleCallEventAppend(h)
          \/ HandleBatchAppend(h)
    /\ UNCHANGED <<sbcVars, dispatchVars, inflight, received, dropped>>

-----------------------------------------------------------------------------
(* Fault model for flushBuffer: the slice is handed to the POST but the    *)
(* buffer is not replaced by a fresh one.                                  *)
TakeBufferNoReset(by) ==
    /\ buffer # <<>>
    /\ inflight' = inflight \cup {[batch |-> buffer, by |-> by]}
    /\ UNCHANGED buffer

(* flushBuffer, first half, under bufferMu: an empty buffer returns;       *)
(* otherwise the slice is taken and replaced by a fresh one.              *)
TakeBuffer(by) ==
    /\ buffer # <<>>
    /\ inflight' = inflight \cup {[batch |-> buffer, by |-> by]}
    /\ buffer' = <<>>

(* A started flushBuffer goroutine (size trigger or batch request).        *)
FlushGoroutine ==
    /\ spawned > 0
    /\ spawned' = spawned - 1
    /\ \/ TakeBuffer("goroutine")
       \/ buffer = <<>> /\ UNCHANGED <<buffer, inflight>>
    /\ UNCHANGED <<received, dropped>>

(* Fault model for the ticker: it flushes only a buffer at the size        *)
(* trigger, leaving a short tail to the size-triggered goroutines.         *)
TickerFlushAtWatermark ==
    /\ \A b \in inflight : b.by # "ticker"
    /\ \/ Len(buffer) >= FlushHighWatermark /\ TakeBuffer("ticker")
       \/ Len(buffer) < FlushHighWatermark /\ UNCHANGED <<buffer, inflight>>
    /\ UNCHANGED <<spawned, received, dropped>>

(* startBufferFlusher: every 100 ms the ticker goroutine calls            *)
(* flushBuffer synchronously, so it takes no new slice while its own POST  *)
(* is pending; on an empty buffer the call returns at once.                *)
TickerFlush ==
    /\ \A b \in inflight : b.by # "ticker"
    /\ \/ TakeBuffer("ticker")
       \/ buffer = <<>> /\ UNCHANGED <<buffer, inflight>>
    /\ UNCHANGED <<spawned, received, dropped>>

(* flushBuffer, second half, without any lock: POST /acm/calls/batch.      *)
(* A transport error or a non-2xx answer is only logged: the slice is      *)
(* gone.  Concurrent POSTs reach LumaDB in any order.                      *)
FlushPost(b) ==
    /\ inflight' = inflight \ {b}
    /\ \/ /\ received' = received \o b.batch
          /\ UNCHANGED dropped
       \/ /\ dropped' = dropped \cup ToSet(b.batch)
          /\ UNCHANGED received
    /\ UNCHANGED <<spawned, buffer>>

FlushNext ==
    /\ \/ FlushGoroutine
       \/ TickerFlush
       \/ \E b \in inflight : FlushPost(b)
    /\ UNCHANGED <<sbcVars, handlers, activeCalls, accepted, dispatchVars>>

-----------------------------------------------------------------------------
(* handleDisconnect: for each call id in order, disconnectCall.            *)
ReceiveDisconnect(d, ids) ==
    /\ dispatch[d].pc = "idle"
    /\ dreqs < MaxDisconnectRequests
    /\ dispatch' = [dispatch EXCEPT ![d].pc = "lookup", ![d].todo = ids]
    /\ dreqs' = dreqs + 1
    /\ UNCHANGED <<dialog, outbox, handlers, activeCalls>>

(* End of one disconnectCall: go on with the next id, or answer.           *)
NextCallId(d) ==
    [dispatch EXCEPT
        ![d].todo = Tail(dispatch[d].todo),
        ![d].pc   = IF Tail(dispatch[d].todo) = <<>> THEN "idle" ELSE "lookup"]

(* disconnectCall, under RLock: a call that is not in activeCalls is       *)
(* reported "call not found or already ended" without contacting the SBC.  *)
DisconnectLookup(d) ==
    LET c == Head(dispatch[d].todo) IN
    /\ dispatch[d].pc = "lookup"
    /\ dispatch' = IF activeCalls[c] = None
                   THEN NextCallId(d)
                   ELSE [dispatch EXCEPT ![d].pc = "rpc"]
    /\ UNCHANGED <<dreqs, dialog, outbox, handlers, activeCalls>>

(* disconnectCall, lock released: JSON-RPC dlg.end_dlg to the SBC.  When   *)
(* the SBC ends a live dialog it reports the "disconnected" event.         *)
DisconnectRpc(d) ==
    LET c == Head(dispatch[d].todo) IN
    /\ dispatch[d].pc = "rpc"
    /\ \E r \in Outcomes :
          /\ dispatch' = [dispatch EXCEPT ![d].pc = "reply", ![d].reply = r]
          /\ IF r \in {"ok", "late"} /\ dialog[c] \in Live
             THEN /\ dialog' = [dialog EXCEPT ![c] = "ended"]
                  /\ Report([call |-> c, status |-> "disconnected"])
             ELSE UNCHANGED <<dialog, outbox, handlers>>
    /\ UNCHANGED <<dreqs, activeCalls>>

(* disconnectCall, answer: on HTTP 200 success and delete under mu,       *)
(* whatever the body says; anything else is success=false.                 *)
DisconnectReply(d) ==
    LET c == Head(dispatch[d].todo) IN
    /\ dispatch[d].pc = "reply"
    /\ dispatch' = NextCallId(d)
    /\ IF dispatch[d].reply \in HttpOK
       THEN activeCalls' = [activeCalls EXCEPT ![c] = None]
       ELSE UNCHANGED activeCalls
    /\ UNCHANGED <<dreqs, dialog, outbox, handlers>>

(* One step of the goroutine serving disconnect request d.                *)
DispatcherStep(d) ==
    /\ DisconnectLookup(d) \/ DisconnectRpc(d) \/ DisconnectReply(d)
    /\ UNCHANGED <<buffer, accepted, flushVars>>

DispatchNext ==
    \/ /\ \E d \in Dispatchers, ids \in DisconnectLists : ReceiveDisconnect(d, ids)
       /\ UNCHANGED <<buffer, accepted, flushVars>>
    \/ \E d \in Dispatchers : DispatcherStep(d)

-----------------------------------------------------------------------------
Next ==
    \/ SbcNext
    \/ HandlerNext
    \/ FlushNext
    \/ DispatchNext

(* Goroutines run: handlers, flush goroutines, the ticker (every 100 ms)   *)
(* and POSTs (bounded by the 5 s http.Client timeout) make progress.  The  *)
(* SBC and the clients of /fraud/disconnect are not obliged to act.        *)
Fairness ==
    /\ WF_vars(HandlerNext)
    /\ WF_vars(FlushGoroutine /\ UNCHANGED <<sbcVars, handlers, activeCalls,
                                              accepted, dispatchVars>>)
    /\ WF_vars(TickerFlush /\ UNCHANGED <<sbcVars, handlers, activeCalls,
                                           accepted, dispatchVars>>)
    /\ WF_vars(\E b \in inflight :
                  FlushPost(b) /\ UNCHANGED <<sbcVars, handlers, activeCalls,
                                              accepted, dispatchVars>>)
    /\ \A d \in Dispatchers : WF_vars(DispatcherStep(d))

Spec == Init /\ [][Next]_vars /\ Fairness

-----------------------------------------------------------------------------
(* Properties *)

Ordinal == [ringing |-> 1, active |-> 2, completed |-> 3, disconnected |-> 3]

InFlightEvents == UNION {ToSet(b.batch) : b \in inflight}

HandedOver == ToSet(received) \cup dropped

(* Buffer conservation.  handleCallEvent, handleCallEventBatch and the      *)
(* flushBuffer goroutines touch callEventsBuffer concurrently; every event *)
(* a handler appended is, at every moment, in exactly one place: still in  *)
(* the buffer, in the slice of exactly one pending POST, delivered to      *)
(* LumaDB once, or lost with a failed POST.  Nothing is sent twice and     *)
(* nothing disappears while it is being swapped out of the buffer.         *)
BufferConservation ==
    /\ accepted = ToSet(buffer) \cup InFlightEvents \cup HandedOver
    /\ Len(buffer) + MapThenSumSet(LAMBDA b : Len(b.batch), inflight)
         + Len(received) + Cardinality(dropped) = Cardinality(accepted)

(* No event stays behind.  Every event appended to callEventsBuffer is     *)
(* eventually handed to a POST /acm/calls/batch that completes (delivered  *)
(* or failed), however few events arrive: the 100 ms ticker flushes what   *)
(* the size trigger leaves.                                                *)
EventuallyHandedOver ==
    \A e \in Event : e \in accepted ~> e \in HandedOver

(* Spec 4.1: the buffer preserves the relative order of events of one      *)
(* call id: LumaDB receives ringing before active before the end of the    *)
(* call.  Handlers and flush goroutines of the code run concurrently.      *)
PerCallOrder ==
    \A i, j \in 1..Len(received) :
        (i < j /\ received[i].call = received[j].call)
            => Ordinal[received[i].status] < Ordinal[received[j].status]

=============================================================================
