------------------------------- MODULE EventBus -------------------------------
(***************************************************************************)
(* EventBus of events/bus.rs: emit records the event in the metrics, sends *)
(* it on a broadcast channel of limited capacity and then awaits the       *)
(* interested handlers one after another, by priority, each under a        *)
(* timeout.  Tasks that emit at the same time interleave at every await.   *)
(* The event types, the two handlers of handler.rs and the EventFilter of  *)
(* metrics.rs are in the second half.                                      *)
(***************************************************************************)
EXTENDS Integers, Sequences, FiniteSets

CONSTANTS Emitters,   \* the tasks that emit
          Capacity,   \* channel_capacity
          Emits       \* bound: events each emitter emits

ASSUME BusAssumption == IsFiniteSet(Emitters) /\ Capacity \in Nat /\ Emits \in Nat

EventTypes == {"HookStarted", "HookCompleted", "HookFailed", "HookSkipped", "HookProgress",
               "PipelineStarted", "PipelineCompleted", "FilesProcessed", "Custom"}

\* handler.rs: what each handler is interested in, and its priority.
Interested == [logging |-> EventTypes,
               metrics |-> {"HookCompleted", "HookFailed", "HookSkipped", "PipelineCompleted", "FilesProcessed"}]
Priority == [logging |-> 2, metrics |-> 3]
Handlers == DOMAIN Priority

VARIABLES registered,  \* the handlers, which are called by priority
          enabled,     \* config.enabled
          sent,        \* how many events each emitter has emitted
          event,       \* the event each emitter is emitting
          left,        \* the handlers it has still to call
          step,        \* "idle", "send" or "handle"
          metrics,     \* total_events and events_by_type
          channel,     \* everything sent on the channel, in order
          received,    \* what the subscriber has received
          seen,        \* how many of the channel's events it is past
          handled      \* what each handler was called with: emitter, event, number

busVars == <<registered, enabled, sent, event, left, step, metrics, channel, received, seen, handled>>

BusInit == /\ registered = {} /\ enabled = TRUE
           /\ sent = [m \in Emitters |-> 0] /\ event = [m \in Emitters |-> "none"]
           /\ left = [m \in Emitters |-> {}] /\ step = [m \in Emitters |-> "idle"]
           /\ metrics = [y \in EventTypes |-> 0] /\ channel = <<>> /\ received = <<>> /\ seen = 0
           /\ handled = [h \in Handlers |-> <<>>]

\* register_handler keeps its vector sorted by priority, the highest first; the
\* two handlers have different priorities, so which are in it gives the order.
RegisterHandler(h) ==
    /\ \A m \in Emitters : step[m] = "idle" /\ sent[m] = 0
    /\ h \notin registered
    /\ registered' = registered \cup {h}
    /\ UNCHANGED <<enabled, sent, event, left, step, metrics, channel, received, seen, handled>>

SetEnabled == /\ \A m \in Emitters : step[m] = "idle" /\ sent[m] = 0
              /\ enabled' = ~enabled
              /\ UNCHANGED <<registered, sent, event, left, step, metrics, channel, received, seen, handled>>

\* emit, up to the metrics' lock.
Emit(m, y) ==
    /\ enabled /\ step[m] = "idle" /\ sent[m] < Emits
    /\ metrics' = [metrics EXCEPT ![y] = @ + 1]
    /\ event' = [event EXCEPT ![m] = y] /\ step' = [step EXCEPT ![m] = "send"]
    /\ sent' = [sent EXCEPT ![m] = @ + 1]
    /\ UNCHANGED <<registered, enabled, left, channel, received, seen, handled>>

\* The event an emitter is emitting, and its number among its events.
Emitted(m) == [by |-> m, n |-> sent[m], is |-> event[m]]

\* channel.send never waits, and an error (nobody listens) is only logged.
\* The handlers called next are the interested ones.
Send(m) ==
    /\ step[m] = "send"
    /\ channel' = Append(channel, Emitted(m))
    /\ left' = [left EXCEPT ![m] = {h \in registered : event[m] \in Interested[h]}]
    /\ step' = [step EXCEPT ![m] = "handle"]
    /\ UNCHANGED <<registered, enabled, sent, event, metrics, received, seen, handled>>

\* The first handler still to be called is awaited.  Its success, its error and
\* its timeout all end the same way: the next one is called, nothing is retried.
First(hs) == {h \in hs : \A g \in hs : Priority[g] <= Priority[h]}
CallHandler(m) ==
    /\ step[m] = "handle"
    /\ \E h \in First(left[m]) :
          /\ handled' = [handled EXCEPT ![h] = Append(@, Emitted(m))]
          /\ left' = [left EXCEPT ![m] = @ \ {h}]
    /\ UNCHANGED <<registered, enabled, sent, event, step, metrics, channel, received, seen>>

EmitReturns(m) == /\ step[m] = "handle" /\ left[m] = {}
             /\ step' = [step EXCEPT ![m] = "idle"]
             /\ UNCHANGED <<registered, enabled, sent, event, left, metrics, channel, received, seen, handled>>

\* The subscriber takes the next event, or learns that it lagged behind: the
\* channel keeps its last Capacity events only.
Receive ==
    /\ seen < Len(channel)
    /\ IF Len(channel) - seen > Capacity
       THEN seen' = Len(channel) - Capacity /\ UNCHANGED received
       ELSE seen' = seen + 1 /\ received' = Append(received, channel[seen + 1])
    /\ UNCHANGED <<registered, enabled, sent, event, left, step, metrics, channel, handled>>

BusStep(m) == Send(m) \/ CallHandler(m) \/ EmitReturns(m)
\* The bounds of the run: event types that tell the two handlers apart.
EmittedTypes == {"HookStarted", "HookCompleted"}
BusNext == \/ \E h \in Handlers : RegisterHandler(h)
           \/ SetEnabled
           \/ \E m \in Emitters : (\E y \in EmittedTypes : Emit(m, y)) \/ BusStep(m)
           \/ Receive

-----------------------------------------------------------------------------
Position(s, e) == {i \in DOMAIN s : s[i] = e}
\* Whoever emitted them, one emitter's events are there in their order.
InOrder(s) == \A i, j \in DOMAIN s : i < j /\ s[i].by = s[j].by => s[i].n < s[j].n

\* Everything emitted is counted once under its type, and is on the channel
\* once unless its emitter is about to send it.
EmittedOnce ==
    /\ \A y \in EventTypes :
          metrics[y] = Cardinality({i \in DOMAIN channel : channel[i].is = y})
                       + Cardinality({m \in Emitters : step[m] = "send" /\ event[m] = y})
    /\ \A m \in Emitters :
          sent[m] = Cardinality({i \in DOMAIN channel : channel[i].by = m}) + (IF step[m] = "send" THEN 1 ELSE 0)

\* When an emit has returned, each registered handler that is interested was
\* called with the event exactly once, and no other was.
HandledOnce ==
    \A i \in DOMAIN channel : step[channel[i].by] = "idle" =>
        \A h \in Handlers :
            Cardinality(Position(handled[h], channel[i]))
                = IF h \in registered /\ channel[i].is \in Interested[h] THEN 1 ELSE 0

\* A handler sees one emitter's events in the order of their emission, as
\* does the subscriber, which misses events only when more than Capacity were
\* waiting.  The metrics handler is called before the logging handler.
Ordered ==
    /\ \A h \in Handlers : InOrder(handled[h])
    /\ InOrder(received)
    /\ Len(channel) <= Capacity => Len(received) = seen
    /\ \A i \in DOMAIN handled["logging"] : LET e == handled["logging"][i] IN
          "metrics" \in registered /\ e.is \in Interested["metrics"] => Position(handled["metrics"], e) # {}

\* Delivery: everything emitted arrives, once and in order.
EventsDelivered == EmittedOnce /\ HandledOnce /\ Ordered

-----------------------------------------------------------------------------
(* MetricsEventHandler: what a handled event adds to the collector.        *)
MetricsOf(e) ==
    CASE e = "HookCompleted" -> {"duration", "hooks_completed"}
      [] e = "HookFailed" -> {"duration", "hooks_failed"}
      [] e = "HookSkipped" -> {"hooks_skipped"}
      [] e = "PipelineCompleted" -> {"pipeline", "pipeline_success_rate"}
      [] e = "FilesProcessed" -> {"files_processed"}
      [] OTHER -> {}

(* EventFilter: f.types and f.hooks are empty when they do not filter, the *)
(* others are options; an event has a type, a hook, a stage and a duration *)
(* where its type has one.                                                 *)
ShouldEmit(f, e) ==
    /\ f.types # {} => e.type \in f.types
    /\ f.hooks # {} => e.hook \in f.hooks
    /\ f.stage # <<>> /\ e.type \in {"HookStarted", "PipelineStarted", "PipelineCompleted"} => e.stage = f.stage[1]
    /\ f.min # <<>> /\ e.type \in {"HookCompleted", "HookFailed"} => e.duration >= f.min[1]

\* Every event type the metrics handler is interested in adds something, and
\* no other does; a filter with more in it never lets more through.
MetricsAndFilters ==
    /\ \A e \in EventTypes : e \in Interested["metrics"] <=> MetricsOf(e) # {}
    /\ \A type \in EventTypes, hook \in {"h1", "h2", "none"}, d \in 0..1, types \in SUBSET EmittedTypes,
          hooks \in SUBSET {"h1", "h2"}, min \in {<<>>, <<1>>}, stage \in {<<>>, <<"manual">>} :
          LET e == [type |-> type, hook |-> hook, stage |-> "pre-commit", duration |-> d]
              f == [types |-> types, hooks |-> hooks, min |-> min, stage |-> stage]
          IN ShouldEmit(f, e) =>
                /\ ShouldEmit([f EXCEPT !.types = {}], e) /\ ShouldEmit([f EXCEPT !.min = <<>>], e)
                /\ hooks # {} => hook # "none"

=============================================================================
