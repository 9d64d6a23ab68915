--------------------------- MODULE DeliveriesProofs ---------------------------
(***************************************************************************)
(* Proofs about Deliveries, for any number of delivery IDs, request        *)
(* threads and crashes.                                                    *)
(***************************************************************************)
EXTENDS Deliveries, TLAPS

\* A busy handler's record is "processing" and not given up: record_delivery set
\* it, and nothing but this handler ends it before STUCK_DELIVERY_SECONDS.
HandledIsProcessing ==
  \A h \in Handlers : Busy(h) => /\ record[handler[h].id].status = "processing"
                                 /\ ~record[handler[h].id].stuck

Inv == TypeOK /\ HandledIsProcessing /\ OneHandlerPerDelivery

-----------------------------------------------------------------------------
\* A thread that is not idle handles a delivery.
LEMMA BusyType ==
  ASSUME TypeOK, NEW h \in Handlers, Busy(h)
  PROVE  handler[h] \in [step: Step, id: Ids, event: Events]
BY DEF TypeOK, Handler, Busy, Idle

\* Moving to a next step keeps the types: the delivery stays the same.
LEMMA GotoType ==
  ASSUME TypeOK, NEW h \in Handlers, Busy(h), NEW step \in Step, Goto(h, step)
  PROVE  handler' \in [Handlers -> Handler]
<1>1. handler[h] \in [step: Step, id: Ids, event: Events]
  BY BusyType
<1>2. [handler[h] EXCEPT !.step = step] \in [step: Step, id: Ids, event: Events]
  BY <1>1
<1>. QED
  BY <1>2 DEF TypeOK, Goto, Handler

\* Ending a request keeps the types.
LEMMA StopType ==
  ASSUME TypeOK, NEW h \in Handlers, Stop(h)
  PROVE  handler' \in [Handlers -> Handler]
BY DEF TypeOK, Stop, Handler

\* Writing a status of a record keeps the types.
LEMMA SetStatusType ==
  ASSUME TypeOK, NEW d \in Ids, NEW st \in {"processed", "ignored", "failed"},
         SetStatus(d, st)
  PROVE  record' \in [Ids -> Record]
BY DEF TypeOK, SetStatus, Record

\* The handler of an event starts with one of the steps.
LEMMA FirstStepType ==
  ASSUME NEW e \in Events
  PROVE  FirstStep(e) \in Step
BY EventsAssumption DEF FirstStep, Step, PullRequestEvents, BranchEvents, MergeGroupEvents

\* The group of an event.
LEMMA GroupOfType ==
  ASSUME NEW e \in Events
  PROVE  GroupOfEvent(e) \in Groups
BY EventsAssumption DEF GroupOfEvent, Groups, PullRequestEvents, BranchEvents, MergeGroupEvents

-----------------------------------------------------------------------------
\* Types: every step of the handlers and of the maintenance thread keeps them.
LEMMA TypeStep ==
  ASSUME TypeOK, [Next]_vars
  PROVE  TypeOK'
<1>1. ASSUME NEW h \in Handlers, Enqueue(h) PROVE TypeOK'
  <2>1. Busy(h)
    BY <1>1 DEF Enqueue, Busy, Idle
  <2>2. handler[h].event \in Events
    BY <2>1, BusyType
  <2>3. Group(h) \in Groups
    BY <2>2, GroupOfType DEF Group
  <2>4. handler' \in [Handlers -> Handler]
    BY <1>1, <2>1, GotoType DEF Enqueue, Step
  <2>. QED
    BY <1>1, <2>3, <2>4 DEF Enqueue, TypeOK
<1>2. ASSUME NEW h \in Handlers, Request(h) PROVE TypeOK'
  <2>1. Busy(h)
    BY <1>2 DEF Request, Busy, Idle
  <2>2. handler' \in [Handlers -> Handler]
    BY <1>2, <2>1, GotoType DEF Request, Step
  <2>. QED
    BY <1>2, <2>2 DEF Request, TypeOK
<1>3. ASSUME NEW h \in Handlers, LinkJob(h) PROVE TypeOK'
  <2>1. Busy(h)
    BY <1>3 DEF LinkJob, Busy, Idle
  <2>2. handler' \in [Handlers -> Handler]
    BY <1>3, <2>1, GotoType DEF LinkJob, Step
  <2>. QED
    BY <1>3, <2>2 DEF LinkJob, TypeOK
<1>4. ASSUME NEW h \in Handlers, Destroy(h) PROVE TypeOK'
  <2>1. Busy(h)
    BY <1>4 DEF Destroy, Busy, Idle
  <2>2. handler' \in [Handlers -> Handler]
    BY <1>4, <2>1, GotoType DEF Destroy, Step
  <2>. QED
    BY <1>4, <2>2 DEF Destroy, TypeOK
<1>5. ASSUME NEW h \in Handlers, Cancel(h) PROVE TypeOK'
  <2>1. Busy(h)
    BY <1>5 DEF Cancel, Busy, Idle
  <2>2. Group(h) \in Groups
    BY <2>1, BusyType, GroupOfType DEF Group
  <2>3. handler' \in [Handlers -> Handler]
    BY <1>5, <2>1, GotoType DEF Cancel, Step
  <2>. QED
    BY <1>5, <2>2, <2>3 DEF Cancel, TypeOK
<1>6. ASSUME NEW h \in Handlers, EndExposures(h) PROVE TypeOK'
  <2>1. Busy(h)
    BY <1>6 DEF EndExposures, Busy, Idle
  <2>2. Group(h) \in Groups
    BY <2>1, BusyType, GroupOfType DEF Group
  <2>3. handler' \in [Handlers -> Handler]
    BY <1>6, <2>1, GotoType DEF EndExposures, Step
  <2>. QED
    BY <1>6, <2>2, <2>3 DEF EndExposures, TypeOK
<1>7. ASSUME NEW h \in Handlers, Finish(h) PROVE TypeOK'
  <2>1. Busy(h)
    BY <1>7 DEF Finish, Busy, Idle
  <2>2. handler[h].id \in Ids
    BY <2>1, BusyType
  <2>. QED
    BY <1>7, <2>2, SetStatusType, StopType DEF Finish, TypeOK
<1>8. ASSUME NEW h \in Handlers, HandlerFails(h) PROVE TypeOK'
  <2>1. handler[h].id \in Ids
    BY <1>8, BusyType DEF HandlerFails
  <2>. QED
    BY <1>8, <2>1, SetStatusType, StopType DEF HandlerFails, TypeOK
<1>9. ASSUME NEW h \in Handlers, FinishFails(h) PROVE TypeOK'
  BY <1>9, StopType DEF FinishFails, TypeOK
<1>10. ASSUME NEW h \in Handlers, NEW d \in Ids, NEW e \in Events, Receive(h, d, e)
       PROVE  TypeOK'
  <2>1. FirstStep(e) \in Step
    BY FirstStepType
  <2>. QED
    BY <1>10, <2>1 DEF Receive, TypeOK, Record, Handler
<1>11. ASSUME NEW d \in Ids, Age(d) \/ FailStuck(d) PROVE TypeOK'
  BY <1>11, SetStatusType DEF Age, FailStuck, TypeOK, Record
<1>12. ASSUME NEW g \in Groups, JobDone(g) PROVE TypeOK'
  BY <1>12 DEF JobDone, TypeOK
<1>13. CASE Crash
  BY <1>13, EventsAssumption DEF Crash, TypeOK, Handler
<1>14. CASE UNCHANGED vars
  BY <1>14 DEF vars, TypeOK
<1>. QED
  BY <1>1, <1>2, <1>3, <1>4, <1>5, <1>6, <1>7, <1>8, <1>9, <1>10, <1>11, <1>12, <1>13, <1>14
  DEF Next, HandlerStep

\* Types hold initially.
LEMMA TypeInit == Init => TypeOK
BY EventsAssumption DEF Init, TypeOK, None, Record, Handler

\* Type correctness of event records, handlers and groups.
THEOREM TypeCorrect == Spec => []TypeOK
BY TypeInit, TypeStep, PTL DEF Spec
-----------------------------------------------------------------------------
\* The writes to the records leave every other delivery alone.
LEMMA SetStatusOther ==
  ASSUME TypeOK, NEW d \in Ids, NEW st, SetStatus(d, st)
  PROVE  \A c \in Ids \ {d} : record'[c] = record[c]
BY DEF TypeOK, SetStatus

\* A step of a handler leaves the delivery of every thread alone, or ends it.
LEMMA GotoSame ==
  ASSUME TypeOK, NEW h \in Handlers, Busy(h), NEW step \in Step, Goto(h, step)
  PROVE  /\ \A g \in Handlers : g # h => handler'[g] = handler[g]
         /\ handler'[h].id = handler[h].id
<1>1. handler[h] \in [step: Step, id: Ids, event: Events]
  BY BusyType
<1>2. handler'[h] = [handler[h] EXCEPT !.step = step]
  BY DEF TypeOK, Goto
<1>. QED
  BY <1>1, <1>2 DEF TypeOK, Goto

\* A handler that only moves on, and writes no record, keeps the invariant.
LEMMA GotoInv ==
  ASSUME Inv, TypeOK', NEW h \in Handlers, Busy(h), NEW step \in Step, Goto(h, step),
         UNCHANGED record
  PROVE  Inv'
<1>1. \A g \in Handlers : Busy(g)' => Busy(g) /\ handler'[g].id = handler[g].id
  BY GotoSame DEF Inv, Busy, Idle
<1>. QED
  BY <1>1 DEF Inv, HandledIsProcessing, OneHandlerPerDelivery

\* A handler that ends, having written at most the record of its own delivery,
\* keeps the invariant: no other thread handles that delivery.
LEMMA StopInv ==
  ASSUME Inv, TypeOK', NEW h \in Handlers, Busy(h), Stop(h),
         \A c \in Ids : c # handler[h].id => record'[c] = record[c]
  PROVE  Inv'
<1>1. \A g \in Handlers : Busy(g)' => g # h /\ Busy(g) /\ handler'[g] = handler[g]
  BY DEF Inv, TypeOK, Stop, Busy, Idle
<1>2. \A g \in Handlers : Busy(g)' => handler[g].id \in Ids /\ handler[g].id # handler[h].id
  BY <1>1, BusyType DEF Inv, OneHandlerPerDelivery
<1>3. HandledIsProcessing'
  BY <1>1, <1>2 DEF Inv, HandledIsProcessing
<1>4. OneHandlerPerDelivery'
  BY <1>1 DEF Inv, OneHandlerPerDelivery
<1>. QED
  BY <1>3, <1>4 DEF Inv

\* A record no thread handles may change without disturbing the invariant.
LEMMA UnhandledInv ==
  ASSUME Inv, TypeOK', NEW d \in Ids, \A h \in Handlers : ~Handles(h, d),
         UNCHANGED handler, \A c \in Ids \ {d} : record'[c] = record[c]
  PROVE  Inv'
<1>1. \A h \in Handlers : Busy(h) => handler[h].id \in Ids \ {d}
  BY BusyType DEF Inv, Handles
<1>. QED
  BY <1>1 DEF Inv, HandledIsProcessing, OneHandlerPerDelivery, Busy, Idle

\* No handler holds a delivery that is not processing, or is stuck.
LEMMA Unhandled ==
  ASSUME Inv, NEW d \in Ids, record[d].status # "processing" \/ record[d].stuck
  PROVE  \A h \in Handlers : ~Handles(h, d)
BY DEF Inv, HandledIsProcessing, Handles

\* Every step keeps the invariant.
LEMMA InvStep ==
  ASSUME Inv, [Next]_vars
  PROVE  Inv'
<1>0. TypeOK /\ TypeOK'
  BY TypeStep DEF Inv
<1>1. ASSUME NEW h \in Handlers, Enqueue(h) PROVE Inv'
  BY <1>0, <1>1, GotoInv DEF Enqueue, Busy, Idle, Step
<1>2. ASSUME NEW h \in Handlers, Request(h) PROVE Inv'
  BY <1>0, <1>2, GotoInv DEF Request, Busy, Idle, Step
<1>3. ASSUME NEW h \in Handlers, LinkJob(h) PROVE Inv'
  BY <1>0, <1>3, GotoInv DEF LinkJob, Busy, Idle, Step
<1>4. ASSUME NEW h \in Handlers, Destroy(h) PROVE Inv'
  BY <1>0, <1>4, GotoInv DEF Destroy, Busy, Idle, Step
<1>5. ASSUME NEW h \in Handlers, Cancel(h) PROVE Inv'
  BY <1>0, <1>5, GotoInv DEF Cancel, Busy, Idle, Step
<1>6. ASSUME NEW h \in Handlers, EndExposures(h) PROVE Inv'
  BY <1>0, <1>6, GotoInv DEF EndExposures, Busy, Idle, Step
<1>7. ASSUME NEW h \in Handlers, Finish(h) PROVE Inv'
  <2>1. Busy(h)
    BY <1>7 DEF Finish, Busy, Idle
  <2>2. handler[h].id \in Ids
    BY <1>0, <2>1, BusyType
  <2>3. \A c \in Ids : c # handler[h].id => record'[c] = record[c]
    BY <1>0, <1>7, <2>2, SetStatusOther DEF Finish
  <2>. QED
    BY <1>0, <1>7, <2>1, <2>3, StopInv DEF Finish
<1>8. ASSUME NEW h \in Handlers, HandlerFails(h) PROVE Inv'
  <2>1. Busy(h) /\ handler[h].id \in Ids
    BY <1>0, <1>8, BusyType DEF HandlerFails
  <2>2. \A c \in Ids : c # handler[h].id => record'[c] = record[c]
    BY <1>0, <1>8, <2>1, SetStatusOther DEF HandlerFails
  <2>. QED
    BY <1>0, <1>8, <2>1, <2>2, StopInv DEF HandlerFails
<1>9. ASSUME NEW h \in Handlers, FinishFails(h) PROVE Inv'
  BY <1>0, <1>9, StopInv DEF FinishFails
<1>10. ASSUME NEW h \in Handlers, NEW d \in Ids, NEW e \in Events, Receive(h, d, e)
       PROVE  Inv'
  <2>1. \A g \in Handlers : ~Handles(g, d)
    BY <1>10, Unhandled DEF Receive, MayProcess
  <2>2. /\ handler'[h].id = d
        /\ \A g \in Handlers : g # h => handler'[g] = handler[g]
    BY <1>0, <1>10 DEF Receive, TypeOK
  <2>3. /\ record'[d].status = "processing" /\ ~record'[d].stuck
        /\ \A c \in Ids \ {d} : record'[c] = record[c]
    BY <1>0, <1>10 DEF Receive, TypeOK
  <2>4. \A g \in Handlers : g # h /\ Busy(g)' => Busy(g) /\ handler[g].id \in Ids \ {d}
    BY <1>0, <2>1, <2>2, BusyType DEF Handles, Busy, Idle
  <2>5. HandledIsProcessing'
    BY <2>2, <2>3, <2>4 DEF Inv, HandledIsProcessing
  <2>6. OneHandlerPerDelivery'
    BY <2>2, <2>4 DEF Inv, OneHandlerPerDelivery
  <2>. QED
    BY <1>0, <2>5, <2>6 DEF Inv
<1>11. ASSUME NEW d \in Ids, Age(d) PROVE Inv'
  <2>1. \A c \in Ids \ {d} : record'[c] = record[c]
    BY <1>0, <1>11 DEF Age, TypeOK
  <2>. QED
    BY <1>0, <1>11, <2>1, UnhandledInv DEF Age
<1>12. ASSUME NEW d \in Ids, FailStuck(d) PROVE Inv'
  <2>1. \A c \in Ids \ {d} : record'[c] = record[c]
    BY <1>0, <1>12, SetStatusOther DEF FailStuck
  <2>2. \A h \in Handlers : ~Handles(h, d)
    BY <1>12, Unhandled DEF FailStuck
  <2>. QED
    BY <1>0, <1>12, <2>1, <2>2, UnhandledInv DEF FailStuck
<1>13. ASSUME NEW g \in Groups, JobDone(g) PROVE Inv'
  BY <1>0, <1>13 DEF JobDone, Inv, HandledIsProcessing, OneHandlerPerDelivery, Busy, Idle
<1>14. CASE Crash
  BY <1>0, <1>14 DEF Crash, Inv, HandledIsProcessing, OneHandlerPerDelivery, Busy, Idle
<1>15. CASE UNCHANGED vars
  BY <1>0, <1>15 DEF vars, Inv, HandledIsProcessing, OneHandlerPerDelivery, Busy, Idle
<1>. QED
  BY <1>1, <1>2, <1>3, <1>4, <1>5, <1>6, <1>7, <1>8, <1>9, <1>10, <1>11, <1>12, <1>13,
     <1>14, <1>15
  DEF Next, HandlerStep

\* The invariant holds initially: no thread is busy.
LEMMA InvInit == Init => Inv
BY TypeInit DEF Init, Inv, HandledIsProcessing, OneHandlerPerDelivery, Busy, Idle

\* The inductive invariant.
THEOREM Invariance == Spec => []Inv
BY InvInit, InvStep, PTL DEF Spec

\* A delivery is handled by one request at a time, whatever is delivered again and
\* whatever fails or crashes (record_delivery).
THEOREM OneHandler == Spec => []OneHandlerPerDelivery
<1>1. Inv => OneHandlerPerDelivery
  BY DEF Inv
<1>. QED
  BY <1>1, Invariance, PTL

-----------------------------------------------------------------------------
\* Success is final: no step changes the record of a processed delivery.
LEMMA ProcessedStep ==
  ASSUME Inv, [Next]_vars, NEW d \in Ids, record[d].status = "processed"
  PROVE  record'[d] = record[d]
<1>0. TypeOK
  BY DEF Inv
<1>1. \A h \in Handlers : Busy(h) => handler[h].id \in Ids \ {d}
  BY <1>0, Unhandled, BusyType DEF Handles
<1>2. ASSUME NEW h \in Handlers, Finish(h) PROVE record'[d] = record[d]
  <2>1. handler[h].id \in Ids \ {d}
    BY <1>1, <1>2 DEF Finish, Busy, Idle
  <2>. QED
    BY <1>0, <1>2, <2>1, SetStatusOther DEF Finish
<1>3. ASSUME NEW h \in Handlers, HandlerFails(h) PROVE record'[d] = record[d]
  BY <1>0, <1>1, <1>3, SetStatusOther DEF HandlerFails
<1>4. ASSUME NEW h \in Handlers, NEW c \in Ids, NEW e \in Events, Receive(h, c, e)
      PROVE  record'[d] = record[d]
  BY <1>0, <1>4 DEF Receive, MayProcess, TypeOK
<1>5. ASSUME NEW c \in Ids, Age(c) \/ FailStuck(c) PROVE record'[d] = record[d]
  BY <1>0, <1>5, SetStatusOther DEF Age, FailStuck, TypeOK
<1>. QED
  BY <1>2, <1>3, <1>4, <1>5
  DEF Next, HandlerStep, vars, Enqueue, Request, LinkJob, Destroy, Cancel, EndExposures,
      FinishFails, JobDone, Crash

\* A processed delivery is never processed again, whoever delivers it again and
\* whatever fails (record_delivery, finish_delivery, fail_stuck_deliveries).
THEOREM ProcessedIsFinal == Spec => ProcessedStays
<1>1. Inv /\ [Next]_vars =>
        [\A d \in Ids : record[d].status = "processed" => record'[d] = record[d]]_vars
  BY ProcessedStep
<1>. QED
  BY <1>1, Invariance, PTL DEF Spec, ProcessedStays
-----------------------------------------------------------------------------
(* Events are not lost.                                                    *)

\* The steps a handler of a pull request or branch event may be at; it is about to
\* finish only when the effect of the event is stored.
Fits(e, step) ==
  /\ step \notin {"request", "link", "destroy"}
  /\ step = "enqueue" => e \in {"opened", "pushed"}
  /\ step \in {"cancel", "end"} => e \in {"closed", "merged", "deleted"}
  /\ step \in {"finish", "duplicate"} => Done(e)

\* A busy thread handles the event its record is about, and is where that event takes it.
Placed(h) ==
  /\ handler[h].event = record[handler[h].id].event
  /\ handler[h].event \notin MergeGroupEvents => Fits(handler[h].event, handler[h].step)

HandlersArePlaced == \A h \in Handlers : Busy(h) => Placed(h)

\* Also while handlers of other deliveries are busy.
HandledIsDone ==
  \A d \in Ids : record[d].status \in {"processed", "ignored"} =>
    /\ record[d].event \in Events
    /\ record[d].event \notin MergeGroupEvents => Done(record[d].event)

\* No effect of an event is taken back.
EffectsStay ==
  \A g \in Groups : (job[g] # "none" => job'[g] # "none") /\ (ended[g] => ended'[g])

\* No step of a handler, a worker or the maintenance thread removes a job or an end.
LEMMA EffectsStayStep ==
  ASSUME TypeOK, [Next]_vars
  PROVE  EffectsStay
<1>1. ASSUME NEW h \in Handlers, Enqueue(h) PROVE EffectsStay
  BY <1>1 DEF Enqueue, EffectsStay, TypeOK
<1>2. ASSUME NEW h \in Handlers, Cancel(h) PROVE EffectsStay
  BY <1>2 DEF Cancel, EffectsStay, TypeOK
<1>3. ASSUME NEW h \in Handlers, EndExposures(h) PROVE EffectsStay
  BY <1>3 DEF EndExposures, EffectsStay, TypeOK
<1>4. ASSUME NEW g \in Groups, JobDone(g) PROVE EffectsStay
  BY <1>4 DEF JobDone, EffectsStay, TypeOK
<1>. QED
  BY <1>1, <1>2, <1>3, <1>4
  DEF Next, HandlerStep, vars, EffectsStay, Receive, Request, LinkJob, Destroy, Finish,
      HandlerFails, FinishFails, Age, FailStuck, Crash

\* What an event was sent for stays done.
LEMMA DoneStays ==
  ASSUME EffectsStay, NEW e \in Events, Done(e)
  PROVE  Done(e)'
<1>1. GroupOfEvent(e) \in Groups
  BY GroupOfType
<1>2. CASE e \in {"opened", "pushed", "requested"}
  BY <1>1, <1>2 DEF EffectsStay, Done
<1>3. CASE e \in {"closed", "merged", "deleted", "destroyed"}
  BY <1>1, <1>3 DEF EffectsStay, Done
<1>. QED
  BY <1>2, <1>3, EventsAssumption DEF PullRequestEvents, BranchEvents, MergeGroupEvents

\* A thread that is where it was, with a record about the same event, stays placed.
LEMMA StaysPlaced ==
  ASSUME TypeOK, EffectsStay, NEW h \in Handlers, Busy(h), Placed(h),
         handler'[h] = handler[h],
         record'[handler[h].id].event = record[handler[h].id].event
  PROVE  Placed(h)'
<1>1. handler[h].event \in Events
  BY BusyType
<1>2. Done(handler[h].event) => Done(handler[h].event)'
  BY <1>1, DoneStays
<1>. QED
  BY <1>2 DEF Placed, Fits

\* A handler that moves on to a step that fits its event keeps all threads placed.
LEMMA GotoPlaced ==
  ASSUME TypeOK, HandlersArePlaced, EffectsStay, NEW h \in Handlers, Busy(h),
         NEW step \in Step, Goto(h, step), UNCHANGED record,
         \A e \in Events \ MergeGroupEvents : e = handler[h].event => Fits(e, step)'
  PROVE  HandlersArePlaced'
<1>1. ASSUME NEW g \in Handlers, Busy(g)', g # h PROVE Placed(g)'
  <2>1. handler'[g] = handler[g]
    BY <1>1, GotoSame
  <2>2. Busy(g)
    BY <1>1, <2>1 DEF Busy, Idle
  <2>3. record'[handler[g].id].event = record[handler[g].id].event
    OBVIOUS
  <2>. QED
    BY <2>1, <2>2, <2>3, StaysPlaced DEF HandlersArePlaced
<1>2. Placed(h)'
  <2>1. handler[h] \in [step: Step, id: Ids, event: Events]
    BY BusyType
  <2>2. handler'[h] = [handler[h] EXCEPT !.step = step]
    BY DEF TypeOK, Goto
  <2>3. handler'[h].event = handler[h].event /\ handler'[h].id = handler[h].id
        /\ handler'[h].step = step
    BY <2>1, <2>2
  <2>4. handler[h].event = record[handler[h].id].event /\ handler[h].event \in Events
    BY <2>1 DEF HandlersArePlaced, Placed
  <2>5. ASSUME NEW e \in Events \ MergeGroupEvents, e = handler[h].event
        PROVE  Fits(e, step)'
    BY <2>5
  <2>. QED
    BY <2>3, <2>4, <2>5 DEF Placed, Fits
<1>. QED
  BY <1>1, <1>2 DEF HandlersArePlaced

\* A handler that ends, having written at most the status of its own record, keeps
\* the other threads placed.
LEMMA StopPlaced ==
  ASSUME Inv, HandlersArePlaced, EffectsStay, NEW h \in Handlers, Busy(h), Stop(h),
         \A c \in Ids : c # handler[h].id => record'[c] = record[c]
  PROVE  HandlersArePlaced'
<1>1. ASSUME NEW g \in Handlers, Busy(g)' PROVE Placed(g)'
  <2>1. g # h /\ Busy(g) /\ handler'[g] = handler[g]
    BY <1>1 DEF Inv, TypeOK, Stop, Busy, Idle
  <2>2. handler[g].id \in Ids /\ handler[g].id # handler[h].id
    BY <2>1, BusyType DEF Inv, OneHandlerPerDelivery
  <2>. QED
    BY <2>1, <2>2, StaysPlaced DEF Inv, HandlersArePlaced
<1>. QED
  BY <1>1 DEF HandlersArePlaced

\* What no thread does, and what leaves the event of every record as it is.
LEMMA IdlePlaced ==
  ASSUME TypeOK, HandlersArePlaced, EffectsStay, UNCHANGED handler,
         \A d \in Ids : record'[d].event = record[d].event
  PROVE  HandlersArePlaced'
<1>1. ASSUME NEW g \in Handlers, Busy(g)' PROVE Placed(g)'
  <2>1. Busy(g) /\ handler[g].id \in Ids
    BY <1>1, BusyType DEF Busy, Idle
  <2>. QED
    BY <2>1, StaysPlaced DEF HandlersArePlaced
<1>. QED
  BY <1>1 DEF HandlersArePlaced

\* The first step of a handler fits its event.
LEMMA FirstStepFits ==
  ASSUME NEW e \in Events, e \notin MergeGroupEvents
  PROVE  Fits(e, FirstStep(e)) /\ FirstStep(e) \notin {"finish", "duplicate"}
BY EventsAssumption DEF Fits, FirstStep, PullRequestEvents, BranchEvents, MergeGroupEvents

\* Every step keeps all busy threads placed.
LEMMA PlacedStep ==
  ASSUME Inv, HandlersArePlaced, [Next]_vars
  PROVE  HandlersArePlaced'
<1>0. TypeOK /\ EffectsStay
  BY EffectsStayStep DEF Inv
<1>a. ASSUME NEW h \in Handlers, Busy(h)
      PROVE  /\ handler[h].event \in Events /\ handler[h].id \in Ids
             /\ Group(h) \in Groups
             /\ handler[h].event \notin MergeGroupEvents =>
                  Fits(handler[h].event, handler[h].step)
  BY <1>0, <1>a, BusyType, GroupOfType DEF HandlersArePlaced, Placed, Group
<1>1. ASSUME NEW h \in Handlers, Enqueue(h) PROVE HandlersArePlaced'
  <2>1. Busy(h)
    BY <1>1 DEF Enqueue, Busy, Idle
  <2>2. PICK step \in Step : Goto(h, step) /\ step \in {"link", "duplicate", "finish"}
          /\ (step = "link" => Group(h) = "mg")
    BY <1>1 DEF Enqueue, Step
  <2>3. ASSUME NEW e \in Events \ MergeGroupEvents, e = handler[h].event
        PROVE  Fits(e, step)'
    <3>1. e \in {"opened", "pushed"}
      BY <1>1, <1>a, <2>1, <2>3 DEF Enqueue, Fits
    <3>2. Group(h) = GroupOfEvent(e) /\ GroupOfEvent(e) # "mg"
      BY <2>3, <3>1 DEF Group, GroupOfEvent, PullRequestEvents, BranchEvents
    <3>3. job'[GroupOfEvent(e)] # "none"
      BY <1>0, <1>1, <1>a, <2>1, <3>2 DEF Enqueue, TypeOK
    <3>4. Done(e)'
      BY <3>1, <3>3 DEF Done
    <3>. QED
      BY <2>2, <3>2, <3>4 DEF Fits
  <2>. QED
    BY <1>0, <1>1, <2>1, <2>2, <2>3, GotoPlaced DEF Enqueue
<1>2. ASSUME NEW h \in Handlers, Request(h) PROVE HandlersArePlaced'
  <2>1. Busy(h) /\ handler[h].event \in MergeGroupEvents
    BY <1>2, <1>a DEF Request, Busy, Idle, Fits
  <2>. QED
    BY <1>0, <1>2, <2>1, GotoPlaced DEF Request, Step
<1>3. ASSUME NEW h \in Handlers, LinkJob(h) PROVE HandlersArePlaced'
  <2>1. Busy(h) /\ handler[h].event \in MergeGroupEvents
    BY <1>3, <1>a DEF LinkJob, Busy, Idle, Fits
  <2>. QED
    BY <1>0, <1>3, <2>1, GotoPlaced DEF LinkJob, Step
<1>4. ASSUME NEW h \in Handlers, Destroy(h) PROVE HandlersArePlaced'
  <2>1. Busy(h) /\ handler[h].event \in MergeGroupEvents
    BY <1>4, <1>a DEF Destroy, Busy, Idle, Fits
  <2>. QED
    BY <1>0, <1>4, <2>1, GotoPlaced DEF Destroy, Step
<1>5. ASSUME NEW h \in Handlers, Cancel(h) PROVE HandlersArePlaced'
  <2>1. Busy(h)
    BY <1>5 DEF Cancel, Busy, Idle
  <2>2. \A e \in Events \ MergeGroupEvents : e = handler[h].event => Fits(e, "end")'
    BY <1>5, <1>a, <2>1 DEF Cancel, Fits
  <2>. QED
    BY <1>0, <1>5, <2>1, <2>2, GotoPlaced DEF Cancel, Step
<1>6. ASSUME NEW h \in Handlers, EndExposures(h) PROVE HandlersArePlaced'
  <2>1. Busy(h)
    BY <1>6 DEF EndExposures, Busy, Idle
  <2>2. PICK step \in Step : Goto(h, step) /\ step \in {"duplicate", "finish"}
    BY <1>6 DEF EndExposures, Step
  <2>3. ASSUME NEW e \in Events \ MergeGroupEvents, e = handler[h].event
        PROVE  Fits(e, step)'
    <3>1. e \in {"closed", "merged", "deleted"}
      BY <1>6, <1>a, <2>1, <2>3 DEF EndExposures, Fits
    <3>2. ended'[GroupOfEvent(e)]
      BY <1>0, <1>6, <1>a, <2>1, <2>3 DEF EndExposures, TypeOK, Group
    <3>3. Done(e)'
      BY <3>1, <3>2 DEF Done
    <3>. QED
      BY <2>2, <3>3 DEF Fits
  <2>. QED
    BY <1>0, <1>6, <2>1, <2>2, <2>3, GotoPlaced DEF EndExposures
<1>7. ASSUME NEW h \in Handlers, Finish(h) PROVE HandlersArePlaced'
  <2>1. Busy(h)
    BY <1>7 DEF Finish, Busy, Idle
  <2>2. \A c \in Ids : c # handler[h].id => record'[c] = record[c]
    BY <1>0, <1>7, <1>a, <2>1, SetStatusOther DEF Finish
  <2>. QED
    BY <1>0, <1>7, <2>1, <2>2, StopPlaced DEF Finish
<1>8. ASSUME NEW h \in Handlers, HandlerFails(h) PROVE HandlersArePlaced'
  <2>1. Busy(h)
    BY <1>8 DEF HandlerFails
  <2>2. \A c \in Ids : c # handler[h].id => record'[c] = record[c]
    BY <1>0, <1>8, <1>a, <2>1, SetStatusOther DEF HandlerFails
  <2>. QED
    BY <1>0, <1>8, <2>1, <2>2, StopPlaced DEF HandlerFails
<1>9. ASSUME NEW h \in Handlers, FinishFails(h) PROVE HandlersArePlaced'
  BY <1>0, <1>9, StopPlaced DEF FinishFails
<1>10. ASSUME NEW h \in Handlers, NEW d \in Ids, NEW e \in Events, Receive(h, d, e)
       PROVE  HandlersArePlaced'
  <2>1. /\ \A g \in Handlers : ~Handles(g, d)
        /\ record'[d].event = e /\ \A c \in Ids \ {d} : record'[c] = record[c]
        /\ handler'[h] = [step |-> FirstStep(e), id |-> d, event |-> e]
        /\ \A g \in Handlers : g # h => handler'[g] = handler[g]
    BY <1>0, <1>10, Unhandled DEF Receive, MayProcess, TypeOK
  <2>2. ASSUME NEW g \in Handlers, Busy(g)', g # h PROVE Placed(g)'
    <3>1. handler'[g] = handler[g] /\ Busy(g) /\ Placed(g)
      BY <2>1, <2>2 DEF Busy, Idle, HandlersArePlaced
    <3>2. handler[g].id \in Ids \ {d}
      BY <1>a, <2>1, <3>1 DEF Handles
    <3>. QED
      BY <1>0, <2>1, <3>1, <3>2, StaysPlaced
  <2>3. Placed(h)'
    <3>1. e \notin MergeGroupEvents => Fits(e, FirstStep(e)) /\ FirstStep(e) \notin {"finish", "duplicate"}
      BY FirstStepFits
    <3>. QED
      BY <2>1, <3>1 DEF Placed, Fits
  <2>. QED
    BY <2>2, <2>3 DEF HandlersArePlaced
<1>11. ASSUME NEW d \in Ids, Age(d) \/ FailStuck(d) PROVE HandlersArePlaced'
  <2>1. \A c \in Ids : record'[c].event = record[c].event
    BY <1>0, <1>11 DEF Age, FailStuck, SetStatus, TypeOK, Record
  <2>. QED
    BY <1>0, <1>11, <2>1, IdlePlaced DEF Age, FailStuck
<1>12. ASSUME NEW g \in Groups, JobDone(g) PROVE HandlersArePlaced'
  BY <1>0, <1>12, IdlePlaced DEF JobDone
<1>13. CASE Crash
  BY <1>13 DEF Crash, HandlersArePlaced, Busy, Idle
<1>14. CASE UNCHANGED vars
  BY <1>0, <1>14, IdlePlaced DEF vars
<1>. QED
  BY <1>1, <1>2, <1>3, <1>4, <1>5, <1>6, <1>7, <1>8, <1>9, <1>10, <1>11, <1>12, <1>13, <1>14
  DEF Next, HandlerStep

\* A record becomes processed or ignored only when its handler, which is placed, finishes.
LEMMA HandledStep ==
  ASSUME Inv, HandlersArePlaced, HandledIsDone, [Next]_vars
  PROVE  HandledIsDone'
<1>0. TypeOK /\ EffectsStay
  BY EffectsStayStep DEF Inv
<1>1. ASSUME NEW d \in Ids, record'[d] = record[d], record[d].status \in {"processed", "ignored"}
      PROVE  /\ record'[d].event \in Events
             /\ record'[d].event \notin MergeGroupEvents => Done(record[d].event)'
  BY <1>0, <1>1, DoneStays DEF HandledIsDone
<1>2. ASSUME NEW h \in Handlers, Finish(h) PROVE HandledIsDone'
  <2>1. Busy(h) /\ handler[h].id \in Ids /\ handler[h].event \in Events
    BY <1>0, <1>2, BusyType DEF Finish, Busy, Idle
  <2>2. ASSUME NEW d \in Ids \ {handler[h].id}, record'[d].status \in {"processed", "ignored"}
        PROVE  /\ record'[d].event \in Events
               /\ record'[d].event \notin MergeGroupEvents => Done(record[d].event)'
    BY <1>0, <1>1, <1>2, <2>1, <2>2, SetStatusOther DEF Finish
  <2>3. record'[handler[h].id].event = handler[h].event
    BY <1>0, <1>2, <2>1 DEF Finish, SetStatus, TypeOK, Record, HandlersArePlaced, Placed
  <2>4. ASSUME NEW e \in Events, e = handler[h].event, e \notin MergeGroupEvents
        PROVE  Done(e)'
    BY <1>0, <1>2, <2>1, <2>4, DoneStays DEF Finish, HandlersArePlaced, Placed, Fits
  <2>. QED
    BY <2>1, <2>2, <2>3, <2>4 DEF HandledIsDone
<1>3. ASSUME NEW d \in Ids, \A h \in Handlers : ~Finish(h),
             record'[d].status \in {"processed", "ignored"}
      PROVE  record'[d] = record[d]
  <2>1. ASSUME NEW c \in Ids, SetStatus(c, "failed") PROVE record'[d] = record[d]
    <3>1. c # d
      BY <1>0, <1>3, <2>1 DEF SetStatus, TypeOK, Record
    <3>. QED
      BY <1>0, <2>1, <3>1, SetStatusOther
  <2>2. ASSUME NEW h \in Handlers, HandlerFails(h) PROVE record'[d] = record[d]
    BY <1>0, <2>1, <2>2, BusyType DEF HandlerFails
  <2>3. ASSUME NEW h \in Handlers, NEW c \in Ids, NEW e \in Events, Receive(h, c, e)
        PROVE  record'[d] = record[d]
    BY <1>0, <1>3, <2>3 DEF Receive, TypeOK
  <2>4. ASSUME NEW c \in Ids, Age(c) \/ FailStuck(c) PROVE record'[d] = record[d]
    BY <1>0, <1>3, <2>1, <2>4 DEF Age, FailStuck, TypeOK, Record
  <2>. QED
    BY <1>3, <2>2, <2>3, <2>4
    DEF Next, HandlerStep, vars, Enqueue, Request, LinkJob, Destroy, Cancel, EndExposures,
        FinishFails, JobDone, Crash
<1>. QED
  <2>1. CASE \A h \in Handlers : ~Finish(h)
    <3>1. ASSUME NEW d \in Ids, record'[d].status \in {"processed", "ignored"}
          PROVE  /\ record'[d].event \in Events
                 /\ record'[d].event \notin MergeGroupEvents => Done(record[d].event)'
      BY <1>1, <1>3, <2>1, <3>1
    <3>. QED
      BY <3>1 DEF HandledIsDone
  <2>. QED
    BY <1>2, <2>1

\* Both hold initially: nothing was received.
LEMMA PlacedInit == Init => HandlersArePlaced /\ HandledIsDone
BY DEF Init, HandlersArePlaced, HandledIsDone, Busy, Idle, None

\* An event of a pull request or branch that counts as handled has had its effect,
\* whatever failed, crashed or was delivered again before (_handle_verified).
THEOREM NotLost == Spec => []EventNotLost
<1>1. Init => HandlersArePlaced /\ HandledIsDone
  BY PlacedInit
<1>2. Inv /\ (HandlersArePlaced /\ HandledIsDone) /\ [Next]_vars => (HandlersArePlaced /\ HandledIsDone)'
  BY PlacedStep, HandledStep
<1>3. HandledIsDone => EventNotLost
  BY DEF HandledIsDone, EventNotLost, Handled
<1>. QED
  BY <1>1, <1>2, <1>3, Invariance, PTL DEF Spec
=============================================================================
