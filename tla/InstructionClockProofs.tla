------------------------ MODULE InstructionClockProofs ------------------------
(***************************************************************************)
(* The schedule of the instruction clock, for every counter width and      *)
(* every number of events: the inductive invariant behind the properties   *)
(* TLC checks on small instances of InstructionClock, and their proofs.    *)
(***************************************************************************)
EXTENDS InstructionClock, TLAPS

(* The cached deadline is that of the heap's head.                          *)
CacheInv ==
    phase # "failed" =>
        \/ queue = {} /\ nextDue = MaxCount
        \/ \E e \in queue : IsHead(e, queue) /\ nextDue = e.due

(* Ids and registration orders are handed out once; what is in the heap can *)
(* be cancelled, and nothing else until an Advance fails.                   *)
IdentityInv ==
    /\ nextSeq = nextID
    /\ saved # None => saved.nextSeq = saved.nextID
    /\ queue \subseteq live
    /\ phase # "failed" => live = queue
    /\ \A e \in live : e.id \in 1..nextID /\ e.seq < nextSeq
    /\ \A e, f \in live : e # f => e.id # f.id /\ e.seq # f.seq

(* Everything queued comes after the last event fired; when control is back *)
(* with the loop's owner it is also after the counter, and at no time that  *)
(* anybody but the loop of fireDue can see is an event before the counter.  *)
OrderInv ==
    /\ phase # "failed" =>
        /\ last.due <= icount
        /\ phase \in {"firing", "handler"} => last.due <= target
        /\ \A e \in queue : Less(last, e)
        /\ phase = "idle" => \A e \in queue : icount < e.due
    /\ phase # "firing" => \A e \in live : icount <= e.due

IInv ==
    /\ TypeOK
    /\ CacheInv
    /\ IdentityInv
    /\ OrderInv

-----------------------------------------------------------------------------
(* The head of a heap is due no later than anything else in it, and when    *)
(* registration orders are distinct everything else comes after it.         *)
LEMMA HeadIsLeast ==
    ASSUME NEW q \in SUBSET Event, NEW e \in q, IsHead(e, q)
    PROVE  /\ \A f \in q : e.due <= f.due
           /\ \A f \in q : f.seq # e.seq => Less(e, f)
  BY ClockAssumption DEF IsHead, Less, Event, Counter

(* RefreshNextDue sets the cached deadline to a counter value.              *)
LEMMA RefreshType ==
    ASSUME NEW q \in SUBSET Event, RefreshNextDue(q)
    PROVE  nextDue' \in Counter
  BY ClockAssumption DEF RefreshNextDue, IsHead, Event, Counter

LEMMA InitIInv == Init => IInv
  BY ClockAssumption DEF Init, IInv, TypeOK, CacheInv, IdentityInv, OrderInv,
     Counter, Phase

-----------------------------------------------------------------------------
(* Scheduling an event in the future keeps the invariant.                   *)
LEMMA ScheduleStep ==
    ASSUME IInv, MayCall, NEW due \in Counter, NEW period \in Counter,
           due > icount, Schedule(due, period)
    PROVE  IInv'
  <1> DEFINE e == [id |-> nextID + 1, due |-> due, period |-> period, seq |-> nextSeq]
  <1> USE ClockAssumption DEF IInv
  <1>1. e \in Event
    BY DEF TypeOK, Event, Counter, Schedule, IdentityInv
  <1>2. queue' = queue \union {e} /\ queue' \in SUBSET Event
    BY <1>1 DEF Schedule, TypeOK
  <1>3. TypeOK'
    <2>1. nextDue' \in Counter
      BY <1>2, RefreshType DEF Schedule
    <2> QED
      BY <1>2, <2>1 DEF TypeOK, Schedule, IdentityInv
  <1>4. CacheInv'
    BY DEF Schedule, RefreshNextDue, CacheInv, IsHead, Less
  <1>5. IdentityInv'
    BY <1>2 DEF Schedule, IdentityInv, TypeOK, Event
  <1>6. OrderInv'
    BY <1>2 DEF Schedule, OrderInv, MayCall, TypeOK, Less, Counter
  <1> QED
    BY <1>3, <1>4, <1>5, <1>6

LEMMA CancelStep ==
    ASSUME IInv, NEW id \in 1..MaxEvents, Cancel(id)
    PROVE  IInv'
  <1> USE ClockAssumption DEF IInv
  <1>1. queue' \in SUBSET Event /\ queue' \subseteq queue
    BY DEF Cancel, TypeOK
  <1>2. CASE id \in Ids(queue)
    <2>1. RefreshNextDue(queue')
      BY <1>2 DEF Cancel
    <2>2. CacheInv'
      BY <2>1 DEF RefreshNextDue, CacheInv, IsHead, Less
    <2>3. nextDue' \in Counter
      BY <1>1, <2>1, RefreshType
    <2> QED
      BY <1>1, <2>2, <2>3 DEF Cancel, TypeOK, IdentityInv, OrderInv,
         Less
  <1>3. CASE id \notin Ids(queue)
    <2>1. queue' = queue /\ nextDue' = nextDue
      BY <1>3 DEF Cancel, Ids
    <2>2. CacheInv'
      BY <2>1 DEF Cancel, CacheInv, IsHead, Less
    <2>3. \A e \in queue : e.id # id
      BY <1>3 DEF Ids
    <2> QED
      BY <2>1, <2>2, <2>3 DEF Cancel, TypeOK, IdentityInv, OrderInv,
         Less
  <1> QED
    BY <1>2, <1>3

LEMMA TickStep ==
    ASSUME IInv, Tick
    PROVE  IInv'
  <1> USE ClockAssumption DEF IInv
  <1>1. \A e \in queue : nextDue <= e.due /\ icount < e.due
    <2>1. phase # "failed" /\ queue \in SUBSET Event
      BY DEF Tick, TypeOK
    <2>2. \A e \in queue : nextDue <= e.due
      BY <2>1, HeadIsLeast DEF CacheInv
    <2> QED
      BY <2>2 DEF OrderInv, Tick
  <1>2. queue # {} => nextDue \in {e.due : e \in queue}
    BY DEF CacheInv, Tick, IsHead
  <1>3. OrderInv'
    <2>1. ASSUME phase' = "idle", NEW e \in queue
          PROVE  icount + 1 < e.due
      BY <1>1, <1>2, <2>1 DEF Tick, TypeOK, Event, Counter
    <2>2. live = queue /\ UNCHANGED <<queue, live, last>> /\ icount' = icount + 1
      BY DEF Tick, IdentityInv
    <2>3. \A e \in live' : icount' <= e.due
      BY <1>1, <2>2 DEF TypeOK, Event, Counter
    <2>4. last'.due <= icount' /\ last'.due <= target'
      BY <2>2 DEF Tick, OrderInv, TypeOK, Counter
    <2>5. \A e \in queue' : Less(last', e)
      BY <2>2 DEF Tick, OrderInv, Less
    <2>6. phase' \in {"idle", "firing"} /\ queue' = queue
      BY DEF Tick
    <2>7. phase' = "idle" => \A e \in queue' : icount' < e.due
      BY <2>1, <2>2
    <2> QED
      BY <2>3, <2>4, <2>5, <2>6, <2>7 DEF OrderInv
  <1>4. TypeOK'
    BY DEF Tick, TypeOK, Counter, Phase
  <1> QED
    BY <1>3, <1>4 DEF Tick, CacheInv, IdentityInv,
       IsHead, Less

LEMMA AdvanceStep ==
    ASSUME IInv, NEW n \in Counter, Advance(n)
    PROVE  IInv'
  <1> USE ClockAssumption DEF IInv
  <1>1. TypeOK'
    BY DEF Advance, TypeOK, Counter, Phase
  <1> QED
    BY <1>1 DEF Advance, CacheInv, IdentityInv, OrderInv, IsHead, Less, TypeOK, Counter

-----------------------------------------------------------------------------
(* Firing.  The event taken is the least queued one, so the rest of the heap *)
(* comes after it, and so does its own next deadline when it is periodic.    *)
LEMMA FireStep ==
    ASSUME IInv, NEW e \in queue, Fire(e)
    PROVE  /\ IInv'
           /\ Less(last, e)
           /\ e \in live
  <1> USE ClockAssumption DEF IInv
  <1>1. e \in Event /\ queue \in SUBSET Event
    BY DEF TypeOK
  <1>2. Less(last, e) /\ e \in live
    BY DEF Fire, OrderInv, IdentityInv
  <1>3. \A f \in queue : f # e => Less(e, f)
    BY <1>1, HeadIsLeast DEF Fire, IdentityInv
  <1>4. nextDue = e.due
    <2>1. PICK g \in queue : IsHead(g, queue) /\ nextDue = g.due
      BY DEF Fire, CacheInv
    <2>2. e.due <= g.due /\ g.due <= e.due
      BY <1>1, <2>1, HeadIsLeast DEF Fire
    <2> QED
      BY <1>1, <2>1, <2>2 DEF Event, Counter
  <1>5. IInv'
    <2> DEFINE again == [e EXCEPT !.due = e.due + e.period]
    <2>1. CASE FireRescheduled(e)
      <3>1. again \in Event /\ again.id = e.id /\ again.seq = e.seq
                            /\ again.due = e.due + e.period
        BY <1>1, <2>1 DEF FireRescheduled, Event, Counter
      <3>2. /\ queue' = (queue \ {e}) \union {again}
            /\ live' = (live \ {e}) \union {again}
        BY <2>1 DEF FireRescheduled
      <3> HIDE DEF again
      <3>3. queue' \in SUBSET Event
        BY <1>1, <3>1, <3>2
      <3>4. TypeOK'
        BY <1>1, <3>2, <3>3, RefreshType DEF Fire, TypeOK, Event, Phase
      <3>5. CacheInv'
        BY DEF Fire, RefreshNextDue, CacheInv, IsHead, Less
      <3>6. IdentityInv'
        BY <3>1, <3>2 DEF Fire, IdentityInv
      <3>7. Less(e, again)
        BY <1>1, <2>1, <3>1 DEF FireRescheduled, Less, Event, Counter
      <3>8. OrderInv'
        <4>1. /\ icount' = e.due /\ last' = [due |-> e.due, seq |-> e.seq]
              /\ phase' = "handler" /\ target' = target /\ e.due <= target
          BY <1>4 DEF Fire
        <4>2. \A f \in queue' : Less(last', f)
          BY <1>3, <3>2, <3>7, <4>1 DEF Less
        <4>3. \A f \in live' : f \in queue'
          BY <3>2, <3>6, <4>1 DEF IdentityInv
        <4>4. \A f \in live' : e.due <= f.due
          BY <1>1, <3>3, <4>1, <4>2, <4>3 DEF Less, Event, Counter
        <4> QED
          BY <1>1, <4>1, <4>2, <4>4 DEF OrderInv, Event, Counter
      <3> QED
        BY <3>4, <3>5, <3>6, <3>8
    <2>2. CASE FireOneShot(e)
      <3>1. queue' = queue \ {e} /\ live' = live \ {e}
        BY <2>2 DEF FireOneShot
      <3>2. TypeOK'
        BY <1>1, <3>1, RefreshType DEF Fire, TypeOK, Event, Phase
      <3>3. CacheInv'
        BY DEF Fire, RefreshNextDue, CacheInv, IsHead, Less
      <3>4. IdentityInv'
        BY <3>1 DEF Fire, IdentityInv
      <3>5. OrderInv'
        <4>1. /\ icount' = e.due /\ last' = [due |-> e.due, seq |-> e.seq]
              /\ phase' = "handler" /\ target' = target /\ e.due <= target
          BY <1>4 DEF Fire
        <4>2. \A f \in queue' : Less(last', f)
          BY <1>3, <3>1, <4>1 DEF Less
        <4>3. \A f \in live' : f \in queue'
          BY <3>4, <4>1 DEF IdentityInv
        <4>4. \A f \in live' : e.due <= f.due
          BY <1>1, <3>1, <4>1, <4>2, <4>3 DEF Less, Event, Counter
        <4> QED
          BY <1>1, <4>1, <4>2, <4>4 DEF OrderInv, Event, Counter
      <3> QED
        BY <3>2, <3>3, <3>4, <3>5
    <2> QED
      BY <2>1, <2>2 DEF Fire
  <1> QED
    BY <1>2, <1>5

LEMMA FireOverflowsStep ==
    ASSUME IInv, NEW e \in queue, FireOverflows(e)
    PROVE  IInv'
  <1> USE ClockAssumption DEF IInv
  <1>1. TypeOK'
    BY DEF FireOverflows, TypeOK, Event, Phase
  <1>2. \A f \in live : e.due <= f.due
    BY HeadIsLeast DEF FireOverflows, IdentityInv, TypeOK
  <1>3. OrderInv'
    BY <1>2 DEF FireOverflows, OrderInv
  <1> QED
    BY <1>1, <1>3 DEF FireOverflows, CacheInv, IdentityInv

LEMMA HandlerEndsStep ==
    ASSUME IInv, HandlerReturns \/ HandlerFails
    PROVE  IInv'
  <1> USE ClockAssumption DEF IInv
  <1>1. TypeOK'
    BY DEF HandlerReturns, HandlerFails, TypeOK, Phase
  <1>2. CacheInv'
    BY DEF HandlerReturns, HandlerFails, CacheInv, IsHead, Less
  <1> QED
    BY <1>1, <1>2 DEF HandlerReturns, HandlerFails, IdentityInv, OrderInv,
       Less

(* The loop of fireDue ends at the target with nothing due by it.           *)
LEMMA ArriveStep ==
    ASSUME IInv, Arrive
    PROVE  IInv'
  <1> USE ClockAssumption DEF IInv
  <1>1. \A e \in queue : nextDue <= e.due
    BY HeadIsLeast DEF CacheInv, Arrive, TypeOK
  <1>2. OrderInv'
    <2>1. /\ icount' = target /\ phase' = "idle" /\ last' = last
          /\ queue' = queue /\ live' = live /\ live = queue
      BY DEF Arrive, IdentityInv
    <2>2. last.due <= target /\ \A e \in queue : Less(last, e)
      BY DEF Arrive, OrderInv
    <2>3. \A e \in queue : target < e.due /\ target <= e.due
      BY <1>1 DEF Arrive, TypeOK, Event, Counter
    <2>4. \A e \in queue' : Less(last', e)
      BY <2>1, <2>2 DEF Less
    <2> QED
      BY <2>1, <2>2, <2>3, <2>4 DEF OrderInv
  <1>3. CacheInv'
    BY DEF Arrive, CacheInv, IsHead, Less
  <1>4. TypeOK'
    BY DEF Arrive, TypeOK, Phase
  <1> QED
    BY <1>2, <1>3, <1>4 DEF Arrive, IdentityInv

-----------------------------------------------------------------------------
(* Snapshots.  What Restore accepts is a state an idle clock can be in.     *)
LEMMA SnapshotStep ==
    ASSUME IInv, Snapshot
    PROVE  IInv'
  <1> USE ClockAssumption DEF IInv
  <1>1. saved' \in Snapshots
    BY DEF Snapshot, Taken, TypeOK, Snapshots
  <1>2. TypeOK'
    BY <1>1 DEF Snapshot, TypeOK
  <1>3. CacheInv'
    BY DEF Snapshot, CacheInv, IsHead, Less
  <1> QED
    BY <1>2, <1>3 DEF Snapshot, Taken, IdentityInv, OrderInv, Less

LEMMA RestoreStep ==
    ASSUME IInv, Restore
    PROVE  IInv'
  <1> USE ClockAssumption DEF IInv
  <1>1. saved \in Snapshots /\ saved.events \in SUBSET Event
    BY DEF Restore, TypeOK, Snapshots
  <1>2. TypeOK'
    BY <1>1, RefreshType DEF Restore, TypeOK, Snapshots, Phase, Ids, Event
  <1>3. CacheInv'
    BY DEF Restore, RefreshNextDue, CacheInv, IsHead, Less
  <1>4. IdentityInv'
    BY DEF Restore, IdentityInv, Accepts, Ids
  <1>5. OrderInv'
    <2>1. /\ icount' = saved.icount /\ phase' = "idle"
          /\ queue' = saved.events /\ live' = saved.events
          /\ last' = [due |-> saved.icount, seq |-> 0]
      BY DEF Restore
    <2>2. /\ saved.icount \in Int
          /\ \A e \in saved.events : e.due \in Int /\ saved.icount < e.due
      BY <1>1 DEF Restore, Accepts, Snapshots, Counter, Event
    <2>3. \A e \in queue' : Less(last', e)
      BY <2>1, <2>2 DEF Less
    <2>4. \A e \in live' : icount' <= e.due /\ icount' < e.due
      BY <2>1, <2>2
    <2> QED
      BY <2>1, <2>2, <2>3, <2>4 DEF OrderInv
  <1> QED
    BY <1>2, <1>3, <1>4, <1>5

LEMMA RestoreToStep ==
    ASSUME IInv, NEW n \in Counter, RestoreTo(n)
    PROVE  IInv'
  <1> USE ClockAssumption DEF IInv
  <1>1. TypeOK'
    BY DEF RestoreTo, TypeOK, Counter, Phase
  <1> QED
    BY <1>1 DEF RestoreTo, CacheInv, IdentityInv, OrderInv, Counter

LEMMA StutterStep ==
    ASSUME IInv, UNCHANGED vars
    PROVE  IInv'
  BY DEF vars, IInv, TypeOK, CacheInv, IsHead, Less, IdentityInv, OrderInv

-----------------------------------------------------------------------------
(* The invariant is inductive.                                              *)
LEMMA NextStep ==
    ASSUME IInv, [Next]_vars
    PROVE  IInv'
  <1>1. ASSUME NEW due \in Counter, At(due)
        PROVE  IInv'
    <2>1. 0 \in Counter
      BY ClockAssumption DEF Counter
    <2> QED
      BY <1>1, <2>1, ScheduleStep DEF At
  <1>2. ASSUME NEW period \in Counter, Every(period)
        PROVE  IInv'
    <2>1. icount + period \in Counter /\ icount + period > icount
      BY <1>2, ClockAssumption DEF Every, IInv, TypeOK, Counter
    <2> QED
      BY <1>2, <2>1, ScheduleStep DEF Every
  <1> QED
    BY <1>1, <1>2, CancelStep, TickStep, AdvanceStep, FireStep, FireOverflowsStep,
       HandlerEndsStep, ArriveStep, SnapshotStep, RestoreStep, RestoreToStep,
       StutterStep
       DEF Next

(* The invariant holds throughout.                                          *)
THEOREM Invariance == Spec => []IInv
  BY InitIInv, NextStep, PTL DEF Spec

(* The clock's variables keep their types.                                  *)
THEOREM TypeCorrect == Spec => []TypeOK
  <1>1. IInv => TypeOK
    BY DEF IInv
  <1> QED
    BY <1>1, Invariance, PTL

(* Between Advances no event is overdue, whatever the handlers did: the     *)
(* equality test of Tick cannot step over one.                              *)
THEOREM NothingIsEverOverdue == Spec => []NoneOverdue
  <1>1. IInv => NoneOverdue
    BY HeadIsLeast DEF IInv, NoneOverdue, OrderInv, CacheInv, IsHead, TypeOK
  <1> QED
    BY <1>1, Invariance, PTL

(* A loop that runs its budget makes progress and overshoots nothing.       *)
THEOREM BudgetSafety == Spec => []BudgetIsSafe
  <1>1. IInv => BudgetIsSafe
    <2> SUFFICES ASSUME IInv, phase = "idle", NEW max \in 1..MaxCount
                 PROVE  /\ Budget(max) \in 1..max
                        /\ \A e \in queue : icount + Budget(max) <= e.due
      BY DEF BudgetIsSafe
    <2>1. \A e \in queue : nextDue <= e.due
      BY HeadIsLeast DEF IInv, CacheInv, TypeOK
    <2>2. queue # {} => icount < nextDue
      BY DEF IInv, CacheInv, OrderInv, IsHead
    <2> QED
      BY <2>1, <2>2, ClockAssumption DEF Budget, IInv, TypeOK, Counter, Event
  <1> QED
    BY <1>1, Invariance, PTL

(* Restore never refuses a snapshot of a clock at rest, and refuses one of a *)
(* handler's or of a failed clock only for an event due and not fired.       *)
THEOREM SnapshotsRestore == Spec => []SnapshotIsRestorable
  <1>1. IInv => SnapshotIsRestorable
    <2> SUFFICES ASSUME IInv, phase # "firing"
                 PROVE  /\ phase = "idle" => Accepts(Taken)
                        /\ Accepts(Taken) \/ Late(Taken)
      BY DEF SnapshotIsRestorable
    <2>1. /\ \A e \in live : e.id \in 1..nextID /\ e.seq < nextSeq
          /\ \A e, f \in live : e # f => e.id # f.id /\ e.seq # f.seq
      BY DEF IInv, IdentityInv
    <2>2. \A e \in live : e.due \in Int /\ icount \in Int /\ icount <= e.due
      BY ClockAssumption DEF IInv, TypeOK, OrderInv, Event, Counter
    <2>3. phase = "idle" => \A e \in live : icount < e.due
      BY DEF IInv, IdentityInv, OrderInv
    <2> QED
      BY <2>1, <2>2, <2>3 DEF Accepts, Late, Taken
  <1> QED
    BY <1>1, Invariance, PTL

(* A handler starts only in Fire.                                           *)
LEMMA OnlyFireStarts ==
    ASSUME [Next]_vars, running' # running, running' # None
    PROVE  \E e \in queue : Fire(e) /\ running' = e
  BY DEF Next, vars, At, Every, Schedule, Cancel, Tick, Advance, Fire, FireOverflows,
     HandlerReturns, HandlerFails, Arrive, Snapshot, Restore, RestoreTo

(* A cancelled event does not fire.                                         *)
THEOREM CancellationHolds == Spec => CancelledNeverFires
  <1>1. IInv /\ [Next]_vars =>
          [running' # running /\ running' # None => running' \in live]_vars
    BY OnlyFireStarts, FireStep
  <1> QED
    BY <1>1, Invariance, PTL DEF Spec, CancelledNeverFires

(* Events fire in (due, seq) order, each at its own due instruction.        *)
THEOREM FiresInOrder == Spec => FiringOrder
  <1>1. IInv /\ [Next]_vars =>
          [running' # running /\ running' # None =>
             icount' = running'.due /\ Less(last, running')]_vars
    BY OnlyFireStarts, FireStep DEF Fire
  <1> QED
    BY <1>1, Invariance, PTL DEF Spec, FiringOrder
=============================================================================
