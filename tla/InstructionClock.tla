-------------------------- MODULE InstructionClock --------------------------
(***************************************************************************)
(* The machine's only source of time (internal/platform/clock): a counter  *)
(* of retired instructions and a queue of events due at instructions.      *)
(*                                                                         *)
(* Tick and Advance move the counter and fire what comes due on the way.   *)
(* A handler runs in the middle of that: it may schedule and cancel        *)
(* anything, itself included, and it may fail.  The heap is the set of     *)
(* queued events; popping it takes the event least in (due, seq).          *)
(***************************************************************************)
EXTENDS Integers, FiniteSets

CONSTANTS
    MaxCount,   \* the largest value of the counter (math.MaxUint64)
    MaxEvents,  \* how many events one history may schedule (bounds the model)
    None        \* no handler is running, no snapshot has been taken

ASSUME ClockAssumption ==
    /\ MaxCount \in Nat
    /\ MaxEvents \in Nat

VARIABLES
    icount,   \* instructions retired
    nextDue,  \* the cached deadline of the head of the heap, MaxCount if empty
    queue,    \* the events in the heap
    live,     \* the events that can still be cancelled
    nextID,   \* ids handed out so far
    nextSeq,  \* the registration order of the next event
    phase,    \* "idle", "firing" (the loop of fireDue), "handler", or
              \* "failed": an Advance returned an error, and the owner gives up
              \* the machine or restores it
    target,   \* where the Advance or Tick in progress is heading
    running,  \* the event whose handler is running
    saved,    \* the last snapshot
    last      \* history: (due, seq) of the last event fired since a restore

vars == <<icount, nextDue, queue, live, nextID, nextSeq, phase, target,
          running, saved, last>>

Counter == 0..MaxCount
Event == [id : 1..MaxEvents, due : Counter, period : Counter, seq : 0..MaxEvents]
Phase == {"idle", "firing", "handler", "failed"}

(* A snapshot: the counter, the id and order counters, the pending events.  *)
Snapshots ==
    [icount : Counter, nextID : 0..MaxEvents, nextSeq : 0..MaxEvents,
     events : SUBSET Event]

Ids(q) == {e.id : e \in q}

-----------------------------------------------------------------------------
(* The heap.                                                                *)

(* eventQueue.Less: by due instruction, then by registration order.         *)
Less(a, b) == a.due < b.due \/ (a.due = b.due /\ a.seq < b.seq)

(* Mutant: the heap orders by due instruction alone.                        *)
IsHeadMutantNoTie(e, q) == e \in q /\ \A f \in q : e.due <= f.due

(* e is what heap.Pop takes from q.                                         *)
IsHead(e, q) == e \in q /\ \A f \in q : ~ Less(f, e)

(* refreshNextDue, against the heap as it has just become.                  *)
RefreshNextDue(q) ==
    \/ q = {} /\ nextDue' = MaxCount
    \/ \E e \in q : IsHead(e, q) /\ nextDue' = e.due

-----------------------------------------------------------------------------
(* Scheduling and cancelling: from the loop's owner, or from a handler.     *)

MayCall == phase \in {"idle", "handler"}

Schedule(due, period) ==
    LET e == [id |-> nextID + 1, due |-> due, period |-> period, seq |-> nextSeq]
    IN  /\ nextID < MaxEvents
        /\ nextID' = nextID + 1
        /\ nextSeq' = nextSeq + 1
        /\ live' = live \union {e}
        /\ queue' = queue \union {e}
        /\ RefreshNextDue(queue')
        /\ UNCHANGED <<icount, phase, target, running, saved, last>>

(* Mutant: an event due now is taken.                                       *)
AtMutantNow(due) == MayCall /\ due >= icount /\ Schedule(due, 0)

(* At, which refuses a due instruction that is not in the future; After is  *)
(* At of icount + delta.                                                    *)
At(due) == MayCall /\ due > icount /\ Schedule(due, 0)

(* Mutant: the first deadline is not checked against the counter's width.   *)
EveryMutantWide(period) == MayCall /\ period > 0 /\ Schedule(icount + period, period)

(* Every, which refuses a zero period and an overflowing first deadline.    *)
Every(period) ==
    /\ MayCall
    /\ period > 0
    /\ icount + period <= MaxCount
    /\ Schedule(icount + period, period)

(* Mutant: the event stays in the heap.                                     *)
CancelMutantKeepsHeap(id) ==
    /\ MayCall
    /\ id \in Ids(live)
    /\ live' = {e \in live : e.id # id}
    /\ UNCHANGED <<icount, nextDue, queue, nextID, nextSeq, phase, target,
                   running, saved, last>>

Cancel(id) ==
    /\ MayCall
    /\ id \in Ids(live)
    /\ live' = {e \in live : e.id # id}
    /\ queue' = {e \in queue : e.id # id}
    /\ IF id \in Ids(queue) THEN RefreshNextDue(queue') ELSE UNCHANGED nextDue
    /\ UNCHANGED <<icount, nextID, nextSeq, phase, target, running, saved, last>>

-----------------------------------------------------------------------------
(* Moving the counter.                                                      *)

(* Tick: only the cached deadline is compared, and only for equality.       *)
Tick ==
    /\ phase = "idle"
    /\ icount < MaxCount
    /\ icount' = icount + 1
    /\ target' = icount + 1
    /\ phase' = IF icount + 1 = nextDue THEN "firing" ELSE "idle"
    /\ UNCHANGED <<nextDue, queue, live, nextID, nextSeq, running, saved, last>>

Advance(n) ==
    /\ phase = "idle"
    /\ icount + n <= MaxCount
    /\ target' = icount + n
    /\ phase' = "firing"
    /\ UNCHANGED <<icount, nextDue, queue, live, nextID, nextSeq, running,
                   saved, last>>

(* One turn of fireDue: a periodic event goes back into the heap before its *)
(* handler runs and keeps its place in the registration order; a one-shot   *)
(* is forgotten.                                                            *)
FireRescheduled(e) ==
    LET again == [e EXCEPT !.due = e.due + e.period]
    IN  /\ e.period > 0
        /\ e.due + e.period <= MaxCount
        /\ queue' = (queue \ {e}) \union {again}
        /\ live' = (live \ {e}) \union {again}

FireOneShot(e) ==
    /\ e.period = 0
    /\ queue' = queue \ {e}
    /\ live' = live \ {e}

Fire(e) ==
    /\ phase = "firing"
    /\ nextDue <= target
    /\ IsHead(e, queue)
    /\ icount' = e.due
    /\ last' = [due |-> e.due, seq |-> e.seq]
    /\ FireRescheduled(e) \/ FireOneShot(e)
    /\ RefreshNextDue(queue')
    /\ phase' = "handler"
    /\ running' = e
    /\ UNCHANGED <<nextID, nextSeq, target, saved>>

(* A periodic event whose next deadline does not fit the counter: fireDue   *)
(* returns with the event out of the heap, nextDue not refreshed and the    *)
(* event still live, due where it was.                                      *)
FireOverflows(e) ==
    /\ phase = "firing"
    /\ nextDue <= target
    /\ IsHead(e, queue)
    /\ e.period > 0
    /\ e.due + e.period > MaxCount
    /\ icount' = e.due
    /\ queue' = queue \ {e}
    /\ phase' = "failed"
    /\ UNCHANGED <<nextDue, live, nextID, nextSeq, target, running, saved, last>>

HandlerReturns ==
    /\ phase = "handler"
    /\ phase' = "firing"
    /\ running' = None
    /\ UNCHANGED <<icount, nextDue, queue, live, nextID, nextSeq, target, saved, last>>

(* A handler error stops the Advance at the instruction where it failed.    *)
HandlerFails ==
    /\ phase = "handler"
    /\ phase' = "failed"
    /\ running' = None
    /\ UNCHANGED <<icount, nextDue, queue, live, nextID, nextSeq, target, saved, last>>

(* fireDue's loop ends: nothing is due by the target.                       *)
Arrive ==
    /\ phase = "firing"
    /\ queue = {} \/ nextDue > target
    /\ icount' = target
    /\ phase' = "idle"
    /\ UNCHANGED <<nextDue, queue, live, nextID, nextSeq, target, running, saved, last>>

-----------------------------------------------------------------------------
(* Snapshots.  Snapshot asks for nothing: a handler may take one, and       *)
(* Machine.Restore takes one to roll back to, of a clock that may have      *)
(* failed (machine/snapshot.go:120).                                        *)

(* The counter and every live event, in the heap or not.                    *)
Taken == [icount |-> icount, nextID |-> nextID, nextSeq |-> nextSeq, events |-> live]

Snapshot ==
    /\ phase # "firing"
    /\ saved' = Taken
    /\ UNCHANGED <<icount, nextDue, queue, live, nextID, nextSeq, phase, target,
                   running, last>>

(* What Restore insists on before it changes anything: ids handed out, each *)
(* once; registration orders used, each once; every event in the future.    *)
Accepts(s) ==
    /\ \A e \in s.events :
        /\ e.id \in 1..s.nextID
        /\ e.seq < s.nextSeq
        /\ e.due > s.icount
    /\ \A e, f \in s.events : e # f => e.id # f.id /\ e.seq # f.seq

(* Mutant: the registration order goes on from the number of events.        *)
RestoreMutantRenumbers ==
    /\ phase \in {"idle", "failed"}
    /\ saved # None
    /\ Accepts(saved)
    /\ icount' = saved.icount
    /\ nextID' = saved.nextID
    /\ nextSeq' = Cardinality(saved.events)
    /\ queue' = saved.events
    /\ live' = saved.events
    /\ RefreshNextDue(queue')
    /\ phase' = "idle"
    /\ last' = [due |-> saved.icount, seq |-> 0]
    /\ UNCHANGED <<target, running, saved>>

(* Restore replaces everything, including a clock whose Advance failed; it  *)
(* is never called by a handler.  A snapshot it refuses changes nothing.    *)
Restore ==
    /\ phase \in {"idle", "failed"}
    /\ saved # None
    /\ Accepts(saved)
    /\ icount' = saved.icount
    /\ nextID' = saved.nextID
    /\ nextSeq' = saved.nextSeq
    /\ queue' = saved.events
    /\ live' = saved.events
    /\ RefreshNextDue(queue')
    /\ phase' = "idle"
    /\ last' = [due |-> saved.icount, seq |-> 0]
    /\ UNCHANGED <<target, running, saved>>

(* RestoreTo, and Reset, which is RestoreTo(0): the ids and orders go on.   *)
RestoreTo(n) ==
    /\ phase \in {"idle", "failed"}
    /\ icount' = n
    /\ queue' = {}
    /\ live' = {}
    /\ nextDue' = MaxCount
    /\ phase' = "idle"
    /\ last' = [due |-> n, seq |-> 0]
    /\ UNCHANGED <<nextID, nextSeq, target, running, saved>>

-----------------------------------------------------------------------------
Init ==
    /\ icount = 0
    /\ nextDue = MaxCount
    /\ queue = {}
    /\ live = {}
    /\ nextID = 0
    /\ nextSeq = 0
    /\ phase = "idle"
    /\ target = 0
    /\ running = None
    /\ saved = None
    /\ last = [due |-> 0, seq |-> 0]

Next ==
    \/ \E due \in Counter : At(due)
    \/ \E period \in Counter : Every(period)
    \/ \E id \in 1..MaxEvents : Cancel(id)
    \/ Tick
    \/ \E n \in Counter : Advance(n)
    \/ \E e \in queue : Fire(e) \/ FireOverflows(e)
    \/ HandlerReturns
    \/ HandlerFails
    \/ Arrive
    \/ Snapshot
    \/ Restore
    \/ \E n \in Counter : RestoreTo(n)

Spec == Init /\ [][Next]_vars

-----------------------------------------------------------------------------
(* Budget: how far the loop may run before the next event.                  *)
(* Mutant: the budget includes the due instruction's successor.             *)
BudgetMutantPastDue(max) ==
    IF queue = {} THEN max
    ELSE IF nextDue - icount + 1 < max THEN nextDue - icount + 1 ELSE max

Budget(max) ==
    IF queue = {} THEN max
    ELSE IF nextDue - icount < max THEN nextDue - icount ELSE max

(* Every variable has its type; the counters stay below MaxCount, and an    *)
(* event in the queue is one that was scheduled.                            *)
TypeOK ==
    /\ icount \in Counter
    /\ nextDue \in Counter
    /\ queue \in SUBSET Event
    /\ live \in SUBSET Event
    /\ nextID \in 0..MaxEvents
    /\ nextSeq \in 0..MaxEvents
    /\ phase \in Phase
    /\ target \in Counter
    /\ running \in Event \union {None}
    /\ saved \in Snapshots \union {None}
    /\ last \in [due : Counter, seq : 0..MaxEvents]

(* Whenever the loop's owner has control, no event is overdue and the       *)
(* cached deadline is the earliest one: Tick compares nothing else, and for *)
(* equality, so an event it stepped over would never fire at all.           *)
NoneOverdue ==
    phase = "idle" =>
        /\ \A e \in queue : icount < e.due /\ nextDue <= e.due
        /\ queue # {} => \E e \in queue : nextDue = e.due

(* Running the budget never overshoots an event, and a loop that asks for   *)
(* at least one instruction always gets at least one.                       *)
BudgetIsSafe ==
    phase = "idle" =>
        \A max \in 1..MaxCount :
            /\ Budget(max) \in 1..max
            /\ \A e \in queue : icount + Budget(max) <= e.due

(* Whatever happened before, a snapshot taken between Advances is one       *)
(* Restore accepts.  One taken by a handler, or of a clock whose Advance    *)
(* failed, is refused for one reason only (snapshot.go:96): an event due at *)
(* this very instruction has not fired, because its turn has not come, or   *)
(* never will (clock.go:227).                                               *)
Late(s) == \E e \in s.events : e.due = s.icount

SnapshotIsRestorable ==
    /\ phase = "idle" => Accepts(Taken)
    /\ phase \in {"handler", "failed"} => Accepts(Taken) \/ Late(Taken)

(* An event that was cancelled, by anyone and at any moment before its      *)
(* handler starts, does not fire.                                           *)
CancelledNeverFires ==
    [][running' # running /\ running' # None => running' \in live]_vars

(* Events fire in (due, seq) order whatever the sizes of the Advances and   *)
(* whatever the handlers schedule, and the counter reads the event's own    *)
(* due instruction while its handler runs: the schedule is a function of    *)
(* the registrations.                                                       *)
FiringOrder ==
    [][running' # running /\ running' # None =>
          icount' = running'.due /\ Less(last, running')]_vars
=============================================================================
