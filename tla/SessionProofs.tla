--------------------------- MODULE SessionProofs ---------------------------
(* Session, for any browsers, limits and bounds: its types, what the page is *)
(* told, that requests within an interval make one machine, and how old a    *)
(* key can be when it reaches one.                                           *)
EXTENDS Session, FiniteSetTheorems, SequenceTheorems, TLAPS

(* The readers that have counted a reset under the lock and not queued it.   *)
Asking == {b \in Browsers : reader[b] = "reset"}

Pending ==
    (IF resets THEN 1 ELSE 0) + (IF loop \in {"discard", "build"} THEN 1 ELSE 0)

(* RebuildsAreAskedFor says nothing of a request between the interval it     *)
(* begins and its queue: what makes it inductive is to count those too.      *)
AllAskedFor ==
    /\ IsFiniteSet(Asking)
    /\ machine + Pending + Cardinality(Asking) <= intervals

IInv == TypeOK /\ PhaseTellsTruth /\ AllAskedFor

-----------------------------------------------------------------------------
(* The loop's own steps leave the readers and the budgets alone.             *)

LEMMA NoMoreThanBefore ==
    ASSUME NEW a \in Nat, NEW b \in Nat, NEW c \in Nat, NEW d \in Nat, NEW k \in Nat,
           NEW m \in Nat,
           a + b <= c + d, c + d + k <= m
    PROVE  a + b + k <= m
OBVIOUS

LEMMA LoopKeepsAsked ==
    ASSUME IInv, UNCHANGED <<reader, intervals>>,
           machine' \in Nat, resets' \in BOOLEAN,
           machine' + Pending' <= machine + Pending
    PROVE  AllAskedFor'
<1>1. Asking' = Asking
    BY DEF Asking
<1>2. Cardinality(Asking) \in Nat
    BY FS_CardinalityType DEF IInv, AllAskedFor
<1>3. Pending \in Nat /\ Pending' \in Nat /\ machine \in Nat /\ intervals \in Nat
    BY DEF Pending, IInv, TypeOK
<1>4. machine + Pending + Cardinality(Asking) <= intervals
    BY DEF IInv, AllAskedFor
<1>5. machine' + Pending' + Cardinality(Asking) <= intervals
    <2> HIDE DEF Pending, Asking
    <2> QED
        BY <1>2, <1>3, <1>4, NoMoreThanBefore
<1> QED
    BY <1>1, <1>5 DEF IInv, AllAskedFor

(* A sequence stays one when a later machine joins the set it ranges over.   *)
LEMMA KeysOfEarlierMachines ==
    ASSUME NEW n \in Nat, NEW s \in Seq(0..n)
    PROVE  s \in Seq(0..(n + 1))
<1>1. s \in [1..Len(s) -> 0..n] /\ Len(s) \in Nat
    BY DEF Seq
<1>2. 0..n \subseteq 0..(n + 1)
    OBVIOUS
<1>3. s \in [1..Len(s) -> 0..(n + 1)]
    BY <1>1, <1>2
<1> QED
    BY <1>1, <1>3 DEF Seq

-----------------------------------------------------------------------------
LEMMA InitIInv == Init => IInv
<1> SUFFICES ASSUME Init PROVE IInv
    OBVIOUS
<1>1. TypeOK
    <2>1. csi \in 0..CsiLimit /\ keys = <<>> /\ Len(keys) <= KeyQueueLimit
        BY SessionAssumption DEF Init
    <2>2. keys \in Seq(0..machine)
        BY <2>1
    <2> QED
        BY <2>1, <2>2 DEF Init, TypeOK, ColdPhases
<1>2. PhaseTellsTruth
    BY DEF Init, PhaseTellsTruth
<1>3. Asking = {}
    BY DEF Init, Asking
<1>4. IsFiniteSet(Asking) /\ Cardinality(Asking) = 0
    BY <1>3, FS_EmptySet
<1>5. Pending = 0 /\ machine = 0 /\ intervals = 0
    BY DEF Init, Pending
<1>6. AllAskedFor
    BY <1>4, <1>5 DEF AllAskedFor
<1> QED
    BY <1>1, <1>2, <1>6 DEF IInv

LEMMA TakeResetIInv ==
    ASSUME IInv, resets, loop \in {"run", "waiting"}, TakeReset PROVE IInv'
<1>1. TypeOK'
    BY DEF IInv, TypeOK, TakeReset, folding, sockets, budgets
<1>2. PhaseTellsTruth'
    BY DEF TakeReset, PhaseTellsTruth
<1>3. machine' + Pending' <= machine + Pending
    BY DEF IInv, TypeOK, TakeReset, Pending
<1>4. AllAskedFor'
    BY <1>1, <1>3, LoopKeepsAsked DEF TypeOK, TakeReset, folding, sockets, budgets
<1> QED
    BY <1>1, <1>2, <1>4 DEF IInv

LEMMA SafePointIInv == ASSUME IInv, SafePoint PROVE IInv'
<1>1. CASE resets
    BY <1>1, TakeResetIInv DEF SafePoint
<1>2. CASE ~ resets
    <2> USE <1>2
    <2>1. TypeOK'
        BY DEF IInv, TypeOK, SafePoint, folding, sockets, budgets
    <2>2. PhaseTellsTruth'
        BY DEF IInv, SafePoint, PhaseTellsTruth
    <2>3. machine' + Pending' <= machine + Pending
        BY DEF IInv, TypeOK, SafePoint, Pending
    <2>4. AllAskedFor'
        BY <2>1, <2>3, LoopKeepsAsked DEF TypeOK, SafePoint, folding, sockets, budgets
    <2> QED
        BY <2>1, <2>2, <2>4 DEF IInv
<1> QED
    BY <1>1, <1>2

LEMMA WaitForResetIInv == ASSUME IInv, WaitForReset PROVE IInv'
BY TakeResetIInv DEF WaitForReset

LEMMA DrainKeyIInv == ASSUME IInv, DrainKey PROVE IInv'
<1>1. keys' \in Seq(0..machine) /\ Len(keys') <= KeyQueueLimit
    <2>1. keys \in Seq(0..machine) /\ keys # <<>> /\ keys' = Tail(keys)
        BY DEF IInv, TypeOK, DrainKey
    <2>2. Tail(keys) \in Seq(0..machine) /\ Len(Tail(keys)) = Len(keys) - 1
        BY <2>1, HeadTailProperties
    <2> QED
        BY <2>1, <2>2, SessionAssumption DEF IInv, TypeOK
<1>2. TypeOK'
    BY <1>1, SessionAssumption DEF IInv, TypeOK, DrainKey, folding, sockets, budgets
<1>3. PhaseTellsTruth'
    BY DEF IInv, DrainKey, PhaseTellsTruth
<1>4. machine' + Pending' <= machine + Pending
    BY DEF IInv, TypeOK, DrainKey, Pending
<1>5. AllAskedFor'
    BY <1>2, <1>4, LoopKeepsAsked DEF TypeOK, DrainKey, folding, sockets, budgets
<1> QED
    BY <1>2, <1>3, <1>5 DEF IInv

LEMMA DiscardKeyIInv == ASSUME IInv, DiscardKey PROVE IInv'
<1>1. keys' \in Seq(0..machine) /\ Len(keys') <= KeyQueueLimit
    <2>1. keys \in Seq(0..machine) /\ keys # <<>> /\ keys' = Tail(keys)
        BY DEF IInv, TypeOK, DiscardKey
    <2>2. Tail(keys) \in Seq(0..machine) /\ Len(Tail(keys)) = Len(keys) - 1
        BY <2>1, HeadTailProperties
    <2> QED
        BY <2>1, <2>2, SessionAssumption DEF IInv, TypeOK
<1>2. TypeOK'
    BY <1>1 DEF IInv, TypeOK, DiscardKey, machines, folding, sockets, budgets
<1>3. PhaseTellsTruth'
    BY DEF IInv, DiscardKey, machines, PhaseTellsTruth
<1>4. machine' + Pending' <= machine + Pending
    BY DEF IInv, TypeOK, DiscardKey, machines, Pending
<1>5. AllAskedFor'
    BY <1>2, <1>4, LoopKeepsAsked DEF TypeOK, DiscardKey, machines, folding, sockets, budgets
<1> QED
    BY <1>2, <1>3, <1>5 DEF IInv

(* Steps that move the loop and nothing the queues hold.                     *)
LEMMA PlainStepIInv ==
    ASSUME IInv,
           \/ DrainedKeys \/ Step \/ StepFails \/ HaltMachine
           \/ DiscardedKeys \/ BuildFails \/ Announce \/ Stop
    PROVE  IInv'
<1> USE DEF IInv, TypeOK, folding, sockets, budgets
<1>1. TypeOK'
    <2>1. CASE DrainedKeys   BY <2>1 DEF DrainedKeys
    <2>2. CASE Step          BY <2>2, SessionAssumption DEF Step
    <2>3. CASE StepFails     BY <2>3 DEF StepFails
    <2>4. CASE HaltMachine   BY <2>4 DEF HaltMachine
    <2>5. CASE DiscardedKeys BY <2>5 DEF DiscardedKeys
    <2>6. CASE BuildFails    BY <2>6 DEF BuildFails
    <2>7. CASE Announce      BY <2>7 DEF Announce, ColdPhases
    <2>8. CASE Stop          BY <2>8 DEF Stop
    <2> QED
        BY <2>1, <2>2, <2>3, <2>4, <2>5, <2>6, <2>7, <2>8
<1>2. PhaseTellsTruth'
    BY DEF PhaseTellsTruth, ColdPhases, DrainedKeys, Step, StepFails, HaltMachine,
           DiscardedKeys, BuildFails, Announce, Stop
<1>3. machine' + Pending' <= machine + Pending
    BY DEF Pending, DrainedKeys, Step, StepFails, HaltMachine, DiscardedKeys, BuildFails,
           Announce, Stop
<1>4. UNCHANGED <<reader, intervals>>
    BY DEF folding, DrainedKeys, Step, StepFails, HaltMachine, DiscardedKeys, BuildFails, Announce,
           Stop
<1>5. AllAskedFor'
    BY <1>1, <1>3, <1>4, LoopKeepsAsked
<1> QED
    BY <1>1, <1>2, <1>5

LEMMA BuildIInv == ASSUME IInv, Build PROVE IInv'
<1>1. keys' \in Seq(0..machine')
    BY KeysOfEarlierMachines DEF IInv, TypeOK, Build
<1>2. TypeOK'
    BY <1>1, SessionAssumption DEF IInv, TypeOK, Build, folding, sockets, budgets
<1>3. PhaseTellsTruth'
    BY DEF Build, PhaseTellsTruth
<1>4. machine' + Pending' <= machine + Pending
    BY DEF IInv, TypeOK, Build, Pending
<1>5. AllAskedFor'
    BY <1>2, <1>4, LoopKeepsAsked DEF TypeOK, Build, folding, sockets, budgets
<1> QED
    BY <1>2, <1>3, <1>5 DEF IInv

-----------------------------------------------------------------------------
(* The readers.                                                              *)

LEMMA ConnectIInv == ASSUME IInv, NEW b \in Browsers, Connect(b) PROVE IInv'
<1>1. TypeOK'
    BY DEF IInv, TypeOK, Connect, machines, folding, sockets, budgets
<1>2. PhaseTellsTruth'
    BY DEF IInv, Connect, machines, PhaseTellsTruth
<1>3. machine' + Pending' <= machine + Pending
    BY DEF IInv, TypeOK, Connect, machines, Pending
<1>4. AllAskedFor'
    BY <1>1, <1>3, LoopKeepsAsked DEF TypeOK, Connect, folding, sockets, budgets
<1> QED
    BY <1>1, <1>2, <1>4 DEF IInv

(* A reader that is not asking may do anything but ask.                      *)
LEMMA OthersStillAsk ==
    ASSUME IInv, NEW b \in Browsers, reader[b] # "reset",
           NEW at \in {"idle", "key"}, reader' = [reader EXCEPT ![b] = at]
    PROVE  Asking' = Asking
BY DEF IInv, TypeOK, Asking

LEMMA KeyReaderIInv ==
    ASSUME IInv, NEW b \in Browsers, Press(b) \/ QueueKey(b) PROVE IInv'
<1>1. keys' \in Seq(0..machine) /\ Len(keys') <= KeyQueueLimit
    <2>1. keys \in Seq(0..machine) /\ Len(keys) <= KeyQueueLimit /\ machine \in 0..machine
        BY DEF IInv, TypeOK
    <2>2. Append(keys, machine) \in Seq(0..machine)
          /\ Len(Append(keys, machine)) = Len(keys) + 1
        BY <2>1, AppendProperties
    <2>3. keys' = keys \/ (keys' = Append(keys, machine) /\ Len(keys) < KeyQueueLimit)
        BY DEF Press, QueueKey
    <2>4. Len(keys) \in Nat
        BY <2>1, LenProperties
    <2> QED
        BY <2>1, <2>2, <2>3, <2>4, SessionAssumption
<1>2. UNCHANGED <<loop, restored, machine, csi, phase, resets, cooling, intervals, wanted>>
    BY DEF Press, QueueKey, machines, folding
<1>3. connected' \in [Browsers -> BOOLEAN]
    BY DEF IInv, TypeOK, Press, QueueKey
<1>4. reader' = reader \/ \E at \in {"idle", "key"} : reader' = [reader EXCEPT ![b] = at]
    BY DEF Press, QueueKey
<1>5. reader' \in [Browsers -> {"idle", "key", "reset"}]
    BY <1>4 DEF IInv, TypeOK
<1>6. TypeOK'
    BY <1>1, <1>2, <1>3, <1>5 DEF IInv, TypeOK
<1>7. PhaseTellsTruth'
    BY <1>2 DEF IInv, PhaseTellsTruth
<1>8. Asking' = Asking
    <2>1. reader[b] # "reset"
        BY DEF Press, QueueKey
    <2>2. CASE reader' = reader
        BY <2>2 DEF Asking
    <2> QED
        BY <1>4, <2>1, <2>2, OthersStillAsk
<1>9. AllAskedFor'
    BY <1>2, <1>8 DEF IInv, AllAskedFor, Pending
<1> QED
    BY <1>6, <1>7, <1>9 DEF IInv

(* The interval begins when the reader takes its turn, not when it queues.   *)
LEMMA RequestResetIInv == ASSUME IInv, NEW b \in Browsers, RequestReset(b) PROVE IInv'
<1>1. TypeOK'
    <2>1. intervals' \in Nat
        BY DEF IInv, TypeOK, RequestReset
    <2>2. /\ cooling' \in BOOLEAN /\ reader' \in [Browsers -> {"idle", "key", "reset"}]
          /\ UNCHANGED <<loop, restored, machine, csi, phase, keys, resets, connected, wanted>>
        BY DEF IInv, TypeOK, RequestReset, machines
    <2> QED
        BY <2>1, <2>2 DEF IInv, TypeOK
<1>2. PhaseTellsTruth'
    BY DEF IInv, RequestReset, machines, PhaseTellsTruth
<1>3. machine' = machine /\ Pending' = Pending
    BY DEF RequestReset, machines, Pending
<1>4. IsFiniteSet(Asking) /\ Cardinality(Asking) \in Nat
    BY FS_CardinalityType DEF IInv, AllAskedFor
<1>5. /\ IsFiniteSet(Asking')
      /\ \/ Cardinality(Asking') = Cardinality(Asking) /\ intervals' = intervals
         \/ Cardinality(Asking') = Cardinality(Asking) + 1 /\ intervals' = intervals + 1
    <2>1. CASE cooling
        <3>1. Asking' = Asking /\ intervals' = intervals
            BY <2>1 DEF RequestReset, Asking
        <3> QED
            BY <1>4, <3>1
    <2>2. CASE ~ cooling
        <3>1. Asking' = Asking \union {b} /\ b \notin Asking /\ intervals' = intervals + 1
            BY <2>2 DEF IInv, TypeOK, Asking, RequestReset
        <3> QED
            BY <3>1, <1>4, FS_AddElement
    <2> QED
        BY <2>1, <2>2
<1>6. machine \in Nat /\ Pending \in Nat /\ intervals \in Nat
    BY DEF IInv, TypeOK, Pending
<1> HIDE DEF Pending, Asking
<1>7. AllAskedFor'
    BY <1>3, <1>4, <1>5, <1>6 DEF IInv, AllAskedFor
<1> QED
    BY <1>1, <1>2, <1>7 DEF IInv

(* Queueing turns one that asks into one that is pending, or folds it into   *)
(* the one pending already.                                                  *)
LEMMA QueueResetIInv == ASSUME IInv, NEW b \in Browsers, QueueReset(b) PROVE IInv'
<1>1. TypeOK'
    BY DEF IInv, TypeOK, QueueReset, machines, folding, budgets
<1>2. PhaseTellsTruth'
    BY DEF IInv, QueueReset, machines, PhaseTellsTruth
<1>3. machine' = machine /\ Pending' <= Pending + 1 /\ intervals' = intervals
    BY DEF IInv, TypeOK, QueueReset, machines, folding, Pending
<1>4. IsFiniteSet(Asking) /\ Cardinality(Asking) \in Nat
    BY FS_CardinalityType DEF IInv, AllAskedFor
<1>5. Asking' = Asking \ {b} /\ b \in Asking
    BY DEF IInv, TypeOK, QueueReset, Asking
<1>6. IsFiniteSet(Asking') /\ Cardinality(Asking') = Cardinality(Asking) - 1
    BY <1>4, <1>5, FS_RemoveElement
<1>7. machine \in Nat /\ Pending \in Nat /\ Pending' \in Nat /\ intervals \in Nat
    BY DEF IInv, TypeOK, Pending
<1> HIDE DEF Pending, Asking
<1>8. AllAskedFor'
    BY <1>3, <1>4, <1>6, <1>7 DEF IInv, AllAskedFor
<1> QED
    BY <1>1, <1>2, <1>8 DEF IInv

-----------------------------------------------------------------------------
LEMMA NextIInv == IInv /\ [Next]_vars => IInv'
<1> SUFFICES ASSUME IInv, [Next]_vars PROVE IInv'
    OBVIOUS
<1>1. CASE Loop
    BY <1>1, SafePointIInv, DrainKeyIInv, WaitForResetIInv, DiscardKeyIInv, PlainStepIInv,
       BuildIInv DEF Loop
<1>2. CASE StepFails \/ BuildFails \/ Stop
    BY <1>2, PlainStepIInv
<1>3. ASSUME NEW b \in Browsers,
             Connect(b) \/ Press(b) \/ RequestReset(b) \/ Reader(b)
      PROVE  IInv'
    BY <1>3, ConnectIInv, KeyReaderIInv, RequestResetIInv, QueueResetIInv DEF Reader
<1>4. CASE Cool
    <2>1. TypeOK'
        BY <1>4 DEF IInv, TypeOK, Cool, machines, folding, sockets, budgets
    <2>2. PhaseTellsTruth'
        BY <1>4 DEF IInv, Cool, machines, PhaseTellsTruth
    <2>3. AllAskedFor'
        BY <1>4 DEF IInv, Cool, machines, folding, sockets, budgets, AllAskedFor, Pending, Asking
    <2> QED
        BY <2>1, <2>2, <2>3 DEF IInv
<1>5. CASE UNCHANGED vars
    BY <1>5 DEF vars, machines, folding, sockets, budgets, IInv, TypeOK, PhaseTellsTruth, AllAskedFor,
                Pending, Asking
<1> QED
    BY <1>1, <1>2, <1>3, <1>4, <1>5 DEF Next

(* The invariant of the loop, the queues and the readers.                    *)
THEOREM Invariance == Spec => []IInv
<1> QED
    BY InitIInv, NextIInv, PTL DEF Spec

(* Every variable keeps its type and both queues their limits.               *)
THEOREM TypeCorrect == Spec => []TypeOK
<1>1. IInv => TypeOK
    BY DEF IInv
<1> QED
    BY <1>1, Invariance, PTL

(* The page is told the truth about whether a machine runs.                  *)
THEOREM PhaseIsTheTruth == Spec => []PhaseTellsTruth
<1>1. IInv => PhaseTellsTruth
    BY DEF IInv
<1> QED
    BY <1>1, Invariance, PTL

(* Requests within one interval never make two machines, however many       *)
(* browsers ask and however slowly their readers queue what they asked.     *)
THEOREM NoRebuildUnasked == Spec => []RebuildsAreAskedFor
<1>1. IInv => RebuildsAreAskedFor
    <2> SUFFICES ASSUME IInv PROVE machine + Pending <= intervals
        BY DEF RebuildsAreAskedFor, Pending
    <2>1. Cardinality(Asking) \in Nat
        BY FS_CardinalityType DEF IInv, AllAskedFor
    <2>2. machine \in Nat /\ Pending \in Nat /\ intervals \in Nat
        BY DEF IInv, TypeOK, Pending
    <2> HIDE DEF Pending, Asking
    <2> QED
        BY <2>1, <2>2 DEF IInv, AllAskedFor
<1> QED
    BY <1>1, Invariance, PTL

-----------------------------------------------------------------------------
(* How old a key can be when it arrives.                                     *)

(* A rebuild empties the queue before it builds, so that what is queued then *)
(* was queued against the machine just given up.                             *)
Young ==
    \A i \in 1..Len(keys) :
        machine - 1 <= keys[i] /\ (loop = "build" => keys[i] = machine)

(* A key that arrives is of the machine it arrives at, or of the one that    *)
(* machine replaced.                                                         *)
KeysOutliveOneMachine == csi' > csi => machine - 1 <= Head(keys)

LEMMA FewerStayYoung ==
    ASSUME IInv, Young, keys # <<>>, keys' = Tail(keys), machine' = machine, loop' # "build"
    PROVE  Young'
<1>1. keys \in Seq(0..machine)
    BY DEF IInv, TypeOK
<1>2. Len(keys) \in Nat /\ Len(keys') = Len(keys) - 1
      /\ \A i \in 1..Len(keys') : keys'[i] = keys[i + 1]
    BY <1>1
<1>3. \A i \in 1..Len(keys') : i + 1 \in 1..Len(keys)
    BY <1>2
<1> QED
    BY <1>2, <1>3 DEF Young

LEMMA QueuedStaysYoung ==
    ASSUME IInv, Young, NEW b \in Browsers, QueueKey(b) PROVE Young'
<1>1. keys \in Seq(0..machine) /\ machine \in Nat
    BY DEF IInv, TypeOK
<1>2. UNCHANGED <<loop, machine>> /\ keys' \in {keys, Append(keys, machine)}
    BY DEF QueueKey, machines
<1>3. CASE keys' = Append(keys, machine)
    <2>1. /\ Len(keys') = Len(keys) + 1 /\ Len(keys) \in Nat
          /\ \A i \in 1..Len(keys) : keys'[i] = keys[i]
          /\ keys'[Len(keys) + 1] = machine
        BY <1>1, <1>3
    <2> QED
        BY <1>1, <1>2, <2>1 DEF Young
<1>4. CASE keys' = keys
    BY <1>2, <1>4 DEF Young
<1> QED
    BY <1>2, <1>3, <1>4

LEMMA YoungKeeps == ASSUME IInv, Young, [Next]_vars PROVE Young'
<1>1. CASE DrainKey \/ DiscardKey
    <2>1. keys # <<>> /\ keys' = Tail(keys) /\ machine' = machine /\ loop' # "build"
        BY <1>1 DEF DrainKey, DiscardKey, machines
    <2> QED
        BY <2>1, FewerStayYoung
<1>2. CASE DiscardedKeys
    BY <1>2 DEF DiscardedKeys, Young
<1>3. CASE Build
    BY <1>3 DEF Build, Young, IInv, TypeOK
<1>4. CASE \E b \in Browsers : QueueKey(b)
    BY <1>4, QueuedStaysYoung
<1>5. CASE UNCHANGED <<keys, machine>> /\ (loop' = "build" => loop = "build")
    BY <1>5 DEF Young
<1>6. CASE SafePoint \/ DrainedKeys \/ Step \/ HaltMachine \/ WaitForReset \/ Announce
    BY <1>5, <1>6 DEF SafePoint, TakeReset, DrainedKeys, Step, HaltMachine, WaitForReset, Announce
<1>7. CASE StepFails \/ BuildFails \/ Stop \/ Cool \/ UNCHANGED vars
    BY <1>5, <1>7 DEF StepFails, BuildFails, Stop, Cool, vars, machines
<1>8. CASE \E b \in Browsers : Connect(b) \/ Press(b) \/ RequestReset(b) \/ QueueReset(b)
    BY <1>5, <1>8 DEF Connect, Press, RequestReset, QueueReset, machines
<1> QED
    BY <1>1, <1>2, <1>3, <1>4, <1>6, <1>7, <1>8 DEF Next, Loop, Reader

(* What is true beside KeysStayWithTheirMachine, which the code breaks: the  *)
(* key that slips through a rebuild (main.go:396, 415) slips through one,    *)
(* however many resets, presses and browsers there are.                      *)
THEOREM OldKeysAreOneRebuildOld == Spec => [][KeysOutliveOneMachine]_vars
<1>1. Init => Young
    BY DEF Init, Young
<1>2. IInv /\ Young /\ [Next]_vars => [KeysOutliveOneMachine]_vars
    <2> SUFFICES ASSUME IInv, Young, Next, csi' > csi PROVE machine - 1 <= Head(keys)
        BY DEF KeysOutliveOneMachine
    <2>1. DrainKey
        <3>1. csi \in Nat
            BY SessionAssumption DEF IInv, TypeOK
        <3>2. ~ (Step \/ Build)
            BY <3>1, SessionAssumption DEF Step, Build, IInv, TypeOK
        <3>3. csi' # csi
            BY <3>1
        <3>4. ~ (SafePoint \/ DrainedKeys \/ HaltMachine \/ WaitForReset \/ DiscardKey
                 \/ DiscardedKeys \/ Announce)
            BY <3>3 DEF SafePoint, TakeReset, DrainedKeys, HaltMachine, WaitForReset,
                        DiscardKey, DiscardedKeys, Announce, machines
        <3>5. ~ (StepFails \/ BuildFails \/ Stop \/ Cool)
            BY <3>3 DEF StepFails, BuildFails, Stop, Cool, machines
        <3>6. \A b \in Browsers : ~ (Connect(b) \/ Press(b) \/ RequestReset(b) \/ Reader(b))
            BY <3>3 DEF Connect, Press, RequestReset, Reader, QueueKey, QueueReset, machines
        <3> QED
            BY <3>2, <3>4, <3>5, <3>6 DEF Next, Loop
    <2>2. keys \in Seq(0..machine) /\ keys # <<>>
        BY <2>1 DEF IInv, TypeOK, DrainKey
    <2>3. Head(keys) = keys[1] /\ 1 \in 1..Len(keys)
        BY <2>2
    <2> QED
        BY <2>3 DEF Young
<1> QED
    BY <1>1, <1>2, YoungKeeps, Invariance, PTL DEF Spec
=============================================================================
