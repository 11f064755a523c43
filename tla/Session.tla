------------------------------ MODULE Session ------------------------------
(***************************************************************************)
(* One process and the machines it runs (cmd/goretrotv/main.go), with the  *)
(* browsers' keys and resets (internal/web/transport.go).  A socket reader *)
(* per browser checks and queues what is pressed; one loop owns the        *)
(* machine, takes resets and keys at its safe points, and replaces the     *)
(* machine when a browser asks for it, halted or not.                      *)
(*                                                                         *)
(* A queued key is modelled by the machine it was queued against.          *)
(***************************************************************************)
EXTENDS Integers, Sequences

CONSTANTS
    Browsers,
    KeyQueueLimit,  \* keys waiting for the loop (64)
    CsiLimit,       \* keys the CSI link holds before it refuses one
    MaxPresses, MaxRequests, MaxVisits  \* bounds: what one history may do

ASSUME SessionAssumption ==
    /\ KeyQueueLimit \in Nat \ {0} /\ CsiLimit \in Nat
    /\ MaxPresses \in Nat /\ MaxRequests \in Nat /\ MaxVisits \in Nat

VARIABLES
    loop,        \* where the loop is
    restored,    \* the machines start from the acquired snapshot, else cold
    machine,     \* which machine the loop owns
    csi,         \* keys in its CSI link
    phase,       \* the state browsers are told, and keys are checked against
    keys,        \* Transport.keys
    resets,      \* Transport.resets holds a rebuild
    cooling,     \* less than resetInterval since lastReset
    connected, reader,  \* each socket, and what its reader has checked
    intervals,   \* history: the intervals begun, one by each such request
    wanted,      \* history: a reset was queued that no rebuild has taken
    pressesLeft, requestsLeft, visitsLeft

machines == <<loop, restored, machine, csi, phase>>
sockets == <<connected, reader>>
budgets == <<pressesLeft, requestsLeft, visitsLeft>>
folding == <<cooling, intervals>>
vars == <<machines, keys, resets, folding, sockets, wanted, budgets>>

ColdPhases == {"booting", "flash-check", "channel-list"}

-----------------------------------------------------------------------------
(* The socket readers.  A key is checked under the lock and queued after    *)
(* it; a reset is counted under the lock and queued after it.               *)

Connect(b) ==
    /\ ~ connected[b] /\ visitsLeft > 0
    /\ connected' = [connected EXCEPT ![b] = TRUE]
    /\ visitsLeft' = visitsLeft - 1
    /\ UNCHANGED <<machines, keys, resets, folding, reader, wanted, pressesLeft, requestsLeft>>

(* A key for a box that is not ready costs the browser its socket.          *)
Press(b) ==
    /\ connected[b] /\ reader[b] = "idle" /\ pressesLeft > 0
    /\ pressesLeft' = pressesLeft - 1
    /\ IF phase = "ready"
       THEN reader' = [reader EXCEPT ![b] = "key"] /\ UNCHANGED connected
       ELSE connected' = [connected EXCEPT ![b] = FALSE] /\ UNCHANGED reader
    /\ UNCHANGED <<machines, keys, resets, folding, wanted, requestsLeft, visitsLeft>>

QueueKey(b) ==
    /\ reader[b] = "key"
    /\ reader' = [reader EXCEPT ![b] = "idle"]
    /\ IF Len(keys) < KeyQueueLimit
       THEN keys' = Append(keys, machine) /\ UNCHANGED connected
       ELSE connected' = [connected EXCEPT ![b] = FALSE] /\ UNCHANGED keys
    /\ UNCHANGED <<machines, resets, folding, wanted, budgets>>

(* Mutant: the time of the last request is set and not looked at.           *)
RequestResetMutantNoFold(b) ==
    /\ connected[b] /\ reader[b] = "idle" /\ requestsLeft > 0
    /\ requestsLeft' = requestsLeft - 1
    /\ intervals' = IF cooling THEN intervals ELSE intervals + 1
    /\ cooling' = TRUE /\ reader' = [reader EXCEPT ![b] = "reset"]
    /\ UNCHANGED <<machines, keys, resets, connected, wanted, pressesLeft, visitsLeft>>

(* A request inside the interval is folded into the one before.             *)
RequestReset(b) ==
    /\ connected[b] /\ reader[b] = "idle" /\ requestsLeft > 0
    /\ requestsLeft' = requestsLeft - 1
    /\ intervals' = IF cooling THEN intervals ELSE intervals + 1
    /\ IF cooling THEN UNCHANGED <<cooling, reader>>
       ELSE cooling' = TRUE /\ reader' = [reader EXCEPT ![b] = "reset"]
    /\ UNCHANGED <<machines, keys, resets, connected, wanted, pressesLeft, visitsLeft>>

QueueReset(b) ==
    /\ reader[b] = "reset"
    /\ reader' = [reader EXCEPT ![b] = "idle"]
    /\ resets' = TRUE
    /\ wanted' = TRUE
    /\ UNCHANGED <<machines, keys, folding, connected, budgets>>

(* resetInterval passes on the wall clock.                                  *)
Cool ==
    /\ cooling
    /\ cooling' = FALSE
    /\ UNCHANGED <<intervals, machines, keys, resets, sockets, wanted, budgets>>

-----------------------------------------------------------------------------
(* runInstructions.  A safe point looks for a reset, then hands every       *)
(* queued key to the CSI link, then transmits, pumps and steps.             *)

TakeReset ==
    /\ resets' = FALSE
    /\ wanted' = FALSE
    /\ loop' = "discard"
    /\ UNCHANGED <<restored, machine, csi, phase, keys, folding, sockets, budgets>>

(* Mutant: the safe point does not look for keys.                           *)
SafePointMutantSkipsKeys ==
    /\ loop = "run"
    /\ \/ resets /\ TakeReset
       \/ /\ ~ resets
          /\ loop' = "step"
          /\ UNCHANGED <<restored, machine, csi, phase, keys, resets, folding, sockets,
                         wanted, budgets>>

SafePoint ==
    /\ loop = "run"
    /\ \/ resets /\ TakeReset
       \/ /\ ~ resets
          /\ loop' = "keys"
          /\ UNCHANGED <<restored, machine, csi, phase, keys, resets, folding, sockets,
                         wanted, budgets>>

(* A key the link has no room for ends the machine.                         *)
DrainKey ==
    /\ loop = "keys" /\ keys # <<>>
    /\ keys' = Tail(keys)
    /\ IF csi < CsiLimit THEN csi' = csi + 1 /\ UNCHANGED loop
       ELSE loop' = "halt" /\ UNCHANGED csi
    /\ UNCHANGED <<restored, machine, phase, resets, folding, sockets, wanted, budgets>>

DrainedKeys ==
    /\ loop = "keys" /\ keys = <<>>
    /\ loop' = "step"
    /\ UNCHANGED <<restored, machine, csi, phase, keys, resets, folding, sockets, wanted,
                   budgets>>

(* The guest takes keys off the link meanwhile; a machine that started cold *)
(* reports how far it has come, and never reports "ready".                  *)
Step ==
    /\ loop = "step"
    /\ loop' = "run"
    /\ csi' \in 0..csi
    /\ phase' \in IF restored THEN {phase} ELSE ColdPhases
    /\ UNCHANGED <<restored, machine, keys, resets, folding, sockets, wanted, budgets>>

(* A transmitter, pump, playout, step or frame error.                       *)
StepFails ==
    /\ loop = "step"
    /\ loop' = "halt"
    /\ UNCHANGED <<restored, machine, csi, phase, keys, resets, folding, sockets, wanted,
                   budgets>>

-----------------------------------------------------------------------------
(* runMachine.                                                              *)

(* Mutant: the browsers are not told.                                       *)
HaltMachineMutantSilent ==
    /\ loop = "halt"
    /\ loop' = "waiting"
    /\ UNCHANGED <<restored, machine, csi, phase, keys, resets, folding, sockets, wanted,
                   budgets>>

HaltMachine ==
    /\ loop = "halt"
    /\ phase' = "halted"
    /\ loop' = "waiting"
    /\ UNCHANGED <<restored, machine, csi, keys, resets, folding, sockets, wanted, budgets>>

(* Mutant: a halted machine waits for the process to stop and nothing else. *)
WaitForResetMutantNever ==
    /\ loop = "waiting" /\ resets /\ loop = "run"
    /\ TakeReset

WaitForReset ==
    /\ loop = "waiting" /\ resets
    /\ TakeReset

(* The second DrainKeys, which throws the keys away.                        *)
DiscardKey ==
    /\ loop = "discard" /\ keys # <<>>
    /\ keys' = Tail(keys)
    /\ UNCHANGED <<machines, resets, folding, sockets, wanted, budgets>>

DiscardedKeys ==
    /\ loop = "discard" /\ keys = <<>>
    /\ loop' = "build"
    /\ UNCHANGED <<restored, machine, csi, phase, keys, resets, folding, sockets, wanted,
                   budgets>>

(* startBox.                                                                *)
Build ==
    /\ loop = "build"
    /\ machine' = machine + 1
    /\ csi' = 0
    /\ loop' = "announce"
    /\ UNCHANGED <<restored, phase, keys, resets, folding, sockets, wanted, budgets>>

(* startBox, or publishing the new machine's first frame, fails.            *)
BuildFails ==
    /\ loop \in {"build", "announce"}
    /\ phase' = "halted"
    /\ loop' = "dead"
    /\ UNCHANGED <<restored, machine, csi, keys, resets, folding, sockets, wanted, budgets>>

Announce ==
    /\ loop = "announce"
    /\ phase' = IF restored THEN "ready" ELSE "booting"
    /\ loop' = "run"
    /\ UNCHANGED <<restored, machine, csi, keys, resets, folding, sockets, wanted, budgets>>

(* The process is shutting down.                                            *)
Stop ==
    /\ loop \in {"run", "waiting"}
    /\ loop' = "stopped"
    /\ UNCHANGED <<restored, machine, csi, phase, keys, resets, folding, sockets, wanted,
                   budgets>>

Loop ==
    \/ SafePoint \/ DrainKey \/ DrainedKeys \/ Step
    \/ HaltMachine \/ WaitForReset
    \/ DiscardKey \/ DiscardedKeys \/ Build \/ Announce

-----------------------------------------------------------------------------
Init ==
    /\ loop = "run"
    /\ restored \in BOOLEAN
    /\ machine = 0 /\ csi = 0
    /\ phase = IF restored THEN "ready" ELSE "booting"
    /\ keys = <<>> /\ resets = FALSE /\ cooling = FALSE /\ intervals = 0
    /\ connected = [b \in Browsers |-> FALSE]
    /\ reader = [b \in Browsers |-> "idle"]
    /\ wanted = FALSE
    /\ pressesLeft = MaxPresses /\ requestsLeft = MaxRequests /\ visitsLeft = MaxVisits

Reader(b) == QueueKey(b) \/ QueueReset(b)

Next ==
    \/ Loop
    \/ StepFails
    \/ BuildFails
    \/ Stop
    \/ Cool
    \/ \E b \in Browsers : Connect(b) \/ Press(b) \/ RequestReset(b) \/ Reader(b)

Spec == Init /\ [][Next]_vars

(* The loop and every reader keep being scheduled.                          *)
FairSpec == Spec /\ WF_vars(Loop) /\ \A b \in Browsers : WF_vars(Reader(b))

-----------------------------------------------------------------------------
(* Every variable has its type; both queues keep their limits.             *)
TypeOK ==
    /\ loop \in {"run", "keys", "step", "halt", "waiting", "discard", "build", "announce",
                 "dead", "stopped"}
    /\ restored \in BOOLEAN /\ machine \in Nat /\ csi \in 0..CsiLimit
    /\ phase \in ColdPhases \union {"ready", "halted"}
    /\ keys \in Seq(0..machine) /\ Len(keys) <= KeyQueueLimit
    /\ resets \in BOOLEAN /\ cooling \in BOOLEAN /\ intervals \in Nat /\ wanted \in BOOLEAN
    /\ connected \in [Browsers -> BOOLEAN]
    /\ reader \in [Browsers -> {"idle", "key", "reset"}]

(* The page says "halted" when the loop has given up a machine, and never   *)
(* while it runs one.                                                       *)
PhaseTellsTruth ==
    /\ loop \in {"waiting", "dead"} => phase = "halted"
    /\ loop \in {"run", "keys", "step"} => phase # "halted"

(* A rebuild that is queued is the promise of a machine built after it: the *)
(* request is not lost to one already pending, to a machine that halts, or  *)
(* to a rebuild that had already begun.                                     *)
ResetIsHonoured ==
    wanted ~> (loop = "announce" /\ ~ wanted) \/ loop \in {"dead", "stopped"}

(* Requests made within one interval, by whatever browsers, never make two  *)
(* machines: every rebuild done, under way or pending has an interval of    *)
(* its own behind it.                                                       *)
RebuildsAreAskedFor ==
    LET pending == (IF resets THEN 1 ELSE 0) + (IF loop \in {"discard", "build"} THEN 1 ELSE 0)
    IN  machine + pending <= intervals

(* Keys do not wait for ever on a machine that runs.                        *)
KeysAreTaken ==
    keys # <<>> ~> keys = <<>> \/ loop \in {"waiting", "dead", "stopped"}

(* "Keys queued against the machine that is going away must not arrive at   *)
(* the one replacing it."                                                   *)
KeysStayWithTheirMachine ==
    [][csi' > csi => Head(keys) = machine]_vars
=============================================================================
