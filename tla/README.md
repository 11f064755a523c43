# Verification of GoRetroTV

TLA+ specifications of the parts of GoRetroTV whose correctness depends on the
order in which things happen, with TLC configurations that check them on small
instances and TLAPS proofs of the ones that matter most for every instance.
Paths are relative to the repository's root. Every definition was written from
the code; `PROJECT.json` names, for each, the lines it stands for.

GoRetroTV runs the original firmware of a Pace Digibox on an interpreted
board. One goroutine, *the loop*, owns the machine: it executes guest
instructions, and between batches of them (a *safe point*) it takes what
browsers asked for, transmits broadcast sections, moves programme media and
publishes the screen. All guest time is a count of retired instructions.
Around the loop run the HTTP goroutines of each browser and the goroutines
that serve two ffmpeg processes.

The board exists twice. `reference/digibox-boot.html` with
`reference/mips16.js` is the older emulator, a page: the Go one was ported from
it and is compared with it. It is also the laboratory: `tools/digibox-probe.mjs`
boots it in a browser and runs *probes* in it, JavaScript files that arm the
page's instruments, press keys, feed sections and read what happened.

## 1. Inventory

| Component | State | Operations | What makes it correct |
|---|---|---|---|
| Instruction clock `internal/platform/clock` | the count, a heap of events, live ids, a cached next due count | Tick, Advance, At/After/Every, Cancel, Budget, NextDue, Reset/RestoreTo, Snapshot, Restore | nothing is overdue; firing order is a function of the registrations; cancellation is final; a snapshot of a clock at rest restores |
| CSI link `internal/device/csi` | registers, key queue, reply queue, outgoing and incoming framing state, pacing | register reads and writes, Pump, Key, card replies | messages arrive whole, once and in order; both ends agree on framing; keys are not starved |
| Wave scheduler `internal/broadcast/carousel.go` | next instant of six rungs, when three of them first went out | Wave, NextDue | a rung waits for the one below; the loop never sleeps past a due rung |
| Multiplex and guide `internal/multiplex` | schedule, stamp, SI version, title/index cursors, continuity | Pump, sources of each rung, Reload, MediaPlayout | an edit reaches the box; caches keyed by version are invalidated; no section is starved |
| Emulator loop `cmd/goretrotv/main.go`, `status.go` | the machine, playout session, phase | halt, wait for reset, rebuild, drain keys, step | the page is told the truth; resets are honoured; keys stay with their machine |
| Browser transport `internal/web/transport.go` | phase, palette, last frame, one mailbox per client, key and reset channels | PushFrame/State/Audio, Accept, DrainKeys, TakeReset | the canvas equals the screen; the newest image is never the one lost |
| Browser client `web/` | canvas, palette epoch, connection, audio clock | message handlers, reconnect | it never has to refuse a message of a correct server |
| Playout `cmd/goretrotv/playout.go`, `internal/media` | encoder and decoder processes, bounded queues, bursts | start, pump, present, close | nothing lost or orphaned, close returns, a programme ends |
| Demux `internal/device/demux` | filters, section ring, partial sections, programme transport | register writes, Push, Pump, TakeProgrammeTransport | sections delivered whole to the filter that matches; the ring does not overrun |
| Board `internal/board`, irq, hwtimer, boardlatch | lines, pending/enable, timer phase | the pump chain, Write, SetLine, Pulse | the pump re-arms itself; lines follow their causes, also after a restore |
| Serial devices: modem, smartcard, i2c, eeprom, demod | UART queues, paced replies, bus transaction, image | register accesses, Pump, Persist | replies are paced and complete; persisted bytes survive |
| Memory, flash, DMA, blitter, OSD, CPU | bytes, command state, registers | reads, writes, runs, instructions | functional correctness against the oracle |
| Snapshots `internal/bus`, `platform/snapcodec`, `internal/machine` | one blob per device | Snapshot, Restore | all or nothing; a restored machine continues as the original |
| Host interventions `internal/machine/handoff.go`, `sky_gates.go` | idle counter, applied flags | Tick | applied once, wholly or not at all |
| Reference executor `reference/mips16.js` | registers, hi and lo, the pending jump | decode, step, exec of each kind, disassemble | every decodable halfword is executed as the manual says; sweep and step agree |
| Decode cache `mips16.js` step, `digibox-boot.html` store | address map, direct-mapped front with size and generation | lookup, fill, evict, switch | nothing runs that memory no longer holds |
| Probes `tools/digibox-probe.mjs`, `tools/probes/*.js` | call trace, read and write watches, EEPROM log, breakpoints, profiler, carousel of the page | arm, clear, wait, read, disarm, feed, resume, throw, return | a reading is the probe's own, of a machine that ran; nothing is left armed or stopped for the next |
| Tooling: gdbstub, firmwaretrace, oracle, statehash, instruments, httpx, config, logging | | | development and start-up code |

How they interact. The loop calls everything below it synchronously: the
clock's handler `pump` calls each device's `Pump`; the multiplex pushes
sections into the demultiplexer; the playout session exchanges transport
packets with it. Across goroutines there are only channels and one mutex:
`Transport.keys` (64) and `Transport.resets` (1) towards the loop, a one-place
mailbox per kind and client from it, and the bounded channels of the encoder
and decoder. Outside the process there are the schedule file an operator
edits, the ffmpeg processes, and the browsers. In the laboratory everything is
one JavaScript thread: the page's machine moves only while a probe awaits, and
probes meet only through what the last one left on the page.

What is hard: a check under the lock followed by an act after it (keys);
latest-only mailboxes with two parties emptying them; differences computed
against what was *sent* rather than what was *drawn*; a blocking close on the
goroutine that would have to drain the channel being waited on; files read
and stamped in two steps; byte streams of two sources sharing one register;
handlers that change the queue they are fired from; a cache that learns of
its evictions from one number; instruments shared by scripts that do not know
of each other; and every cap in the system. `PROJECT.json` lists them under `hazards`, each at its line.

## 2. Modules

| Module | Models | State and actions |
|---|---|---|
| `InstructionClock` | `clock.go`, `snapshot.go` | The heap is a set ordered by `Less`; the cached deadline is a variable, so forgetting to refresh it is expressible. `Advance` is split where handlers run (`Fire`, `HandlerReturns`, `HandlerFails`, `Arrive`), so a handler's calls to At, Every, Cancel and Snapshot interleave with the firing as in the code. A snapshot is also taken of a failed clock, as a machine does that may have to roll back; Restore and RestoreTo (Reset) are called between advances and after a failure, never by a handler, and after a failure nothing else is. The counter is `0..MaxCount`, whose top is the 64-bit top: `FireOverflows` is the error path. |
| `InstructionClockProofs` | | section 5 |
| `CsiFraming` | escape encoding and the de-framer | pure operators and a recursive function; that the receiver undoes the encoder is proved (section 5) |
| `CsiWire` | what the link promises | two queues of messages, whole deliveries, no bytes |
| `CsiLink` | `link.go`, `peripheral.go` | one byte per `Pump` step; the firmware (external) writes commands byte by byte and reads the register at will; `owedKeys`, `owedReplies`, `received` are history, through which it refines `CsiWire` |
| `CsiLinkProofs` | | section 5 |
| `Carousel` | `carousel.go` | instants relative to now; `Wave` and `NextDue` as operators the composing module uses |
| `Multiplex` | `multiplex.go`, `listings.go` | EXTENDS `Carousel`: one `Pump` is a whole wave with its reload; the box arms and disarms filters, midnight passes, the operator saves at any moment, between reading and stamping included |
| `MultiplexProofs` | | section 5 |
| `Session` | `main.go`, `status.go`, the key and reset half of `transport.go` | one reader per browser with its check and its send apart; the loop's safe point, halting, draining, rebuilding and announcing as steps of their own |
| `SessionProofs` | | section 5 |
| `Viewer` | the publishing half of `transport.go`, `web/app.ts` | the three tries of `offerLatest` are separate steps; the writer takes from the mailbox without the lock; the page rebuilds the canvas from full and partial frames |
| `ViewerProofs` | | section 5 |
| `Playout` | `playout.go`, `encoder.go`, `decoder.go`, the media part of `main.go`, `demux/transport.go` | loop, reader goroutine of the encoder, writer and reader of the decoder, with every select an alternative; ffmpeg external |
| `PlayoutProofs` | | section 5 |
| `Board` | `irq/controller.go`, `hwtimer/timer.go`, the lines of `modem/uart.go`, `smartcard/port.go`, `i2c/controller.go` and `demux/registers.go`, the latch of `cpu/core.go`, the pump of `board/runtime.go` | the controller's operations are functions from one state of it to the next; `Pump` is one call of the clock's handler with its devices in order; the firmware's handler (external) reads the pending lines once and serves them in any order, each read and each acknowledgement a step; `Resume` is a restore of the machine in any state |
| `BoardProofs` | | section 5 |
| `Mips16` | `mips16.js`: `decode`, `step`, `exec`, `execSave`, `execRestore`, `disassemble` | words of `W` bits with the wrap-around of 32; `StepOk` is one call of `step()`, `StepFails` one it refuses; `Enumerate` passes every halfword through `decode` beside it |
| `Mips16Arithmetic` | `mul64`, `div` and `divu` of `exec` | words of two halves, of any size: a module of its own because bit operations and the recursive sweep keep `Mips16` out of the prover's reach |
| `DecodeCache` | the cache of `step()`, the eviction of `store()`, and who else changes code or control: `flashWrite`, `__dcache`, `reset`, `accept`, `runCall` | memory, the map, the front with its size, generation and tags; an instruction may store anywhere and go anywhere, a jump owns a slot |
| `ProbeOps` | the helpers probes share | an operation is a record; a probe is a sequence of them, with conditions on measurements as free choices and loops unrolled to two passes |
| `ProbesDrawing`, `ProbesFeeding`, `ProbesBox` | `tools/probes/*.js` | one definition per file, 76 in all: menu drawing, feeding sections, and the rest of the box |
| `ProbeRig` | `digibox-probe.mjs` and the page's instruments | executes a probe one operation a step; each log remembers only whose its oldest entry is, each instrument who armed it |
| `ProbeDiscipline` | | what is certain of the instruments before each operation of a file (section 5) |
| `ReferencePageProofs` | | section 5 |
| `MC*` | | values of the constants for TLC |

A queued key is represented by the machine it was queued against, an image by
its number, a packet by its session and place, a section by its name: what the
properties tell apart and no more. Byte values appear only in the CSI modules,
where framing is the subject.

## 3. Runs

| Run | Configuration | Shows |
|---|---|---|
| `clock` | `InstructionClock.cfg`, 3 events, counts to 4 | `NoneOverdue`, `BudgetIsSafe`, `SnapshotIsRestorable`, `CancelledNeverFires`, `FiringOrder` |
| `csi_link` | `CsiLink.cfg`, 2 keys, 2 commands, queues of 7 bytes | `QueuesHoldWholeFrames`, `FramingAgrees`, `NeverSpliced`, refinement of `CsiWire` (`ImplementsWire`), `EveryKeyArrives` |
| `multiplex` | `Multiplex.cfg`, 3 schedules of 1 or 2 sections, 2 edits, 2 versions, 2 changes by the box | `NeverSleepsPast`, `IndexIsFresh`, `TitlesComeRound`, `EditReachesBox` |
| `session` | `Session.cfg`, 2 browsers, 4 presses, 3 resets | `PhaseTellsTruth`, `RebuildsAreAskedFor`, `ResetIsHonoured`, `KeysAreTaken` |
| `viewer` | `Viewer.cfg`, 3 images of 3 pixels, 2 palettes, 2 visits | `CanvasIsTheFrame`, `NeverRefused`, `NewestNotLost`, `NewestGetsThere` |
| `playout` | `Playout.cfg`, 2 programmes of 2 chunks, 1 fault, cap of 3 packets | `NeverRefusedByItsOwn`, `NoOrphans`, `NothingLostOnTheWay`, `CloseReturns`, `ProgrammeEnds` |
| `board` | `Board.cfg`, 2 filters, periods of 2 pumps, frames, answers and transfers of 2 bytes, 2 uses | `LinesFollowCauses`, `CardBytesAreKept`, `CausesAreServed` |
| `decode_cache` | `DecodeCache.cfg`, 3 halfwords of DRAM and of flash, 2 slots, 2 generations, 2 disturbances | `FrontFollowsMap`, `RunsWhatIsWritten` |
| `mips16` | `Mips16.cfg`, words of 14 bits | `VocabularyIsTheTable`, `ProductsAndQuotients`, `FramesNest`, `SweepAgrees` |
| `probes` | `Probes.cfg`, 76 probes in any order, any number of times | `OwnReadings`, `MeasuresARunningMachine`, `EndsQuiet` |
| `keys_across_reset` | `KeysStayWithTheirMachine.cfg` | violated: a key pressed on the old machine reaches the new one |
| `programme_halt` | `NoMediaNoHarm.cfg` | violated: the programme queue fills without a session, and halts the box |

The type invariant of the clock is checked by its run too (`TypeOK`); those of
`CsiLink`, `Board`, `DecodeCache`, `Multiplex`, `Session`, `Viewer` and
`Playout` are proved; that of `Mips16` is there for the reader. Each property
has a mutant: a plausible bug written beside the definition it changes, which
breaks it.

Why the bounds are enough. Three events give every tie, a cancellation from
within another event's handler, and one bystander; counts to 4 reach the top,
where arming overflows. A payload of each kind of byte (plain, zero, escape)
and one message of each source waiting behind another produce every
interleaving at a frame boundary and within a frame; queues of 7 bytes fill.
Two section versions come round after two edits: a box that hears neither meets
the third line-up under the version of the first, so the case
`EditReachesBox` excuses is one the run reaches (without the excuse TLC
refutes the property). Two letters and two sections make the cursors turn. Two browsers are the smallest number with two readers past
the check. Three images are the smallest in which one is dropped between two
that are sent; with two palettes one of the drops may hide a palette change.
A cap of three packets is smaller than two chunks, so bursts are refused
admission and the loop meets a full queue. On the board two filters are one
whose section arrives while the other is being acknowledged; two bytes are a
first and a last one; periods of two pumps let a device's byte fall before,
between and after a tick; two uses (`MaxUses`: sections arriving, devices put to
use, masking, restores) are enough for two causes that meet, and every
mutant of the module needs no more. Three halfwords hold an instruction of two
with a neighbour on either side, at two aliases; two slots for six addresses
collide, two generations wrap. At 14 bits every product fits TLC's integers and
the operands sit around each boundary: sign, half word, byte; the programs of
`mips16` are 56 outer frames with 8 inner ones (every shape of the register
list at its ends), every pair of 15 operands through the four operations, and
every sequence of three out of a sample with an instruction of each form.
A probe may run after any number of others, since an instrument's owner is only
"mine" or "an earlier one's": the runs of `probes` have no bound. `MCProbes` also
computes what may be certain before each operation of each of the 76 files, and
TLC evaluates the two assumptions of the proof about them (`ScriptAssumption`,
`DisciplineAssumption`) for exactly these files. Counters of what a history may do
(`Max...Left`, `MaxUses`) are the only bounds that cut behaviour off. `MaxQueued` and the
other queue limits are the code's own, made small. `CHECK_DEADLOCK FALSE` is
said for `Session`, `Viewer`, `Playout`, `DecodeCache`, `Mips16` and `Probes`,
where the process may stop, a program end, a browser close, or
everyone have used up what a history may do.

Fairness. `Session`, `Multiplex` and `Playout`: the loop is a goroutine that
never parks outside the waits the models have, so weak fairness of its steps;
socket readers and the media goroutines are scheduled by the Go runtime. A
killed ffmpeg dies and a live one answers. Nothing obliges the guest, the
operator, a browser or the wall clock to do anything: no edit, press,
connection, fault or midnight is fair. `CsiLink`: the pump is called every 16
instructions and the firmware keeps servicing its interrupt and keeps clocking
its transmit register, which is what paces answers; its commands are finitely many, which is needed: answers
have priority, and firmware that asks without end would hold keys back, which
no run exercises.
`Board`: the clock calls the pump for ever, the core takes what it is offered and
the handler runs to its end: weak fairness of each. That the guest unmasks an
external line it has masked is strong fairness of `Unmask`, because a task
executes only between interrupts, which Count and Compare may raise again and
again; nothing else a task does is fair, so all claims are about causes the
guest has enabled while the timer runs.
`Viewer`: a ready case of Go's select is eventually chosen, so weak fairness
per case; sockets drain while they are open.

## 4. Findings

Two disagreements between the code and what it says of itself are shown by
runs: keys across a reset, and a channel without media that halts the box.
Others were met while modelling and are listed in `PROJECT.json` with both
sides quoted: the schedule stamped after it was read, the section
versions that come round after 32 reloads nobody heard, the rollback of a
machine whose clock had failed, the comment of `Budget`, the I2C line recomputed
by a restore, the overflow comment in `fireDue`, the events rung that
`NextDue` omits, the audio instruction a page keeps over a reset,
`ScheduleTransport`'s comment, the core's latch that any accepted interrupt
clears, the early return of the playout pump, the packets one session leaves to
the next, the pending jump the reference page carries over a reset or into a
called routine, the aliases and the flash its eviction forgets, the routine
call that fails without putting the program counter back, and of the probes the
write watches never dropped, the read watch abandoned, the pattern that never
matches and the logs read before they are cleared. The passing properties say what is
true beside them: `EditReachesBox` excuses an edit saved during a load and one that
completes a whole round of unheard versions; `SnapshotIsRestorable` names the one
reason for which a snapshot of a handler or of a failed clock is refused;
`NeverSleepsPast` leaves the events rung out; `NothingLostOnTheWay` is about a
session's own packets, and allows two of them to be missing once the decoder was
told there is no more; `RunsWhatIsWritten` speaks of the cached alias
outside a slot, and after a reset of code stored since; and the sets `Unswept`,
`Abandoned` and `NeverOff` of `MCProbes` name the probes `OwnReadings` and
`EndsQuiet` do not hold for.

## 5. Proofs

`InstructionClockProofs` (for every `MaxCount` and `MaxEvents`, from
`ClockAssumption`: both are naturals). The inductive invariant `IInv` joins:
`TypeOK`; `CacheInv`, that the cached deadline is the head's, in every phase
except after an error; `IdentityInv`, that the ids and sequence numbers of live
events are unique, whatever is queued is live and, until an Advance fails,
nothing else is; and `OrderInv`, that everything queued
comes after the last event fired, when no Advance is in progress after the
count, and never before it in a handler or after a failure either: so the one
thing `Restore` can hold against a snapshot taken there is an event due at the
count itself. `NoneOverdue` alone is not inductive: it holds only when idle, and
what carries it over a firing is the order against the last event and the
target. One lemma per operation shows it preserved. From it follow
`TypeCorrect`, `NothingIsEverOverdue`, `BudgetSafety`, `SnapshotsRestore`,
`CancellationHolds` and `FiresInOrder`.

`CsiLinkProofs` (for every set of keys, commands and answered codes, every
queue limit and pace, from `CsiAssumption`: messages of bytes, none empty).
The first lemmas are about the framing as such. A receiver is described
without recursion (`Makes`: the states along the bytes and the messages made so
far), it goes over a concatenation part by part, and `FlattenUnfolds` gives the
library's folded concatenation its equations. The induction in it is written as
the least counterexample (`UpTo`, from `WFMin` on the naturals), since the library's
induction theorems over a predicate cannot be instantiated here. From these `FramingIsFaithful`: what is encoded is one whole frame, of
which the receiver makes exactly the message. The safety invariant `IInv` is
the type, both queues framed from the escape state of the byte last sent,
agreement of the link with the receiver after the byte in the register, and
that an escape is only ever pending inside a frame; `TypeCorrect`,
`FramesStayWhole`, `EndsAgree` and `FramesAreNotSpliced` follow.
`LinkImplementsWire` is the refinement of `CsiWire`. It adds to `IInv` what ties
bytes to messages: `Owing`, that the guest's receiver, reading the byte held in
the register and then the queue that has the wire, makes exactly the messages
still owed of that source and ends fresh, and reading the other queue from
fresh those of the other; and `Heard`, that what `accept()` has kept of the
guest's command is as much as fits of what the guest is sending. Each action is
then a step of the wire or a stutter: a delivery is the step in which the guest
reads a terminator.

`BoardProofs` (for every set of filters, every period, delay and length the
code's constants could have, from `BoardAssumption`: numbers, the delays above
one pump). Lemmas first say what each operation of the controller does to the
pending bits, and that the card stays sound under a pump and under an
acknowledgement, both as values. `LinesFollowCauses` is then inductive with the
types alone. `CardBytesAreKept` is not: an acknowledgement clears the whole
status, and nothing in its statement says that no byte came since the driver
read it. The invariant `CardSound` says why none can: transmission enabled
excludes reception, so in the phase where `tx` is reported there is no byte, and in the
phase where bytes come the one reported keeps the next away. `HandlerInv` says that a
handler runs exactly while the core holds off interrupts, so what the driver has read
is never carried into a second handler. From it follow `TypeCorrect`,
`LinesAreCauses` and `CardBytesKept`. `CompletionIsKept` is the safety half of
`CausesAreServed` for the I2C controller, whose completion the driver waits
for: as long as it waits, the line is up, through pumps, acknowledgements of
other devices, handlers with an older copy of the pending bits, and restores;
the exception is the finding about a restore, a transfer nobody answered, whose
line a restored controller states as down. Its invariant adds that the driver
only waits with its interrupt enabled.

`ReferencePageProofs` is about three things. The decode cache (for every size, code, set of jumps, number of slots and
of generations, and any number of disturbances). Neither property is inductive.
The invariant adds what the code's comment calls its safety argument: what the
map holds now is a part of what `step()` left in it (`left`), so an equal size
means an equal map, and every slot of the living generation is an entry of
`left`; and, for `RunsWhatIsWritten`, that every entry of the map at the cached alias is
what memory holds there, unless it is about a halfword older than the last
reset. One lemma per action. From it follow `FrontIsHonest` and
`NothingStaleRuns`. The argument uses that eviction deletes the address before
the stored halfword: without it (the run's mutant) the proof of `Effect` fails
too.

The probes (for any set of probe files that are accounted for, in any order,
any number of times, from `ScriptAssumption`, that every file is made of
operations the rig has, and `DisciplineAssumption`). The properties compare a
reading with what every earlier file did, which no invariant over 76 files at
once could follow. `ProbeDiscipline` annotates each file alone, as one
annotates a program: before each operation, what may be certain of the
instruments (the log is this file's own, the instrument is armed, it is off,
the machine ran under it, the machine is running), as a set of certainties of
which one is, since whether the machine stopped is told by its companions.
`Accounted` says, operation by operation, that the certainties before lead to
those after, that a reading finds what it needs, and that a file ends with
everything off and the machine running: a condition on each file by itself,
which TLC evaluates. `RigInv` is that the annotation stands (`Stands`) where the running file is;
each operation carries it on, and since every file starts from no more than every file leaves
(`AtStart`), files cannot disturb each other. From it follow
`RigInvariance`, `ReadingsAreTheirOwn`, `ReadingsMeanSomething` and
`NothingIsLeftArmed`.

The arithmetic of the interpreter (for half-words of any even size, from
`HalfAssumption`; the code's is 65536, whose words TLC's integers cannot hold).
`mul64` computes the product in half-word limbs because a double cannot hold
it. `HalvesMultiply` shows that the limbs add up to the product and the high
word needs no reduction, `Complement` that complementing both words negates
it. From these follow `ProductsAreExact`, signed and unsigned, and
`LimbsStayExact`: the sums between the limbs stay below two words (2^33), which
is the code's reason for computing in doubles and the model's for using whole numbers.
`QuotientsTruncate` says the same of `div` and `divu`.

`SessionProofs` (for any browsers, limits of the key queue and of requests,
from `SessionAssumption`). `PhaseTellsTruth` is inductive with the types.
`RebuildsAreAskedFor` is not: it compares machines and rebuilds pending with
the intervals begun, of which a request begins one only if it is not folded,
and a reader begins an interval under the mutex and queues its request afterwards,
so in between the claim has slack nobody accounts for. `AllAskedFor` counts
every place a request can be in - its interval begun and not queued (`Asking`),
queued, taken, being built - against the intervals. From it follow
`TypeCorrect`, `PhaseIsTheTruth` and `NoRebuildUnasked`. `OldKeysAreOneRebuildOld`
bounds the finding `KeysStayWithTheirMachine`: the queue is emptied before each
build, so whatever is in it then was queued against the machine just given up
(`Young`), and a key can slip through one rebuild and no more.

`MultiplexProofs` (for any schedules, periods, settling times, number of
letters, and more than one version, from `CarouselAssumption` and
`MultiplexAssumption`). `NeverSleepsPast` follows
from the types of the carousel and the definition of `NextDue`: every rung it
considers is in the minimum. `IndexIsFresh` needs `PassInv`: the letters not
yet sent in a pass were last sent under the version before, the others under
this one, and the last letter of a pass already moves the version on. From it
follow `TypeCorrect`, `LoopWakes` and `LettersAreFresh`. That the cursors stay
inside what a filter selects needs the selection to be a list again
(`SelectedIsAList`), by the same induction as `FlattenUnfolds`.
`BoxHasTheFile` is the safety half of `EditReachesBox`: a box that has parsed
the version on air has parsed the schedule loaded, and, unless an edit raced
the loading, the one last saved; `EditsAreHeard` says that a reload that finds
an edit is heard in the same wave by a box that listens. Both say "unless a
whole round of reloads went unheard", and no more: a box that is deaf for as many
reloads as there are versions (32 in the code) comes back to a version it knows
and drops the new line-up (section 4). They rest on `VersionsInv`: the version
on air is the one the box parsed plus the reloads it has not parsed since
(`unheard`), round the circle, so equal versions mean none or a whole round.

`ViewerProofs` (for any browsers, pictures, palettes and number of frames,
from `ViewerAssumption`: pictures of one width). Two arguments. `NewestKept`:
what a connected browser was last sent, what its writer holds and what is in
its mailbox are in order of age; a browser that the push in progress has
passed has the newest image somewhere; the mailbox is empty where
`offerLatest` tries again. `Pages`: applying the messages on the wire in order
leads the page through states that all show one published image to one that
agrees with what the writer believes it has sent (`InStep`). The
canvas alone is not inductive, since a rectangle is right only on top of
the frame it was computed against, and that frame may still be on the wire.
`Epochs` says that a palette epoch names one palette, so an equal epoch is
reason enough not to send it. From these follow `TypeCorrect`,
`NothingNewIsLost`, `CanvasIsRight` and `NothingIsRefused`: every page on the
way is a good one, and a good page has refused nothing. `PagesMoveOn`, that a
page never goes back to an older image on one connection, needs `Ascending`
besides: the frames on the wire are in order of age, between the one shown and
the last one written.

`PlayoutProofs` (for any programmes, lengths, queue limits and bounds, from
`PlayoutAssumption`). `NoOrphans` says what holds without a session; what
makes it inductive (`Orphans`) is what the loop's place tells: a close runs on
a session or, after a failed start, on an encoder alone; the encoder is gone
before the decoder is waited for; a start is only reached without a session.
`NeverRefusedByItsOwn` rests on `Finished`: once the pump has told the decoder
that there is no more, nothing of the programme is gathered, pacing or queued,
and the pump never comes to take again. From these follow `TypeCorrect`,
`NoProcessIsLeft` and `PumpIsNeverRefused`.

`NothingIsLost` needs a second invariant, on top of the first. `Lossless`: as
long as nothing has failed and the guest has kept its decoders, what was fed,
what is gathered, what the demultiplexer has admitted, the burst being paced and
the chunks in the encoder's queue, in this order, carry the packets
1..n of the session once each and in order, n being what the encoder has
delivered. The places are joined as a sequence (`Way`), so that a packet moving
from one to the next leaves it as it is: the steps of the pump and of the demultiplexer
are equations between concatenations, and only the encoder's delivery appends, a
chunk that continues the numbering (`CarriesOn`). Packets of another session
or of the transmitter may stand anywhere between and are left out by `Own`
(`Foreign`). `WaitsComeToAnEnd` is the safety half of `CloseReturns`: while
`close()` waits, each step of the process it waits for brings that process
nearer its end, a full queue included, because it was cancelled first.
`ProgrammeIsShown` bounds what the early return of the pump costs
(section 4): of a programme that ran to its end without a fault, at most the last two
packets are not fed. `EndInv`: on its way past the demultiplexer the pump takes all
that is admitted as long as the decoder is not finished, so what is left untaken
came with one pump of the demultiplexer, two packets at most; `ShortOfTwo`
turns that into a prefix 1..n of the numbering with n at least the total less
two. The same lemma is the half of `NothingIsLost` that speaks of a finished
decoder: what the demultiplexer still holds then is not on its way any more, since
the pump never takes again, and counts as lost. A decoder is also finished by
close(), but only after it has cancelled the encoder (`Parted`), and the property
speaks of sessions where it was not. Two is tight: TLC refutes the same claim for one.

Left to TLC: everything under fairness, that is every liveness property, and
ENABLED; and `Mips16`, whose sweep is recursive, whose bit operations the prover
does not have, and whose other properties are about given programs.

## 6. Not modelled

Blitter, OSD, DMA and memory, and of the CPU everything but its interrupts, are sequential functions checked against
an oracle's trace. Section builders, the Huffman coder, wire layouts and
configuration are formatting. HTTP, logging, instruments, the GDB stub and the
tracing tools carry no behaviour of the product. Storage of the flash and the
EEPROM is written within one register access; the EEPROM's image is saved by the
I2C controller at the end of a write transaction (`i2c/controller.go`).
Sections are pushed whole: `Multiplex.Pump` packetises an emission and hands all
its packets over in one call, so reassembly in the demultiplexer never sees a
change of the guest's filters between two packets; the choice of a filter by
match words is data, and where the guest reads in the section ring is known to
its firmware only, so whether a full ring overwrites a section still unread
cannot be said from this code. Of a refused restore of the machine (rollback in
`bus/snapshot.go` and `machine/snapshot.go`) only the clock's part is modelled:
`Board` models the restore that succeeds.

Within modelled parts: the
audio channel of viewers and decoder (same mailboxes and queues as video),
the CSI link's own snapshot, the board latch, the line multiplexer and the demodulator,
the errors of the board's pump, which halt the machine for good, and its re-arming, the interrupt line of the
front panel (its bytes are in `CsiLink`), parsing of listings, choice of files by the
playlist, reading match registers that the guest is half way through
rewriting. Of the laboratory: the 24 longest probe files and the oracle
captures, the page's devices and painting, and the printed operands
and the 64-bit encodings of `mips16.js`, which `decode()` refuses on this machine.

## 7. Plan

Done: clock, CSI link, multiplex with its carousel, session, viewer, playout,
board, decode cache, reference executor and probes, with proofs for nine of
the ten and for the arithmetic of the tenth. What would come next, in this order:

1. The demultiplexer's match words and section ring with a guest whose read
   pointer is established by measurement; then the overrun is a property.
2. The restore of a set of snapshots with its rollback, and the lines its
   devices state while it runs.
3. The flash command state machine and the EEPROM's page writes, with a crash
   between write and persist.
4. The safety halves of `KeysAreTaken`, `TitlesComeRound` and, for the devices other
   than the I2C controller, `CausesAreServed`, as `WaitsComeToAnEnd` is of
   `CloseReturns`.
