# A verification development for Luayats

Luayats is a discrete-time network simulator: a C++ kernel and network objects
(`src/src`), wrapped for Lua scripts (`src/yats`), with a GUI.  This directory holds
TLA+ models of the parts where order, interleaving and limits decide about
correctness, the TLC configurations that check them on small instances, and proofs
that TLAPS checks for every value of the constants.

Contents: [the system](#the-system) - [the plan](#the-plan) -
[the modules](#the-modules) - [the runs](#the-runs) - [fairness](#fairness) -
[the proofs](#the-proofs) - [disagreements](#disagreements-found) -
[not modelled](#what-is-not-modelled).

## The system

Simulated time is cut into slots, each of which has an early and a late phase.  By
convention data move in the early phase (an object sends, the successor's `REC` is
called within the sender's handler) and contention is resolved in the late phase
(an object goes through everything that arrived, in random order).  Everything runs in one
thread.  What makes the system hard is therefore not preemption but the
order of handlers inside a phase, which is not specified, events that handlers register for the very phase
being processed, re-entrant calls between objects, coroutines that leave a run in
the middle, and limits of queues and of the clock.

| Component | State | Operations | Interacts by | Hard behaviour | Correct if |
|---|---|---|---|---|---|
| Event manager (`src/kernel/sim.c`, `defs.h`) | calendar of `TIME_LEN` lists per phase, detached lists, per-slot lists, clock, loop variables | `alarme/alarml`, `eache/eachl`, `unalarme/unalarml`, `run`, `stop`, `ResetTime`, `flushevents` | calls handlers, which call it back | registration from handlers, the same hash position for several slots, runs longer than the calendar, errors that unwind a run, clock wrap | each request is served in its slot and phase, once |
| Queues, data items (`kernel/queue.h`, `data.c`) | linked list, length, limit, free lists | `enqueue`, `dequeue`, `setmax`, ... | used by all objects | limits | FIFO, never more than the limit |
| Priority multiplexers (`muxevt/muxPrio.c`, `muxFrmPrio.c`) | queues by priority, arrivals of the slot, server state, one event | `REC`, `late`, `early`, `setQueueMax`, `setPriority` | predecessors call `REC`; the event manager | REC before or after early of the same slot, random order in late, synchronous cycles, rounding of service times | nothing lost uncounted, priorities kept, server never asleep |
| Multiplexers with one queue (`muxdmx/mux.c`, `muxdf.c`, `muxaf.c`, `muxdist.c`) | queue, arrivals, server event | `REC`, `late`, `early` | as above | decisions one slot ahead, changing limits | as above, bounded sojourn |
| WFQ, EPD, input-buffered multiplexers (`muxdmx/wfqmux.c`, `epdmux.c`, `muxevt/muxInpBuf.c`) | per-connection queues, virtual times, start-stop states | `REC`, `late`, `early`, `restim` | start-stop protocol with predecessors | ties, time reset, stop racing data in flight | fair order, no overflow |
| Bridge data plane (`yats/rstp.lua`) | input buffer and queue, output queues, three events, plug flags | `luarec`, `lualate`, `luaearly`, `cb_tx_bpdu`, `start`, `shutdown`, `plug_in/out` | calls the protocol, which calls back | re-entrance, wakeups spread over three state variables | no frame without an event that moves it |
| Rapid spanning tree (`src/rstp`) | bridge and port variables, nine state machines per port, nine timers | `STP_stpm_update`, `one_second`, `rx_bpdu`, ... | BPDUs through the data plane | state machines triggering each other, timers, lost BPDUs | one loop-free tree, converges |
| Simulation control (`yats/core.lua`, `gui/runctrl.lua`) | controller state, command mailbox, coroutine, object list, two garbage generations | `sim:run`, `stop`, `reset`, Go/Stop/Reset of the user | coroutine yields, GUI polled from an event | commands between and inside pieces, deletion of objects that have events | nothing in use is deleted, no piece lost |
| Shapers and policers (`src/polshap`) | bucket, queue, next time | `REC`, `early`, `restim` | event manager | conformance on the boundary | departures conform |
| Sources (`src/src`), AAL5 and TCP/IP (`src/tcpip`), ABR (`src/abr`) | per connection | sending, acknowledging, timeouts | start-stop, data items | retransmission, reassembly errors | no gap, no duplicate delivery |
| Lines, sinks, measurements (`src/misc`, `src/statist`) | delay line, histograms | `REC` | data items | - | - |
| User objects, graphics, bindings | - | - | - | - | - |

## The plan

The order is by how much depends on the part: everything relies on the event
manager; most data pass multiplexers; the bridge node and the protocol are the
most intricate users of both; the simulation control decides what is alive.

1. `Activation`, `EventManager` and their proofs - done.
2. `PriorityMux` and `SlottedMux` with their proofs - done.
3. `BridgeNode` - done.
4. `SimControl` and its proofs - done.
5. `RstpBridge` and `RstpNetwork`: the state machines of `src/rstp` and two bridges joined by
   LANs that lose BPDUs - done, without VLANs and timer configuration.  `RstpBridgeProofs`
   and `RstpNetworkProofs`: types, election, freshness of information and the end of every call - done.
6. Proofs about `BridgeNode` and `SlottedMux` - done, see [the proofs](#the-proofs).
7. `WfqMux` and its proofs: `muxWFQ` with its sorted queue and virtual times - done.
8. Next: the start-stop protocol of `muxInpBuf` composed with a predecessor
   that keeps it and with one that does not; `queue` as a linked list implementing a
   bounded sequence, and with it `setmax`.
9. The shaper `shap2` and the leaky bucket; then AAL5, TCP and, if anything is left, ABR.

Modules keep to what can be proved about: parameters are CONSTANTS with named
assumptions, one action per operation, no recursive operators.  The loop of `STP_stpm_update`
and the BPDUs of a call put on a LAN are recursive functions.

## The modules

### EventManager, Activation

`cal[p][i]` is the list at position `i` of `eventse` (`p = "early"`) or `eventsl`; `now[p]`
is the detached list (`early_now`, `late_now`); `each[p]` the objects registered for every slot.
`sim::run` is one loop with five nested parts; `pc` says where it is: `"segment"` (choosing how
far the calendar can be walked), `"slot"`, `"evt"` (popping the detached list), `"each"`, `"phaseEnd"`,
`"dots"`.  A handler is what it does to the kernel: while `active` is not
`None`, `Alarm`, `Unalarm`, `Each`, `Stop` may happen in any number and order, and
`Return` or `HandlerFails` ends it.  `SimTime` counts modulo `Word`.  `MayRegister` is
`check_evt`, i.e. what the kernel calls legal: the build has these checks disabled, and the properties
hold for programs that respect them.

`Activation` is what the objects may rely on: a request names a slot
and a phase, it is served there, once, and no phase ends with an unserved request.
`EventManager` implements it under the mapping `Due`, `Half` (property `KeepsPromise`).

### PriorityMux

Both classes share their structure; `mode` chooses one and its synchronous mode. `Arrive` is `REC`,
`Served` and `CycleBegins` are the two branches of `early`, `StartService`, `WaitForCycle` and `Enqueue`
the three branches of the loop body in `late`, one arrival per step in any order.
`std_evt` counts the slots until the event; the event manager is used by its contract, and an event
asked for the present slot out of the early phase is `Missed`, as `EventManager` shows it to be.
Lengths of frames are bytes; `Ticks` rounds as the code's conversion to integer does.

A code (a VCI of `muxPrio`, the priority carried by a frame of `muxFrmPrio`) is a number. `muxPrio` starts with the highest
priority for all, `muxFrmPrio` with 1 by 1, whatever `nprio` is: a code from `nprio` on has no queue until the script maps it.
`Arrive` takes such an item, whose priority then is the greatest of the slot; if the server is idle it is served (no
array is touched), otherwise `late` reaches past `prioQ`, `qLens` and `lostPRIO`. This is `OutOfBounds`: `phase` becomes
`"undefined"`, nothing more is said of the execution, and all properties are about the executions up to there.

`cycle` is `SimTime % serviceTime`. `NextSlot` advances it, `ClockToZero` is a slot that begins with `SimTime` at 0: after
`sim:resetTime`, which the classes are not told of (they have no `restim` of their own), or after the overflow of `tim_typ`, which ends the
run with an error. The server's event stays as many slots away as it was. `begin` is history: the slot of the cycle in
which the services of the present busy period begin. It is 0 while the server is idle, and where the event falls
when the clock is set to 0 under a server that syncs or serves; no other step may change it.

### SlottedMux

One module for four classes, which differ in when the server's event is registered.
Cells carry the number of slots since their arrival, which bounds the state space and is what `Sojourn`
speaks about.

### WfqMux

`muxWFQ` inherits arrivals and the walk through the slots from `mux`.  A queue is its length, for the cells of
a connection differ in nothing; `sortq` is the sequence of connections that have cells, and
`enqTime` inserts as the linked list does, ahead of equal times.  `restim` is an operator, since both `Serve`
(a spacing time above `spacTimeMax`) and the script's `sim:resetTime` contain it.  `passed` is history: how
many cells of another connection were sent while the first one of this waited.

### BridgeNode

The input path (`luarec`, `lualate`, `Process`), the output path (`cb_tx_bpdu` with `Kick`, `Transmit`), the clock and the commands of the script.
The protocol is a nondeterministic environment here: when called it may answer with one BPDU
on each port of any set `T`.  `asked` is history: the BPDUs made for a port while it was plugged in.

### SimControl

`state` is the controller's (`runctrl.lua:51`), `script` where the coroutine is.
`run` is `sim:run` up to its loop, `pieceEnds` and `resume` are the loop body before and
after the yield.  `reset`, `pushgarbage` and `deletegarbage` are operators that the actions
contain, as the functions are called.  Objects are numbered in the order of creation and carry the name
under which the lists keep them; `pending` are those with events in the kernel.  `reset(noFlush)` has the argument of
`sim:reset`, which keeps the kernel's events while the objects become garbage all the same; `unflushed` is history: the
objects that were made garbage so and not flushed since.  The controller takes what the script returns in
the end (`scriptEnds(result)`) for what `sim:run` yields: a script that returns `"continue"` is resumed when it is `Dead`, which fails,
one that returns `"pause"` or `"reset"` is paused or reset although it has ended.

### RstpBridge, RstpNetwork

`RstpBridge` is the library as pure operators: a bridge is a record of its variables and of a record per
port with the same names as in `statmch.h`, and an operation maps a bridge to the bridge after
the call, the BPDUs it transmitted in `out`.  Each of the nine machines of a port is a table of hops
(`portrecHop`, `infoHop`, ...: the state it enters, or `Stay`) and what entering a state does
(`portrecEnter`, ...); `rolesel` is the one machine of the bridge.  `Update` is `STP_stpm_update`: in each round the
first machine that can hops (role selection, then the machines port by port, the transmit machines at the end),
until none can.  That loop has no bound in the
code; a bridge that would need more than `MaxLoops` rounds (`rounds`) is `Hung`.

`RstpNetwork` lets several bridges run: `Start`, `Deliver` (`rx_bpdu`), `Second`
(`one_second`) and `Notice` (link down and up, port disabled and enabled, change of speed, migration check, edge
port, change of priority).  A step is a whole call of the library, since there is one thread.  BPDUs keep their
order on a LAN and may be lost.

### MC modules

`MCEventManager`, `MCPriorityMux`, `MCSlottedMux`, `MCWfqMux`, `MCBridgeNode`, `MCSimControl`, `MCRstpNetwork` define model values, sets, networks and
symmetries.  Symmetry is used in runs without liveness only: events, inputs
and ports are interchangeable, since no order among them is ever used.  Codes are not: they are numbers that `muxFrmPrio` compares.

## The runs

| Run | Checks | Bounds, and why they are enough |
|---|---|---|
| `EventPromise` | `TypeOK`, `Listed` (`Placed`: an event is where it is searched; `NoDuplicate`: and nowhere else), `NoneMissed`, `NoneForgotten`, `WalkExact` (`InStep`: each slot at its position; `RunLength`: and none too many), `EachServedOnce`, `KeepsPromise`, `RunTerminates` | two events, two objects for every slot, delays 0..3, a calendar of two positions, a clock of four values, runs of 0 and 3 slots. Delays exceed the calendar, so early and late events share lists; runs exceed it, so a run has several segments and starts in its middle; the clock wraps in a run. `NoneMissed` speaks of requests within one turn of the clock (`Alarm` takes no others); what happens at its end is tested by `WalkExact`. More events are covered by the proofs, which hold for any number |
| `EventNoDots` | violation of `NoDotsWanted` | one run of three slots |
| `PrioServe` | `TypeOK`, `Conserved`, `Busy`, `InOrder`, `HighestFirst`, `SyncStart` | two inputs, two priorities, three items, queues of one or two places, cycles of three slots, frames of one and two bytes that take one and two slots. Two inputs fill a slot, the third item meets a busy or syncing server and a full queue. The codes are 1 and 2: one with a queue from the start, one without until it is mapped. The clock is set to 0 between any two slots. The modes are both of `muxPrio`'s and the asynchronous one of `muxFrmPrio`; its synchronous mode runs the same actions as that of `muxPrio` and is left to the proofs |
| `FrmPrioShort` | violation of `NoZeroDelay` | frames of 8 bits at 20 bits per slot |
| `MuxSlots` | `TypeOK`, `Conserved`, `ServerFed`, `Sojourn`, `OldestFirst` | three inputs, two places, six cells: a burst of three overflows the queue, a second one meets it partly emptied |
| `MuxAFLoss` | violation of `LossOnlyIfFull` | as `MuxSlots`, for muxAF only |
| `WfqShare` | `TypeOK`, `Sorted`, `Share` | three connections with `delta` 1, 2 and 3 and queues of two, two and one places on two inputs: queues overflow, connections fall silent and come back, all ties between two and three connections occur. The spacing time is set back above 4 (100000000 in the code), so that it happens every few cells, and by the script whenever it likes |
| `BridgePlane` | `TypeOK`, `Conserved`, `Awake`, `Prompt`, `InOrder` | two ports, queues of two places, three frames and three BPDUs, two slots to process one: both queues overflow, and every combination of the three events occurs. `Conserved` has a half for frames received and one for BPDUs, by port |
| `BridgeLoss` | violation of `LossCounted` | as `BridgePlane` |
| `SimRuns` | `TypeOK`, `DeletedUnused`, `RunLength`, `Observable`, `Obeyed` | pieces of two slots, runs of 0, 1, 3 and 4 slots, three objects with two names, three calls of `sim:run` per script: enough for an object to pass both generations of garbage, within a script and across scripts |
| `SimStop` | violation of `StopBreaks` | as `SimRuns` |
| `RstpTree` | `TypeOK`, `NoHang`, `Roles`, `Fresh`, `LoopsEnd` (at most one BPDU being lost, frames go round only while the BPDUs that end it are under way), `Handshake`, `Converges`, `TcQuiet` | two bridges with two ports each, started in any order: two links between them with one BPDU lost or one link going down; both ports of one on a LAN of the other; one link with one fault of each kind, down and up again, disabled and enabled again. Maximal age 6, forward delay 4, hello time 1 seconds: MAXAGE and FWDELAY are the least values the library accepts (`MIN_BR_MAXAGE`, `MIN_BR_FWDELAY`) and the three satisfy the relations it checks (`stp_in.c:209-213`). `MaxLoops` is 100; a call that does not return would need more for any value |

Every bound is a constant named in the module (`MaxItems`, `MaxCells`, `MaxFrames`, `MaxBpdus`,
`MaxRuns`, `MaxObjects`, `faults`); they limit what the environment sends, not what the component does. `Word` is
not an artificial bound: the clock of the code wraps too, later.

In `RstpNetwork` a second passes only when no BPDU is under way, and the seconds of the bridges take turns: a BPDU takes
milliseconds, and the clocks of all bridges come from one event manager.

Deadlock is checked in all runs: none of these components may come to a state where even time does not go on.

## Fairness

* `EventManager!FairSpec`: the steps of `sim::run` are weakly fair: it is a single thread that does nothing
  else.  Handlers return eventually (they are straight-line C++), which is fairness of `Return`; they may do anything first.
* `SimControl!FairSpec`: the kernel finishes a piece (that is `RunTerminates` above), the controller's loop, which
  never blocks, makes its steps, and the script's own code ends.  Nothing is assumed of the user: whether
  he ever answers a question or presses Go is open, and `Obeyed` holds without it.
* `RstpNetwork!Fairness`: the script starts every bridge in the end, and the scheduler does not stop; a step is always
  possible, so this is weak fairness of `Next` as a whole.  Which BPDU arrives next is open; time does not pass before
  all have, and faults are finitely many.

## The proofs

`EventManagerProofs` proves all safety properties of the run `EventPromise`, and the
refinement, for every calendar length, clock range, set of events, delays and runs.

* Assumptions: only those on the constants in `EventManager` (`TimeLen` and `Word` positive, delays natural
  numbers, `None` different from everything else).
* The invariant is `IInv`: the checked invariants, plus `Walk`, which relates `pc`, `pos` and
  the remaining slots.  Neither `Placed` nor `NoneMissed` is inductive alone: that an event popped
  too early goes back to a list not being searched again needs both `InStep` and the arithmetic of hash
  positions (lemmas `HashNext`, `HashUnique`, `HashShift`), and that `ResetTime` merges no two
  lists needs that all times in a list are congruent and not in the past.
* The refinement: `InvariantStep` gives `IInv` before and after a step, and `PromiseStep` maps each step to a
  request, a withdrawal, an activation, the end of a phase, a clock reset or a stutter.  `PhaseServed` is
  the heart of it: when the detached list is empty no request for this phase can be anywhere else.

`SimControlProofs` proves `TypeOK`, `DeletedUnused`, `RunLength` and `Observable`.  The invariant adds
`Generations` (objects with events are listed, unless they are `unflushed`, listed objects are neither garbage nor deleted, what the last run
used is not in the generation to be deleted next) and `Counted` (the number of slots simulated against the loop's
counter at each point of the coroutine).  It needs the fresh number of a created object, so that it can be in
no list, and nothing about names.

`PriorityMuxProofs` proves all properties of `PrioServe`, for any number of priorities.  `Server` says
what makes `Busy` and `HighestFirst` inductive: while the server is idle in the late phase, all queues from
the highest priority that arrived upwards are empty; with `Arrivals`, an arrival of that priority is still to be
treated, so that `late` cannot end with an idle server.  An arrival without a queue is treated by being served, or ends what is said.  The same fact shows that `WaitForCycle`, which ignores the result of
`enqueue`, never meets a full queue.  `Timing` is the distance of the server's event to the slot `begin` of a cycle, `Queues` and
`Before` are the order of slots in the queues, in the server and at the output.  That a non-empty set of priorities has
a largest member (`LargestExists`) is derived from the well-foundedness of the natural numbers.
`Conserved` is inductive beside `IInv`, which it needs for the full queue that `WaitForCycle` never meets: each step moves one
item from a place to the next, and the places are sets that stay apart (`DequeueMoves`, `AtTailMoves`).

`SlottedMuxProofs` proves all properties of `MuxSlots`, for all four classes at once.  `Gap`, the time between two services, and
`Wait`, the time until the next one, are what the classes differ in.  `OnTime` is the heart of the invariant: the age of the
k-th cell, plus `Wait`, plus k - 1 times `Gap`, is no more than `Longest`.  `Limits`, `Registered` and `Ages` say how the limit
of `muxAF` moves, when the event is due, and that the queue is in the order of ages.  `Conserved` needs more than the sum of
the places: `Places` says that they are apart (`Apart`), counts them (`Counted`) and says that nothing is elsewhere
(`Complete`).  That the finite table of service times has a least and a largest member is proved from the well-foundedness
of the natural numbers.

`WfqMuxProofs` proves `TypeOK`, `Sorted` and `Share`, for any connections, shares, limits of the queues and any
`spacTimeMax`.  `Sorted` is inductive as soon as the insertion is understood (`Inserted`); `ServeFacts` gives both
cases of `early`, with and without setting back, one form: all times that matter move back by the same amount.
`Share` is not inductive.  `Lag` is: each cell of `w` sent while `v` waits has moved `w` by `delta[w]`, so that the
time of `v` and this work stay below the time of `w`, and of the spacing time if `w` is silent, by a constant.

`BridgeNodeProofs` proves all properties of `BridgePlane`, for any ports, queue sizes, `process_speed` and clock
cycle.  The invariant has a part for each path, since they share nothing but the protocol's calls: `In` with
`Ingress` (which of the three events is registered in which phase), `AwakeIn` and `PromptIn`, and `Out` with
`Egress`, `AwakeOut` and `PromptOut`; `Commands` and `Due` say when the script may act and when events are due.
`Conserved` rests on a second invariant for the frames received, `Places`, as above, and a third one for the BPDUs of each port,
`OutPlaces`; that no BPDU is both queued and sent follows from the order of their numbers in `Egress`.

`RstpBridgeProofs` and `RstpNetworkProofs` prove `TypeOK`, `NoHang`, `Roles` and `Fresh` of the spanning tree, for any set of
ports and bridges, any cabling, any number of faults of every kind in any order, and any timer values that
`_check_stpm_config` accepts.

* Assumptions: those on the constants (`TimesAssumption`, `PortAssumption`, `LoopsAssumption`, `NetworkAssumption`).  `MaxLoops`
  may be any number for `TypeOK`, `Roles` and `Fresh`, and is at least `LoopBound` for `NoHang`: the loop of the code has no bound, and
  `MaxLoops` is only where the model gives up.  Nothing is assumed about fairness, and
  nothing about the order in which messages, seconds and notices come.
* What a call leaves behind follows from two things: an invariant `BInv` of a bridge that each single hop of a machine keeps,
  and that no machine can hop any more (`Silent`).  `BInv` is `BridgeOK` (types; what each machine's state says of the
  flags it owns) and the election still standing: unless a port waits for role selection, the root is the best offer
  (`Chosen`) and each port has been assigned the role that its information calls for (`Assigned`).  `RoleselStep` establishes that,
  whatever the roles were; the lemmas of the machines (`InfoHopStep`, `RoletrnsStep`, ...; `HopStep`) show that a hop either leaves alone what the
  election looked at, or asks for a new one.  `BridgeRests` is the rest: a port whose machines all wait has
  taken over the role (`RoleRests`), has nothing to update and nothing that has expired (`InfoRests`), and forwards only
  if its role allows it (`StateRests`).  `UpdateKeeps` joins them.
* `NoHang`: the machines come to rest because every hop lowers a measure (`HopDescends`, `UpdateEnds`), whichever machine hops and in
  whichever order.  What a port has still to do is ranked in eight levels: what has come in from outside and calls for
  an election; the election; its outcome, to be taken over; what is to be said to others, the version and the kind of link;
  requests to discard, and the way to discarding or forwarding; states passed through, timers to be set, port states to be
  reached; notices of topology changes; BPDUs to be sent.  A hop lowers the rank of its port at one level and raises it at
  none before (`Falls`), and what it writes to other ports (`setSyncTree`, `setReRootTree`, `setTcPropTree`, the roles selected) only
  adds work at later levels (`Lowers`).  The ranks of a level are added up over the ports (`Count`), and the eight sums are the
  digits of the measure.  The argument needs the invariant: a machine that is sent back to a state, as
  the role machine is from `ROOT_SYNCED` to `ROOT_PORT`, must not find the same reason to leave it again, which depends on
  the role its state implies (`RolesOK`).  `LoopBound`, the largest measure that 255 ports can have, is a coarse bound; in `RstpTree` 100 rounds
  are always enough.
* `ChoiceIsBest` is about the loop of `updtRootPrio`: `NoWorse` is a total preorder of priority vectors (`NoWorseTransitive`,
  `NoWorseTotal`), so that a finite set of offers has a best one (`BestExists`).
* The rounds of `STP_stpm_update` and the BPDUs of a call are recursive functions over numbers.  Induction over them is by
  contradiction: if some round broke the invariant there would be a least one (`LeastExists`, from the
  well-foundedness of the natural numbers), and the step to it keeps the invariant.
* A network keeps the invariant because every action is a call on one bridge (`BecomesKeeps`, `NoticedKeeps`), and what
  it puts on the LANs are messages over known identifiers (`CarriedTyped`).  That `Demoted(i)`, the identifier after a change of
  priority, is one needs the largest element of a finite set (`LargestOfFinite`).

Only model-checked:

* `LoopsEnd`, which depends on what all bridges and all messages under way know of each other, and holds with at most
  one BPDU lost only;
* `Handshake`, which is not a theorem: in a network longer than the maximal age it is false (see the observations below);
* the liveness properties (`RunTerminates`, `Obeyed`, `Converges`, `TcQuiet`), which are out of the reach of TLAPS.

## Disagreements found

Each is a run whose property quotes what a comment of the repository says.

* `sim::run(slots, 0)` never returns (`sim.c:544`); `sim::run(1)` calls it that way.
* `muxFrmPrio::early` asks for a delay of 0 for a frame shorter than half a slot, and the server stops for good
  (`muxFrmPrio.c:211`); `late` has the test that is missing there.
* `muxAF` copies the queue's limit in its constructor, before it is set, and loses all cells as soon as the queue
  is empty (`muxaf.c:51`).
* The bridge's `cqueue:enqueue` returns nothing; a refused frame is never counted (`rstp.lua:392`).
* `sim:stop` does not break the loop of `sim:run` (`core.lua:490`).

Further observations that the models contain without a run of their own: a Go pressed at the end of a script
pauses the next one; an error in a script leaves the controller in `ERROR` for good; a port
unplugged still sends what is queued; `muxFrmPrio`'s exported byte lengths only grow.  And:

* After `sim:reset(true)` two calls of `sim:run` without a flush in between delete objects that have events in the kernel
  (`core.lua:504`, `544`): the documented argument keeps the events and not the objects. `DeletedUnused` says that this is
  the only way to get there.
* `sim:resetTime` while a synchronous multiplexer is busy moves the begin of its services into the cycle, until it is idle
  (`muxPrio.c:133`). `SyncStart` says that the services of a busy period still begin in one and the same slot of the cycles.
* `muxFrmPrio` maps its codes 1 by 1 up to `maxinprio` (8 by default), also if there are fewer queues (`muxFrmPrio.c:95-98`): a frame with
  a code from `nprio` on that meets a busy server reaches past the arrays until the script has called `setPriority` for it.
* A script whose last return value is `"continue"`, `"done"`, `"pause"` or `"reset"` is misread by the run controller (`runctrl.lua:250-273`).

Observations on the spanning tree library, none of which keeps the bridges from converging in `RstpTree`:

* There can be a loop for a moment although no fault occurs (`portinfo.c:242`): `recordDispute` takes an inferior BPDU of a
  learning Designated port for an agreement.  A better bridge started on two links to a running one forwards on both at once,
  while the other still does, until it has read what waits for it.  `LoopsEnd` says that it never lasts longer.
* `STP_stpm_update` loops as long as a machine hops (`stpm.c:281`); `NoHang` says that it comes to an end, and is proved.
* With six BPDUs lost there can be a loop until the next hello, for the same reason; `LoopsEnd` is about one.
* A change of priority (`config_stp`, `stp_in.c:834`) and `disable_port` only mark the ports for a new selection.  If role selection
  runs for another reason while a port is disabled but its information machine has not noticed yet (a link that goes down
  after the change of priority, a BPDU with a better root after `disable_port`), it sets `updtInfo` on
  that port.  The role machine then waits for an update that never comes: the port keeps its old role and goes on forwarding until
  it is enabled again, although it is disabled.  On two parallel links this leaves a loop for good, on a line of three bridges
  a second Root port.  This came up in the proof of `Roles`, which therefore speaks of the elected roles of enabled
  ports; the faults of `RstpTree` do not combine the steps on such a network.
* A BPDU as old as the maximal age is not discarded: it is taken for superior information that expires at once
  (`portinfo.c:346`), but the role machine has run in between.  A Designated port that gets one from a better root is Root port for a
  moment, forwards without delay if no other port has been Root port lately, and is Designated and forwarding at the end of the
  call.  This takes a line of `MaxAge + 2` bridges, which the standard forbids and the library does not prevent; the networks
  of `RstpTree` are shorter.
* When everything a bridge has heard expires in the same second, an Alternate port becomes the Root port for a moment, in which it
  may forward without delay, and then a Designated port that goes on forwarding.  `Handshake` is therefore about ports
  that are Designated before and after the call.
* `allSynced` does not look at `updtInfo`: after a change of priority a root port may agree before the other ports took
  notice of it.
* Information is superior or the same by the whole bridge identifier, priority included: after a change of priority the
  neighbours keep a root that does not exist any more until it has aged.
* A port disabled and enabled within a second is never seen disabled by the machines, but its timers are cleared: a learning port
  forwards at once.
* The migration machine never falls back to the old protocol on legacy BPDUs alone, since the protocol version is read from a place that is
  always non-zero; `edgeDelayWhile` is not among the timers that count down.

## What is not modelled

* Of the modelled components: loss counters by input and connection, displays and logs, the `ABORT` state (nothing raises
  it), the adaptation of the piece length to wall-clock time, static objects, the delayed start of a bridge.
  `setQueueLen` of the priority multiplexers and a change of the service time by the script; `muxFrmPrio` in asynchronous
  mode without a `servicerate`, which reads an uninitialized `serviceRate` (`muxevt.lua:320`, the models take it to be set); the
  codes `max_vci` and `max_inprio` that `setPriority` lets through although the tables end before them (`muxevt.lua:232`, `364`).
* What `muxFrmPrio::late` does behind the ends of its arrays: `OutOfBounds` ends the execution.
* `muxEPD`, whose constructor belongs to the old input language: no class of the Lua library creates it; `demux`, a table
  without a queue.  Of `muxWFQ`: connections set up while cells are queued, and the errors for unknown connections.
* Random numbers, confidence tests and ABR's rates: floating-point computations; where models need them they draw from
  small sets.
* Wiring of objects, generated Lua bindings, graphics: no state that matters once a network is built.
* `src/user/alt`, `src/user/new`, `src/rstp-1w`, `muxAsync*`, `muxSync*`, `muxEvtEPD`: not built or not available
  to scripts.
* Of the spanning tree: several VLANs (one instance each, which share only the ports' attributes), the deletion of an instance,
  path costs, port priorities and timers set by the script, the protocol version forced by it (`force_version`), the transmission
  limit (`hold_count`), the kind of link set by it (`admin_point2point`), ports that take no part (`admin_non_stp`), automatic edge ports, statistics, and the flushing of the tables of
  learned addresses, which happens outside of the library.
* The remaining multiplexers, shapers, sources and TCP are planned, see above.
