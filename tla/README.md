# TLA+ models of the 86Duino core

86Duino is an Arduino-compatible board whose processor, a Vortex86EX, is a
x86. Its Arduino core (`src/86DUINO/core`) runs under DOS: one program owns the
machine, and everything concurrent in it is an interrupt handler that preempts
the program, and sometimes another handler. There are no threads. Locks are
`io_DisableINT`/`io_RestoreINT`, queues are ring buffers shared with interrupt
handlers, and blocking means to poll a queue until a handler has changed it.

This directory holds TLA+ models of that core, the TLC runs that check them, and
theorems that TLAPS proves about them. `PROJECT.json` is the index: components,
runs, the mutants that show that each property can fail, the source lines behind
each definition, the findings, the hazards and the theorems.

## The system

| Part | Source | State | Who calls it |
|---|---|---|---|
| Interrupt lock | `io_irq.h`, `io_atom.h` | one counter `irq_cscnt`, the processor's interrupt flag | everybody, in every context |
| Queue | `queue.cpp` | ring buffer: `head`, `tail`, `data` of size + 1 slots | program and ISRs, on the same queue |
| Interrupt dispatch, DPCs | `irq.cpp`, `irq_dos.h`, `io_pic.h` | per line: list of ISRs, NONE/INUSE/PENDING, error flags; the list of triggered DPCs; nesting depth | the processor; drivers that install ISRs and trigger DPCs |
| Serial ports | `uart.cpp` | two queues, THREI, RTS/CTS and XON/XOFF state | program; `UART_ISR` |
| CAN bus | `can.cpp` | queues of frames and errors, the mailbox whose turn it is | program; `CAN_ISR` and the user's bus-off handler in it |
| USB serial port | `USBCore.cpp` | device state, three queues, the bulk endpoints | program; `USB_ISR` |
| Wire library | `libraries/Wire`: `Wire.cpp`, `twi.cpp`; on `i2c.cpp` | `twi_state`, the master's and the slave's buffers, the repeated start | program; `I2C_ISR` and the user's callbacks in it |
| EEPROM library | `libraries/EEPROM`: `Block.cpp`, `SPIFlash.cpp` | four flash sectors per block: two of data, a counter, a counter's flag; their image in memory | program |
| COM front end, stream objects | `com.cpp`, `HardwareSerial.cpp`, `CDC.cpp`, `HID.cpp` | one byte of look-ahead | program |
| External interrupts, tone, timers | `WInterrupts.cpp`, `tone.cpp`, `wiring*.cpp` | tables of callbacks, registers | program; the motion module's ISR |
| Port I/O, chip and motion-module registers | `io.cpp`, `vortex86.cpp`, `mcm.cpp` | a reference count; hardware | drivers |
| Strings, printing, parsing | `WString`, `Print`, `Stream`, `WMath` | none shared | program |
| Other libraries | `86DUINO/libraries` | ports of Arduino libraries | program |
| Everything else in the tree | `FreeRTOS`, `FDOS`, `FBASIC`, `DJGPP`, `WATCOM`, `NET`, `WinCE`, `TOOLS` | third party | - |

How they fit together. A device raises an IRQ line; the processor, if its
interrupt flag is set, enters `dos_shared_irq_wrapper`, which scans the ISRs
installed on that line. The wrapper enables interrupts while an ISR runs unless
the line was set to `IRQ_DISABLE_INTR`, so that wrappers nest; the outermost one
runs the DPCs triggered meanwhile before it returns. The ISRs move bytes or
frames between hardware and the queues of `queue.cpp`. The program reaches the
same queues, the same registers and the same driver fields through
`uart_Send`, `can_Write`, `usb_Receive` and so on, taking `io_DisableINT` for a
few statements at a time and testing queues outside of it.

What is hard to get right, and hard to test:

* the lock itself is not atomic: a handler may run between the test of
  `irq_cscnt` and the `cli`;
* a wrapper may be interrupted between its last look at a line's state and the
  release of the line, and ISRs of a line must not be entered again meanwhile;
* driver code tests a queue or a register, and acts after a handler has changed it;
* interrupts that are enabled only when needed (THREI of the 16550) or come only
  once (a mailbox that is done, a packet the host took): whoever stops the chain
  must be followed by somebody who starts it again, or the driver stalls with
  data queued;
* flags are cleared before or after the work they announce, and a new event may
  come in between;
* resets, by the program, by the bus-off handler or by the USB host, fall between
  any two steps;
* the power fails between any two operations on the flash, and in the middle of them;
* one variable, `twi_state`, says what both roles of the I2C controller are doing, and the
  interrupt handler starts transactions of its own.

## Modules

| Module | What it is | Source |
|---|---|---|
| `IntNesting` | the interrupt lock, one step per machine access, with handlers that nest | `io_irq.h`; the entry and exit code of `irq.cpp` |
| `BoundedFifo` | what a queue promises: atomic FIFO of `Capacity` elements | the abstract specification |
| `DmpQueue` | the ring buffer, one step per access to its fields, called by the program and by a handler; `IsFifo` says that it implements `BoundedFifo` | `queue.cpp` |
| `IrqDispatch` | the wrapper, the scan of ISRs, edges, level lines, DPCs, with devices and PIC | `irq.cpp` |
| `Uart` | a serial port in each of its three flow controls, with the 16550 and the peer | `uart.cpp` |
| `CanBus` | the CAN driver with the controller's mailboxes and the bus | `can.cpp` |
| `UsbDevice` | the USB serial port: device state and bulk endpoints, with the host | `USBCore.cpp` |
| `DurableArray` | what the EEPROM promises: an array that survives power failures | the abstract specification |
| `EepromBlock` | the constructor, read and write, one flash operation per step, with power failures; `IsDurable` says that it implements `DurableArray` | `EEPROM/Block.cpp`, `EEPROM/SPIFlash.cpp` |
| `Twi` | the program's calls and `I2C_ISR` as master and slave, with the controller, a slave and another master | `Wire/utility/twi.cpp` |
| `Streams` | what it means that sequences put end to end hold what was handed over, in order | shared by the drivers' modules |
| `StreamProofs` | lemmas on `Streams` | |
| `DmpQueueProofs`, `IrqDispatchProofs`, `UartProofs`, `CanBusProofs`, `UsbDeviceProofs`, `EepromProofs`, `TwiProofs` | theorems, one module per component (those of `IntNesting` are in `DmpQueueProofs`) | |
| `MC...` | instances for TLC | |

Each module abstracts the layer below to what that layer's own module
establishes. `IntNesting` shows that `io_DisableINT`...`io_RestoreINT` excludes
handlers although it is not atomic; `DmpQueue` therefore takes each of the two as
one step, and shows that a queue operation is atomic; the three drivers take
queue operations, and what the code puts between `io_DisableINT` and
`io_RestoreINT`, as one step. `IrqDispatch` shows that one scan of a line's ISRs
runs at a time; the drivers have one ISR each, during which the program does not
run.

### Interrupt lock: `IntNesting`

Context 0 is the program, contexts 1 to `MaxLevel` the handlers on the stack.
`io_DisableINT` is three steps (`DisableTest`, `DisableCli`, `DisableInc`),
`io_RestoreINT` three (`RestoreTest`, `RestoreDec`, `Sti`) or, when the counter is zero,
one that does nothing (`RestoreNothing`), `io_EnableINT` two (`EnableSet`, `Sti`).
`HandlerEntry` may happen wherever the interrupt flag is set; it sets the
counter to 1 as the wrapper does, and `HandlerExit` to 0. The history variable
`held` counts the pairs a context has open, `owed` those it still has to close
after an `io_EnableINT` inside of them has cancelled them.

Properties: nobody is interrupted while it holds the lock (`CriticalSections`), also
after RestoreINTs that find the counter at zero;
the last `RestoreINT` opens interrupts again (`Reopened`), a handler that keeps
interrupts off is never interrupted whatever pairs it executes
(`HandlerUndisturbed`). The inductive invariant `LockInv`, which the proofs rest on,
is checked by them alone.

### Queue: `DmpQueue` and `BoundedFifo`

An operation is the sequence of its accesses with nested calls expanded:
`PushBufQueue` is Disable, `QueueFull` (Disable, read head, read tail, Restore),
store, advance tail, Restore. The handler may be entered by the program's context
wherever the interrupt flag is set, makes any calls, and leaves before the program
resumes. `BoundedFifo` has three steps per call, invocation, effect and return;
`IsFifo` maps the memory between `head` and `tail` to the abstract contents and
names the step at which each operation takes effect. For `ClearQueue`, which
resets two indices, that is the first of the two.

### Interrupt dispatch: `IrqDispatch`

A frame on `stack` is an activation of `dos_shared_irq_wrapper`, its `pc` the
place between two points where it can be interrupted: before or in an ISR
(`scan`, `isr`), leaving the line (`leave`), in `dos_do_dpc` (`rounds`, `next`,
`dpc`), returning (`exit`). `Enter` is the wrapper's entry, also the re-entry of
an edge line that is only marked PENDING. An ISR returns `ISR_HANDLED`, or, of the
devices in `Possessive` and `Chaining`, `ISR_POSSESS` and `ISR_CHAIN`; it may trigger DPCs
and be preempted. `ISR_CHAIN` does not count as handled, so that an interrupt may be
unhandled although its device was served. DPCs are a linked list through `next`, as in the code.
The main program installs and uninstalls ISRs, sets `IRQ_DISABLE_INTR` and
triggers DPCs. `MaxScan` stands for the code's limit of 500 rounds.

Properties: types, and the lock given back to the program (`TypeOK`), one scan per line
and level lines masked meanwhile (`OneScanPerLine`), no edge missed during a scan (`EdgeSeenByScan`); DPCs run in the outermost wrapper one
at a time (`DpcsOutermost`), the two lists hold exactly the DPCs triggered and
never join (`DpcListsExact`), none is left behind (`NoDpcLeftBehind`), the FPU is
saved before the first one that uses it (`FpuSaved`); a level-triggered device is
served, unless an interrupt of its line has gone unhandled, which leaves the line
disabled (`LevelServed`).

### Serial ports: `Uart`

State: the queues `xmit` and `rcvd`, THREI as `port->ier` has it and as the
register has it (they differ for one step, in the time-out path), the flow
control fields, the 16550's FIFOs and pending interrupts, the line CTS, the peer.
Bytes are numbers in the order they are handed over. Program steps: `SendStart`,
`SendByte`, `SendTimeOut` and `SendLate`, `Receive`, and the two flushes. ISR steps:
one received byte, or one other source of interrupt served. The peer may ignore,
obey with some slack, or play with the flow control.

Properties: `TxStream` and `RxStream` (order, and every loss accounted for),
`NoRxLoss` (room kept under RTS/CTS), `NoTxStall` (THREI is never off with bytes
the peer takes, whatever step `UART_ISR` is at), `MarksInTurn` (one of XOFF and XON waits at
a time, is going to be sent, and tells the peer something new), and the liveness properties `AllSent` and `PeerGoesOn`.

### CAN bus: `CanBus`

State: queues of frames, the count of stored errors, `round`, the mailboxes,
the ISR's snapshot of the interrupt flags (`jobs`) and the flags themselves,
which the controller may set again before the ISR clears them. `jobs` is a set of
numbers in the order of the code's tests: RXI, one per mailbox, bus-off, bus errors; the
least is served first. `can_RoundRobin`
is two steps when the program calls it, the test of the queue and the locked
section; `can_PopError` is the test and the pop. The bus-off handler may call `can_Reset`.

Properties: `TxStream` and `RxStream`, `NoTxStall` (frames are queued only while a
mailbox is busy or its interrupt pending), `NoRxStall`, `NoStaleErrors`.

### USB serial port: `UsbDevice`

State: `usb->state`, the queues, `bulk_in_transmitting`, the static
`ep2_in_len`, the two bulk endpoints' registers and the buffer OutBuf, the
register ISR (`flags`) and the ISR's snapshot of it (`jobs`), the request in
SetupBuf, what the host made of the device. A step of the ISR serves one flag of
the snapshot; the host acts between any two. Control transfers are whole
requests. A bus reset keeps the host silent until the ISR answers it, which USB
guarantees by its length.

Properties: `TxStream` (no packet is written over before the host took it),
`RxStream` (the same inwards, and the queue has room for what the endpoint is
enabled for), `NoTxStall`, `TransfersEnd` (every host transfer is ended by a
short or an empty packet), `RxArmed` (a configured device with room is enabled to
receive). Three of them name, by a history variable in `log`, an event after which
they do not hold; see "Departures" below.

### EEPROM: `EepromBlock` and `DurableArray`

`at` names the flash operation that comes next: those of the constructor
(`CheckFlag`, `CheckReset`, `FinishFlag`, `WrapFlag`, `Load`), of a write (`Idle`,
the three programs of a record, or `EraseSpare`, `Copy` and the steps of
`WriteCounter`: `ResetFlag`, `MarkFlag`, `ResetCounter`, `UnmarkFlag`, `Count`).
`_counter` and `_counter_flag` are cleared bit by bit from the start, so that each is
the number of bits cleared, or `Broken`. `PowerFail` may come at any step; before
it the operation that comes next may be cut off (`CutOff`): an erase leaves
anything in the sector, and programming a byte leaves any byte, except the first
byte of a record and a single bit of a counter, which are programmed or are not.

Properties: `IInv`, the types and what holds between the sectors, the positions and
the image at each step, and `IsDurable`, the refinement: what a constructor would load
changes only at the last program of a write, and only by that write.
`ProgramsErased`, that every byte is erased when it is programmed, is a theorem.

One erase is assumed not to be cut off (`TornFullFlag`): that of a full `_counter_flag`
in the constructor, `Block.cpp:387`. If it is, a pair 01 may be left there, the next
constructor erases `_counter`, and the old sector becomes active. The flag is full only
after 16384 rounds of `_counter`, and a round is 32768 erases of a data sector; the flash
is worn out long before.

### Wire: `Twi`

State: the static variables of `twi.cpp`, the place of the program in a call (`test`,
`claim`, `prepare`, `start`, `wait`), the controller (`ctl`: whether it owns the bus,
the direction, what it is doing and what is to follow), the interrupt it
requests, and the other master's transaction with us. `I2C_ISR` is one action for each
case of its switch. The controller is modelled by what `twi.cpp` expects of it:
an address or a byte is acknowledged or not, an address may lose the arbitration, a slave's
two flags come one after the other or together: a byte sent and the request of the next one, a
byte received and the STOP after it. A byte that is not read stays in the data register
(`other.unread`): it came with the STOP, whose case calls the callback without reading it, or
`twi_rxBuffer` was full. What the controller does when another byte follows is not known from
the code, and is both: it holds the clock for ever (`OtherHeld`), or writes over it.
`call.moved` is what went over the wire.

Properties: `Writes` (the result of `twi_writeTo` is what happened), `Reads` (that of
`twi_readFrom`, and no byte more is taken from the slave), both with the bus given
back; `SlaveSide` (the callback gets the bytes written to us, in order and from the first
one on, but those that were not read; the other master reads our reply, in order, for as long
as the reply is); `CallsReturn`. What follows the end of the reply is finding 3
(`LastByteAgain`).

`twi.cpp` ends its lines with CR alone, so that line-oriented tools see one line;
`PROJECT.json` gives line 1 for it, and the lines an editor shows in the text beside it.

## Runs

Bounds are constants of the modules and named there.

| Run | Instance | Size | Shows |
|---|---|---|---|
| `queue` | capacity 2, two elements | 0.4 M states | types, no preemption inside, refinement of `BoundedFifo`, interrupts reopened again and again |
| `nesting` | 3 nested handlers, lock taken 2 deep | 30 k | the lock |
| `irq_dispatch` | a level line with two devices, an edge line, one DPC | 4.7 M | scanning, masking, nesting |
| `irq_dpc` | two level lines with a device each, two DPCs, one of them with FPU | 0.12 M | the DPC lists; service of the level lines |
| `irq_edge_lost` | one edge line | violation | finding 1 |
| `uart` | queues and FIFOs of 2, 3 bytes out, 3 in, the peer changes its mind twice | 1.3 M | safety and liveness in the three flow controls |
| `can` | 2 mailboxes, queues of 2, 1 and 1, 3 frames out, 2 in, an error, a bus-off, a reset | 6.9 M | safety |
| `can_garbage` | transmission only | violation | finding 2 |
| `usb` | queues and packets of 2, 4 bytes out, 3 in, 5 requests, a bus reset or a suspend | 3.0 M | safety |
| `eeprom` | 2 addresses, bytes of one bit, 2 records, 4 bits of counter and of flag | 1.3 M | the block survives every power failure |
| `twi` | buffers of 2, 2 calls, 2 transactions of the other master of up to 3 bytes | 1.3 M | both roles, and that calls return |
| `twi_last_byte` | the same | violation | finding 3 |

Why the bounds are enough. The interesting cases of a queue are empty, one, full
and wrap-around; capacity 2 has them all. Three levels of handlers are one more
than needed for a handler to be interrupted while it interrupts. Two devices on a
level line are needed for one to be scanned while the other asserts, a second line
for nesting; two DPCs for a link to follow while the other one is triggered. The mask
register enables one line at first, the other one is enabled by the ISR that is installed on
it, so that `irq_UninstallISR` has either to restore. In the drivers, queues of two
fill, cross their threshold and time out with three or four bytes; FIFOs and
packets of two make a batch or a packet full, short and empty; two mailboxes have
a turn to wait for (with three, as in the code, the turn only takes longer to come
round). One reset is enough to fall between any two steps, and five USB requests
enumerate and connect the device on one side of it and configure it on the other
(with a sixth, which connects it on both sides, the run takes 13 M states and holds).
The peer of the `uart` run stops at once when RTS is dropped (`Slack` = 0), though bytes may be
in the FIFO: what a queue of two has room for. A queue of three with a peer that sends one more
byte (`RxSize` = 3, `NearFull` = 2, `Slack` = 1, `MaxRx` = 4) was checked for safety alone (4.3 M
states); the theorems hold for every size and slack.
In the EEPROM two records fill a sector, so that it is copied, four bits of counter make
it wrap and use the flag, and four bits of flag make that wrap; the number of writes and
of power failures is not bounded. On the I2C bus two calls are needed for one to leave a
transaction to the next, three bytes to overfill a buffer of two (three calls with one
transaction of the other master take 1.4 M states and hold).

Deadlock is checked where the model never stops (queue, lock, dispatch). The
drivers' models stop when their counters of bytes are used up, so that their
configurations turn the check off; their stalls are stated as properties instead.

The shared level line's devices are interchangeable and are given as a symmetry
set, in runs without liveness.

## Fairness

* `queue`: a call goes on while its context runs (weak), and a handler returns
  (strong, as it may make calls for ever in between): the processor executes, and
  an ISR is finite.
* `irq_dpc`: a wrapper at each depth of the stack makes steps (strong: it is suspended
  and resumed), and the processor takes a line that is requested again and again
  while it can be delivered (strong: other lines come first, but the 8259 resolves
  priorities and edge devices wait for service before they raise again). ISRs return.
* `uart`: `UART_ISR` runs while it has something to do, the 16550 sends what it
  has (weak); the program, when it waits for room in `uart_Send`, goes on when there is
  some, and reads again and again (strong). Nothing is assumed of the peer; the properties say
  "if in the end the peer lets us send".
* `twi`: the program makes its next step when it can, `I2C_ISR` runs when it is requested,
  the controller finishes what it began, and the other master goes on with a transaction
  it has begun (all weak; only its number of transactions is bounded, so that the bus is
  free in the end). It may be held by our slave: `CallsReturn` excepts that.

## Proofs

`DmpQueueProofs`, the lock. For every nesting depth: `LockInvariant`,
`CriticalSectionsHold`, `ReopenedHolds`, `HandlerUndisturbedHolds`. The properties
alone are not inductive: they say nothing of a context that is suspended in the
middle of `io_DisableINT`. `LockInv` adds that a suspended context holds nothing and
is outside of the functions or between a test that saw zero and its `cli`, and
that the counter is what the running context holds. When that context resumes the
counter is zero again, so that what it saw is still true: this is why one counter,
shared by all contexts without any atomic access, works.

`DmpQueueProofs`, the queue. For every capacity and every set of elements: `TypeCorrect`,
`NeverPreemptedInside`. `IInv` says how deep the running context holds the lock at
each step of each operation (`Depth`), that a suspended context holds nothing, and
what the locals read so far stand for (`LocalsOK`). One lemma per kind of step
(`DisableStep`, `ReadHeadStep`, ...) keeps it. The lemmas on the indices (`Wrap`,
`WrapOne`, `SizeRange`, `SizeMoves`) bound the modular arithmetic.

The last part of it is the refinement. `Refinement` is `Spec => IsFifo`: the ring buffer
implements `BoundedFifo` for every capacity, every set of elements and every interleaving. The
argument: each operation takes effect at one step (`EffectAt`), made under the lock,
where `LocalsOK` says that the indices read are still the indices; that step is the
FIFO's `Push`, `Pop`, `Peek`, `Clear` or `Query` (`PushEffect`, ...), and every other
step leaves the mapped state alone (`UnseenStep`). The contents are the segment of
memory from head to tail; `SegmentAppend`, `SegmentTail` and `SegmentKept` say what an
advance of either index and a write to the slot at the tail do to it, wrapping
included. Between the two resets of `ClearQueue` the indices say nothing; the mapping
calls the queue empty there, and `ClearingAlone` shows that nobody else is looking.

`EepromProofs`. For every number of addresses, records, counter and flag bits and every
range of a byte, with `~TornFullFlag`: `EepromInvariant`, `EepromErased`, and
`EepromRefinement`, that the block implements `DurableArray`. `IInv` says, for each flash
operation that may come next, which pairs of counter and flag are possible
(`CounterOK`), that the sector the parity names as active is whole, has all its complete
records before one that may be unfinished and nothing behind (`DataOK`), and what the
image in memory has to do with it. `Boots` turns that into what the next constructor does;
there is one lemma per operation, and one per operation that is cut off (`FlagCut`,
`CounterCut`, `SpareCut`, `RecordCut`), each of which shows both that `IInv` is kept and that
the stored array is not touched. `Division` to `PairInByte` are the arithmetic of a bit's
place in its byte.

`IrqDispatchProofs`. For any lines, devices and DPCs, any limit on the scans and any depth
of nesting: `TypesOK`, `ScansAreUnique`, `EdgesAreSeen`, `DpcsRunOutermost`,
`DpcListsAreExact`, `NoDpcIsLeft`, `FpuIsSaved`. None of them is inductive alone. That no line
is scanned twice needs the state of each line to say whether a frame holds it (`Scans`); that
DPCs run in the outermost wrapper alone needs every wrapper below another to be at a point
where interrupts are open (`Nesting`); that the lists hold exactly the waiting DPCs needs them
to be disjoint and acyclic (`Links`), which in turn is why appending at the tail of one of them
leaves the other alone. `Fpu` and `Emptied` say what the wrapper knows when it takes the list
and when it leaves. A list is not a recursion along `next` but the least set that holds its
head and is closed under `next` (`Reach`), so that what the proofs need of it (`ReachHead`,
`ReachClosed`, `ReachFrame`) takes no induction.

`StreamProofs`. The three drivers' stream properties have one form: sequences put end to end
hold the numbers 1 to n, in order, but those of a given set. The lemmas say what that form
survives: one more number at the end (`NextNumber`), one more that is lost (`LostNumber`), a
packet (`NextNumbers`), something taken out in the middle (`TakenOut`) or at the end
(`TakenOff`), and how to move elements from one sequence to the next (`Associative`,
`HeadAndTail`).

`UsbDeviceProofs`. For queues and packets of any size and any number of bytes, requests,
suspends and bus resets: `TypesOK`, `BytesAreSent`, `BytesAreReceived`,
`TransmitterNeverStalls`, `TransfersAreEnded`, `ReceiverIsArmed`. `BulkIn` ties
`bulk_in_transmitting` to the packet the endpoint holds or to the interrupt of one the host
took, wherever that is: in the register, or in the ISR's snapshot of it. `BulkOut` keeps room
for the packet the endpoint is enabled for. `Control` says how far the device can be from
what the host takes it to be.

`CanBusProofs`. For every number of mailboxes, every size of the queues, whether the bus-off
handler resets the controller or not, and any number of frames, errors and resets:
`FramesAreSent`, `FramesAreReceived`, `TransmitterNeverStalls`, `ReceiverNeverStalls`,
`ErrorsAreFresh`. `TxMoves` is the reason for the fourth property's transmitting half: with
frames queued, a mailbox is busy, or a flag is set that stays, or the flag about to be cleared
will be counted as missed; `TxPending` says what a flag tells of its mailbox, and
`RxPending` that RXI is set as long as CAN_ISR is at it.

`UartProofs`. For queues, FIFOs and batches of any size and any number of bytes, in each flow
control: `TypesOK`, `BytesAreSent`, `BytesAreReceived`, `NothingLostUnderRts`,
`TransmitterNeverStalls`, `MarksTakeTurns`. `Transmitter` says that THREI is on with a FIFO
that is empty and unannounced at no time, and on whenever the program is at rest with bytes
that may be sent; `Room` ties RTS to the room in `rcvd`. With XON/XOFF the FIFOs carry marks
between the bytes: `Transmitted` says what of a batch and its mark fits, `Inserted` and
`Unmissed` (in `StreamProofs`) that a mark disturbs no stream, and `MarksInTurn` follows from
the order of the marks in both directions and how often each waits (`OneMoreMark`).

`TwiProofs`. For buffers of any size and any number of calls and of transactions of another
master: `WritesTellWhatHappened`, `ReadsReturnWhatCame`, `SlaveIsServed`. `twi_state`, the
interrupt requested and the controller's registers are three accounts of one transaction;
`AtWork` lists the eight ways they agree while a call waits, `AtRest` the five while none
does, with the next transaction begun by `I2C_ISR` or not, and `Situation` reads them off an
interrupt. `Ended` carries what was moved until the call returns. For the slave, `Written` and
`Reply` say which byte is in the data register, and that `twi_rxBuffer` holds the first of
the others. `SlaveUntouched` and `MasterUntouched` split
each step: a role leaves the other's half alone, since it owns the bus or not.

The assumptions are the constants' (`QueueAssumption`, `PendingAssumption`,
`NestingAssumption`, `DispatchAssumption`, `UartAssumption`, `CanAssumption`,
`UsbAssumption`, `BlockAssumption`, `TwiAssumption`), which TLC evaluates in every run of those modules.

Only model-checked: liveness (`InterruptsReopen`, `LevelServed`, `AllSent`,
`PeerGoesOn`, `CallsReturn`), which needs ENABLED and is out of the prover's reach. Every
safety property that a passing run checks is a theorem.

## Findings

1. `irq_edge_lost` - `irq.cpp:319`. An edge that arrives between the last test of
   IRQ_STATE_PENDING and the release of the line is marked and the mark overwritten:
   the edge is never served.
2. `can_garbage` - `can.cpp:63`. `can_RoundRobin` tests the queue outside of the lock;
   CAN_ISR may take the last frame, and an uninitialized frame is sent.
3. `twi_last_byte` - `twi.cpp:787`. Asked for more than the reply has, with both flags in one
   interrupt, the slave sends the byte behind the reply once, which with a full buffer is read
   from behind it; twi.cpp:792 says "send the last byte to master".

## Other departures

What came up beside the findings. Of most of these no document of the repository says
otherwise; one contradicts a comment, which is quoted. They are hazards with a note,
conditions in the properties, or outside of the models, as said of each; none has a run.

* `irq.cpp:323`: whether a level line is enabled after an interrupt is decided by an error
  flag that no interrupt clears, and not by what happened to this one. A line that had
  an unhandled interrupt, and whose ISRs are uninstalled and installed again, is disabled
  by the first interrupt, though it was handled. (irq.cpp:322: "we will disable it if no
  ISR can handle it".) The model has the flag; `LevelServed` excepts lines on which it is set.
* `twi.cpp:426`: a transaction of another master that comes between the test of `twi_state`
  and its assignment, or while a call waits for the bus, overwrites `twi_state`: the call
  ends, `twi_writeTo` with 0, and nothing was sent. `Twi` stops there (`astray`).
* `twi.cpp:675`, `twi.cpp:707`: without STOP the next transaction is begun before it is
  known. A second write without a read in between, a call that comes too late, a last
  byte that comes too late: `Twi` stops there too, the controller being unknown. In the
  late case a NACK leaves `twi_inRepStart` set, and the next call waits for ever.
* `twi.cpp:738`, `twi.cpp:745`: a byte for which `twi_rxBuffer` has no room, or which came
  together with the STOP, is not taken from the data register and does not reach the callback;
  the clock may be held when the next one comes (`other.held`).
* `Wire.cpp:177`: a request of another master while the program fills its buffer goes into
  that buffer (Wire.cpp:291 says so).
* `SPIFlash.cpp:173` ends with `enable()`, which does not nest: reading or writing the EEPROM
  inside `io_DisableINT` opens interrupts early.
* `irq.cpp:446`: `irq_FreeDPC` tests a DPC's state inside the lock and frees it outside.
* `uart.cpp:576`: the modem status is read outside the lock after `port->control` is set.
* `can.cpp:835`: a reset by the bus-off handler between the test of the queue and the pop lets
  `can_Read` return true without a frame.
* `USBCore.cpp:1129`: a bus reset that discards a packet leaves `bulk_in_transmitting`
  set; nothing is transmitted any more (`log.stranded`).
* `USBCore.cpp:1752`: `usb_Receive` takes an endpoint whose packet has just come in for
  a disabled one, and enables it before the packet is read (`log.torn`).
* `USBCore.cpp:1765`: `usb_FlushRxQueue` on a full queue leaves the endpoint disabled, with
  nobody left to enable it (`log.deaf`).
* `USBCore.cpp:533`: Set_Configuration enables the endpoint without a look at the queue
  (`log.unasked`).
* `USBCore.cpp:1215`: suspend leaves the state POWERED and resume does not restore it.
* `uart.cpp:182`: the queue is emptied while an XOFF waits to be sent; the XOFF goes out
  and no XON follows.
* `uart.cpp:914`: with a mark to send and WFIFO_Size equal to the FIFO's depth, the last
  byte of a batch does not fit; `TxStream` bounds the loss.
* `can.cpp:110`, `can.cpp:126`: a flag is cleared after the work it announced; an event in
  between is not announced (`log.missedRx`, `log.missedTx`).

## Not modelled

* Creation, opening and closing of drivers and their allocation failures: sequential, and
  before or after any concurrency.
* `i2c.cpp`: the register layer under `twi.cpp`, and a second, polled interface nobody else
  uses. Of `twi.cpp`: high-speed mode, `wait` = 0, a reset of the controller that fails.
* The SPI commands under the EEPROM (what erase and program do to a sector is modelled), the
  choice of a block by `EEPROMClass`, the 200 bytes of CMOS RAM.
* Endpoint 0's stages, the address register, endpoints 1 and 3 of the USB device.
* `com.cpp`, stream objects: they forward calls. `peek` keeps one byte; `available` does not
  count it (`CDC.cpp:48`).
* Analog, tone, pulse, shift, timers: register accesses.
* Strings, printing, parsing: sequential conversions inherited from Arduino.
* The other libraries, FreeRTOS, FreeDOS, compilers, networking stacks: third party.

## Plan

In the order of importance; the first nine are done.

1. `IntNesting`: everything rests on the lock. Proved.
2. `BoundedFifo`, `DmpQueue`: every driver rests on the queue. Types, exclusion and
   the refinement proved.
3. `IrqDispatch`: every ISR is called by it.
4. `Uart`, `CanBus`: the two drivers with the most traffic.
5. `UsbDevice`: bulk endpoints and device state.
6. The refinement `Spec => IsFifo` as a theorem, in `DmpQueueProofs`.
7. `EepromBlock` implements `DurableArray`: checked, and proved in `EepromProofs`.
8. `Twi`, master and slave.
9. Proofs of the safety of all modules.
10. `UsbDevice`: the address register and start of frame, endpoint 3 with HID reports.
11. The wrapper of `irq.cpp` that chains to an old ISR; `irq_FreeDPC`.
12. `WInterrupts` and tone on top of the dispatch.
