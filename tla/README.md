# TLA+ models of the MediaTek UEFI platform code

Models, model-checking runs and proofs for the EDK2 firmware packages under
`src/Silicon/MediaTek` and `src/Platform`. Paths below are relative to `src/`; `P` is
`Silicon/MediaTek/MediaTekPkg`.

## Parts of the system

| part | code | state it keeps | hard part |
|---|---|---|---|
| key buffers | `P/Drivers/KeypadDxe/KeypadTextIn.c`, `Keypad.h` | ring, head, tail | wrap, overflow, reset by index |
| keypad device library | `*/Library/KeypadDeviceImplLib` | a context per key, two bitmaps | gestures over irregular polls, combinations |
| keypad console driver | `P/Drivers/KeypadDxe` | two buffers, notify list, events | task priority levels, re-entrant callbacks |
| keypad driver binding | `Keypad.c` Start, Stop | which resources exist | a failure at every call |
| PMIC wrapper | `P/Drivers/PmicWrapperDxe` | hardware state machine | busy waits, re-entry from a timer |
| PMIC drivers, RTC | `P/Drivers/MT635*PmicDxe`, `P/Library/MT635*RtcLib` | PMIC registers | reads torn by a running clock |
| GPIO | `P/Drivers/MtkGpioDxe` | pin registers | set/reset aliases, pin arithmetic, widths |
| watchdog | `P/Drivers/WatchDogDxe` | mode, ping timer | ping period against level hogging |
| memory map | `P/Library/MemoryInitPeiLib`, `*/PlatformMemoryMapLib` | region tables | overlaps, HOB options, table bounds |
| display | `P/Drivers/SimpleFbDxe`, `P/Library/FrameBufferSerialPortLib` | cursor, frame buffer | wrap, interrupt state, layers, a walk outside its critical section |
| SD card hack | `Silicon/MediaTek/MT6789Pkg/Drivers/SdCardHackDxe` | pin registers | shared registers, polls in between |
| ACPI patching | `P/Library/DxeAslUpdateLib` | one table | search bounds, checksum |
| RAM disk | `P/Drivers/RamDiskDxe` | image | failure paths |
| boot manager | `P/Library/PlatformBootManagerLib` | console variables | handle counts |

What each part does, and what makes it correct:

| part | operations | correct when |
|---|---|---|
| key buffers | push, pop, clear | they are queues that forget their oldest key, wherever the ring wraps |
| keypad device library | `KeypadReset`, `GetKeys` and, in it, one update for each key | a press is answered once, by its own button, with the key or combination the buttons say now; the state machine comes to rest |
| keypad console driver | poll, read, wait, reset, set state, register, unregister, handler | no queued key is stranded; each matching function is called and none that is gone; a signalled wait has a key; handles stay valid |
| keypad driver binding | Supported, Start, Stop | a failed Start and a Stop leave nothing armed, open or installed |
| SD card hack | `ConfigureMSDCGpios` | each card pin ends with its mode, drive and pulls |
| PMIC wrapper | `Read`, `Write`, initialisation | a transaction gets its own answer, and no interruption leaves the state machine waiting |
| PMIC drivers, RTC | regulators, debounce, `RtcGetTime` | a voltage read back is the one set; the time read is not before the call |
| GPIO | mode, direction, output, input, drive, pull | an operation changes its own pin; what is read is what was set |
| watchdog | `SetTimeout`, ping, handover | it fires when the firmware hangs and not before |
| memory map | `MemoryPeim` | regions are disjoint, and each is described and mapped as its table entry says |
| display | `PutChar`, `Blt`, layer set-up | the cursor stays on the screen, interrupts end as they were, and the screen shows what was drawn |
| ACPI patching | update name, method, SSDT | only the named object changes, and the checksum is right |
| RAM disk | unpack, register | a failure leaves no half-registered disk |
| boot manager | console and option set-up | each console that is found is connected once |

How they interact: `GenericKeypadDeviceDxe` installs the keypad device protocol.
KeypadDxe binds to it, arms a 20 ms timer and, from the timer and from every read or
wait, calls `GetKeys` at TPL_NOTIFY. `GetKeys` samples one GPIO pin and two PMIC keys
(through the PMIC wrapper) and calls back `KeypadReturnApiPushEfikeyBufTail`, which
fills the two buffers and signals `KeyNotifyProcessEvent`.
`KeyNotifyProcessHandler` runs at TPL_CALLBACK and calls the clients' functions, which
may call the driver again. The PMIC is also read by the real-time clock and by whoever
sets a voltage. `SdCardHackDxe` sets up pins through the GPIO protocol while the poll
reads one. The watchdog's ping and the poll timer share TPL_CALLBACK. PrePi prints on the
UART and builds the memory map. In a DEBUG build each DXE module then prints on the frame
buffer with a copy of `FrameBufferSerialPortLib` of its own, and so a position of its own on
the one screen (`P/MediaTekCommonDsc.inc:245-249`; PrePi has the UART's library, 316-320).
SimpleFbDxe clears the frame buffer and serves Blts, and the modules go on printing between
and over them.

## Modules

| module | models | notes |
|---|---|---|
| `BoundedFifo` | what a key buffer promises: a queue of at most `Capacity` keys that forgets its oldest | operators only |
| `KeyFifo` | the same as a state machine | abstract specification |
| `KeyQueue` | `EFI_KEY_QUEUE`, `PopEfikeyBufHead`, `PushEfikeyBufTail`, the index reset in `InitKeypad` | implements `KeyFifo` |
| `KeyGesture` | what one button promises its user: one answer to a press | abstract specification |
| `KeypadDevice` | `KeypadDeviceImplLib.c` | implements `KeyGesture` for each key |
| `Keypad` | `KeypadTextIn.c`, `KeypadController.c`, the callback in `Keypad.c` | uses `BoundedFifo` for both buffers |
| `KeypadClients` | `Keypad` with the handles its clients hold | |
| `KeypadInput` | the driver on top of its device, with the counter that tells polls the time | extends `Keypad`, instantiates `KeypadDevice`; implements both |
| `KeypadBinding` | Supported, Start with its `ErrorExit`, Stop in `Keypad.c` | |
| `PmicWrapper` | `PmicWrapperDxe.c` and the hardware's state machine | two callers, one inside the other |
| `Pmic` | `MT6358PmicDxe.c`, `MT6358RtcLib.c`: clock and regulators | extends `PmicWrapper` |
| `MtkGpio` | `MtkGpioDxe.c` | register accesses one by one |
| `WatchDog` | `WatchDogDxe.c` and the counter | |
| `Board` | the four above with the SD card set-up and the keypad's poll on one processor | implements `PmicWrapper` |
| `MemoryMap` | `MemoryPeim` over the four platforms' tables, the clear of `SimpleFbDxe` | |
| `FbConsole` | `FrameBufferSerialPortLib.c`, as several DXE modules have it | writes at several task priorities, one inside the other |
| `SimpleFb` | `DisplayBlt` of `SimpleFbDxe.c` | and what a Blt notices of the consoles |
| `Display` | the three above: PrePi, the DXE modules of a DEBUG build, SimpleFbDxe | |
| `*Proofs` | theorems about the module they are named for | `KeypadProofs` also about `KeypadClients`, `BoardProofs` also about `Pmic`, `MtkGpio` and `WatchDog`, `DisplayProofs` about `FbConsole`, `SimpleFb` and `MemoryMap` |
| `MC*` | values of the constants for TLC | |

Definitions marked *Mutant* are broken variants of the definition that follows them.
No specification uses them; they document what each property would catch.

### KeyQueue

`buffer`, `head` and `tail` are the C fields. `popped` holds what the last removal
returned. `Content` reads the ring from head to tail; under it the ring is `KeyFifo` with
one slot less than the array has. A reset moves only the indices, so `buffer` keeps
its old keys, and the refinement shows that they are never read.

### KeypadDevice

`ctx` is `KEY_CONTEXT` for each key and `held` stands for the bits of both bitmaps.
`LibKeyUpdateKeyStatus` is the disjunction of the branches of its `switch`, one action
each. `GetKeys` is one step to enter and one `PollKey` step per key, because the
combination keys read bits that the earlier keys of the same poll wrote and because the
local `IsPressed` is carried along. Buttons (`Toggle`) move between polls only: each is
sampled once in a poll, and what a key does depends on its own sample and on samples
taken before it, so moving within a poll adds no behaviour. `Time` stops counting at
`TimeCap`, above every threshold. `Init` leaves open whether the constructor found the
GPIO and PMIC protocols, and starts from zeroed contexts since the timer runs before
the first reset.

### Keypad

An application calls in at TPL_APPLICATION; the timer and the handler are event
notifications at TPL_CALLBACK, run in the order they were signalled (`eventQueue`) and to
the end (`callback`); the buffers are touched only at TPL_NOTIFY, which nothing here
interrupts. So:

* a critical section that calls `KeypadTimerHandler` is entered (`Enter`, or `Dispatch`
  of the timer), lets the device push any number of keys
  (`KeypadReturnApiPushEfikeyBufTail`), and leaves by the action of its caller;
* a critical section that does not poll is one action (`KeypadEfiReset`,
  `KeypadSetState`, `KeypadRegisterKeyNotify`, `KeypadUnregisterKeyNotify`);
* `KeyNotifyProcessHandler` is one action per pop (`HandlerPops`) and per list entry
  (`HandlerWalks`); a function it called may make any call of the protocols until
  `KeyNotificationFnReturns`;
* `KeypadReadKeyStroke` loops over `KeypadReadKeyStrokeWorker`, and the callers that are
  inside the loop are `reading`.

`KeypadController.c:34` says the timer runs at TPL_NOTIFY; the code creates it at
TPL_CALLBACK, and so does the model: polls wait for notification functions.

The list entries come from the pool `Nodes` and a freed one holds `Free`; the link of a
freed entry may be anything. `SelfRemoval` says whether a function may unregister the
entry it is being called for: the code does not survive that (see the findings), so the
passing runs exclude it. `KeypadErr` is left out because nothing calls `KeypadError`.
Lock lights, modifier fields that are only ever cleared and the control-letter
translation of a key already popped are left out too: no property depends on them.
An allocation that fails changes nothing and is a step that does nothing.

The device is represented by `Inputs`, any key at any poll. `KeypadDevice` says which keys
really come.

### KeypadClients

A client keeps the handle a registration gave it and unregisters with it once.
`clients` is that history.

### KeypadInput

`Keypad` takes any key from any poll and `KeypadDevice` any time between polls;
`KeypadInput` joins them. The device's variables are its own, through the instance
`Device`; `elapsed` is the performance counter less `ConsoleIn->Last`. An action of the
driver that polls also starts `GetKeys` with that time and starts it anew
(`KeypadTimerHandler`); each key that `GetKeys` comes to may call back
`KeypadReturnApiPushEfikeyBufTail` (`Pushes`), and the critical section is left when
`GetKeys` is through (`PollEnds`). Time passes at any moment, in the middle of a poll too.
`installed` says that `Start` has reset the device and installed the protocols. The timer is armed
before that, so the first polls find keys without data, which make partial keys; before
the protocols are there nobody can have exposed those.

The guards of the two parts that the other is responsible for are not repeated: a reset
does not ask whether a poll is under way, a push does not ask for a critical section. That
the joined steps are steps of each part is what `ImplementsDriver` and `ImplementsDevice`
show. `age` is a history, apart from the driver's clock: how long ago the last poll began, and for
each key the poll that saw it pressed or reported it last.

### KeypadBinding

`StartOrder`, `ExitOrder` and `StopOrder` are the calls of `Start`, of `ErrorExit` and of
`Stop` in the order of the source; a step of the model is one call. `held` is what the
driver holds, `pending` the event notifications that wait, `listed` the length of
`NotifyList`. Between any two steps the timer, the handler and clients of the installed
protocols run. When the device cannot be allocated, `ErrorExit` frees the notify list of a
null pointer: the driver comes back or it does not (`lost`), which is why the run has
`CHECK_DEADLOCK FALSE`. A Stop that a consumer refuses returns with the protocols in place
and the timer closed; `AllOrNothing` has that as its one exception, named in its comment.
Neither of the two is caught by a property (see the remarks after the findings).

### PmicWrapper, Pmic, MtkGpio, WatchDog and Board

A transaction on the wrapper is three to five register accesses, each an action
(`WacsWaitForIdle` to `WacsReadReturns`). `call` holds the transaction of the application
and that of the keypad's poll, which may begin between any two accesses of the former and
runs until its own are done: `running` says whose turn it is. `HwExecutes` is the
hardware. Of it the model assumes what the driver's code does: it takes a command only
when idle (a command at another time is dropped), a read waits for `VLDCLR` once it has
its answer, and `VLDCLR` takes effect at once. `held` and `meant` are histories: what a
register held while it was being read, and what the writes so far say it should hold.

A poll that interrupts a read between its command and its clear waits for an idle state
that only the interrupted read can bring about, with no limit (`Hung`). The keypad driver
makes this possible: its timer polls at a higher level than `RtcGetTime` and the
regulator calls run at. No comment of the code promises otherwise, so this is not a finding
but part of what is shown: it happens only there (`HangsOnlyInsideRead`), every
other poll comes back (`PollReturnsUnlessHung`), and where the boot loader left the
watchdog running and the driver pings it, it ends in a reset (`HangEndsInReset`).

`Pmic` adds the functions of the protocol, as the transactions each makes, and the clock,
whose registers carry one into the next between any two reads. A field of a register is
given by the weight of its lowest bit and the number of its values (`FieldOf`,
`WithField`), where the code has a shift and a mask. `RtcGetTime` reads the
seconds first: a carry can make the result late by as much as the field it carries into,
but never early, which is `TimeNeverEarly`. A `LdoSetVoltage` of a voltage the table does
not have writes an uninitialised `Vosel`: any bits. VDRAM2 has no table
(`MT6358PmicDxe.c:60`: a length of zero and a null range): `VoselLen - 1` wraps and the loops of
118 and 148 walk up from address 0. What such a set writes if it comes to an end is any
bits too, of the field and above it; that it may fault or never end instead is outside the model.
`VoltageReadsBack` asks nothing of a voltage that was not in the table, so nothing of VDRAM2,
but the theorem holds of the other regulators with VDRAM2 set in between.

In `MtkGpio` a register is the set of its bits. Set and reset aliases change bits at
once and are taken to read as zero. A mode or a drive strength is the set of its bits that
are one, and `Drv` and `RPins` give a pin's place in the drive and pull registers;
`contents` is the register an operation has read and not yet written back. `GpioSetDrv`, `GpioSetR0`, `GpioSetR1` and
`GpioSetPupd` read and write back in two accesses. A shift by 32 (`PIN_MODE_BIT` of pin 8)
is undefined in C and is taken to wrap or to vanish; under either `OnlyItsPin` holds.

`WatchDog` counts in periods of the ping timer. `Board` puts all of it on one processor:
the SD card set-up and one more GPIO user, or an application with the PMIC, under the
poll and the ping. They are two phases because no application of the PMIC uses pins.
Everything the firmware does is short against the 5 s of a period, so `TimePasses` lies
between functions, unless the firmware hangs.

### MemoryMap, FbConsole, SimpleFb and Display

The tables of `MemoryMap` are those of the four platforms, row by row, in pages of 4 KB (blanks in names are underscores).
Two of them overlap: free memory of t1100 (`DDR_Memory_5`) reaches 6 MB into its TEE's
(`TEE_Memory`), and free memory of roo (`HLOS_1`) covers what the ARM trusted firmware
keeps (`ATF_Reserved`). No doc of the repository says what the tables should be, so they
are named in `KnownOverlaps` and excluded; `FramesAreKept` says there is no third, and that
the HOBs and the frames respect the reserved regions. It is about what `MemoryPeim`
describes, in one step since nothing else runs then, and says nothing of the clear of
SimpleFbDxe, which leaves the frame buffer (see the findings).

`FbConsole` is the consoles of any number of DXE modules, each with an `m_Position` (`x`,
`y`), on one processor. A write is at a task priority; one of a higher priority may come
into it whenever interrupts are on, from another module or from the same one. The critical
sections see to it that they are off, but a `'\n'` jumps past the declaration of `intstate`,
and what is then restored is undefined: interrupts may be on for the rest of the write.
So the passes through `FbConPutCharWithFactor` are single steps for a glyph and what is
dropped, and a `'\n'` is taken apart into the accesses of its line feed
(`FrameBufferSerialPortLib.c:145-147,158`): load, store, first column, compare, then back to
the top or the clear of the line; the compiler may compare the register or read the
position again, and `Compare` does either. Two such line feeds of one module, one inside the
other, put its position past the end of the page, until the inner one or the outer one has
moved it to the top: `NextGlyphFits` allows two lines for each (`Overruns`), so a glyph that
is painted meanwhile may be that far below the screen, and no further.
`InterruptsAsFound` holds of the writes whose text has no `'\n'`, at any depth; of the others
nothing is promised. `SerialPortWriteCritical`, `ResetFb` and `FbConScrollUp` have no
callers.

`SimpleFb` draws with `FrameBufferBlt` (outside `src/`, modelled as the copy it makes or
refuses) in one step at TPL_NOTIFY, and then walks the destination two pixels at a time,
load and store apart, at the level of the caller; the wider groups of the code are the
same thing with more pixels. A callback's Blt may come between, and so may what a console
paints (`Prints`). The comment in the code calls the write atomic (see the findings); what
is left of that is `ShowsLastDrawn`: a pixel differs from what was last drawn on it only if
it was drawn, by a callback or a console, while an interrupted walk had it in registers.
`DrawnIsOpaque` asks for the pixels of a buffer that the driver made opaque: it sets the
alpha bytes of the buffer's first rows and columns, wherever the source begins, and a
`BufferToVideo` from elsewhere draws the rest as it was (`FromCorner`). The rest of a walk that
goes past the frame buffer, after a Blt that was refused, is not modelled.

`Display` is PrePi, the DXE phase and the Blts. A console reads nothing of the frame buffer
and asks for no driver, so it does the same with and without Blts: the consoles are followed
step by step until SimpleFbDxe is there, and from then on by what Blts notice of them, any
glyph or cleared line at any moment (`Prints`), which is more than they do. In a RELEASE build
no console step is taken; the specification does not require any.

## Runs

| run | question | bounds and why they are enough |
|---|---|---|
| `key_queue` | is the ring a queue that forgets its oldest key? | 4 slots: both indices wrap, fill level 0 to 3, overflow at every position |
| `keypad_device` | does each button answer each press once, with the right key, and come to rest? | three keys as in the code; thresholds 1, 2, 3; polls with no time, one unit or a whole long press between them, so every comparison goes both ways |
| `keypad_driver` | buffers, list and handles under all interleavings | room for 3 keys, 3 entries, 2 functions, a whole and a partial key; overflow, double registration and reuse of entries all occur |
| `keypad_input` | are driver and device what each takes the other for, is a hold timed right whoever polls, and is every notification taken up? | one button, every threshold one unit of time, room for one key, one registration: each way of polling, a hold, a repeat, a tap and an overflow occur, before and after the reset of `Start`; `HoldsTakeTheirTime` covers other thresholds |
| `keypad_duplicate_notification` | finding | two registrations of one key |
| `keypad_self_removal` | finding | one function that unregisters itself |
| `keypad_binding` | do Start and Stop let go of everything, in a safe order? | `MaxListed` 2: an empty list, one entry, several |
| `board` | whose answer, what is lost, who hangs, what ends a hang, whose pin | below |
| `gpio_get_state` | finding | as `board` |
| `display` | do the tables keep the frames, do the consoles stay on the screen and give interrupts back, does the screen show what was drawn? | below |
| `display_clear` | finding | one platform |
| `display_atomic` | finding | a Blt and one more draw on 2 by 2 pixels |

The runs check the type invariants of the two largest compositions, the driver with its
clients and the board. Those of the other modules are theorems (see Proofs), and so is
`ImplementsDevice`, which is the first conjunct of `PolledFairly`.

`Symmetric` permutes list entries and functions in `keypad_driver`, and the modules that print
in `display`; the code orders none of them, and the two runs check no liveness.

`board`: the wrapper has an arbiter, so that a write is two accesses (the theorems cover
the other kind). `Starts`, `LastTick`: a clock whose seconds, minutes and hours have two
values each, started one tick before a double carry. `BootData`: one non-zero value in
every other register, so that bits outside a field would be seen to change. `Buttons`: the
button register with and without a press. `Voltages`: one the LDO has and the buck
reaches, and one the LDO has not. An LDO without a table, as VDRAM2, is left to the theorems,
which are for every table: with one more LDO the run takes twice the time and finds the same. `MaxCalls` 2: a voltage is set and read back, or a
clock is read across a hang. `OtherPins`: pin 8, whose mode bits the code miscounts, and
pin 72, one of the card's. The pins of the card, 71 to 76, lie on both sides of the end
of a mode register, and share their input register with the key's pin 66. `Timeout` 2: a
ping is due, missed once, and missed for good. A watchdog that the driver is not to ping,
or that the boot loader left off, is run without applications. `CHECK_DEADLOCK FALSE`: a
board that has been reset, or has handed over, stops.

`display`: all four platforms. Two modules print at two task priorities (`TopTpl` 1), so a
write comes into one of the same module or of the other, at every step of a line feed. Three
priorities make one more nested line feed and no new case; the theorems are for any number
of modules and priorities. The screen is the smallest the consoles can do with, 24 by 61
pixels: two columns and two lines, the last of which is not at the end of the page; the
theorems cover every larger one. The Blts are made on 2 by 2 pixels with one colour besides
black, on all rectangles, on the screen or partly off it. `MaxDraws` is three, Blts and
prints together: a callback's Blt or a print falls into each step of an application's, and a
third draws over both. A row of two pixels is one group of a walk, whole or odd; that a
walk goes on to a second group of its row is left to the theorems, which are for every width.
`CHECK_DEADLOCK FALSE`: the draws stop at their bound.

## Fairness

* `KeypadDevice!FairSpec`: once `GetKeys` is entered its loop goes on (weak fairness of
  `PollKey`: it is straight-line code), and polls with time between them recur (strong
  fairness: the periodic timer of `Keypad.c:274` runs as long as the driver does, and
  calls that poll at once may come in between).
* `KeypadInput!InputFairSpec`: time passes, the timer is periodic, events that are signalled
  are dispatched, polls go through their keys and end, and the handler goes on, since all
  of these are straight-line code above TPL_APPLICATION; a called function returns (strong
  fairness, since it may make calls before it does). Nothing is assumed about
  applications. From these follows the fairness of `KeypadDevice`, which is `PolledFairly`: a
  client that polls all the time leaves room for polls that time has passed before.
* `BoardFairSpec`: a poll goes on while it can (`PollStep`: straight-line code above the
  application's level), the wrapper's hardware carries out a command it has taken
  (`Hardware`), and time passes (`TimePasses`). Nothing is assumed about the application,
  the ping, or the moment a poll begins.

## Findings

1. `Keypad.c:161-176` queues a key once for each registration it matches, and the handler
   calls all matching functions for each copy: with two registrations one press makes
   four calls (`OnePressOneNotification`).
2. A notification function that unregisters itself leaves the handler on a freed entry
   (`CursorIsLive` with `SelfRemoval`).
3. `GpioGetDir` computes the direction from the input levels, so `GpioGet` of a pin that
   is high returns its output register, where `MtkGpio.h` promises the pin's state
   (`GetReturnsState`).
4. `SimpleFbDxe.c:458` clears one frame more than there are layers
   (`ClearStaysInFrameBuffer`).
5. `DisplayBlt` raises the priority to make "an atomic write to the frame buffer"
   (`SimpleFbDxe.c:141-145`) and lowers it before it sets the alpha bytes: what is drawn into
   that walk can be undone by it (`BltIsAtomic`).

Remarks, for which there is no run:

* `KeypadTextIn.c:526` takes a registration with a shift state for an existing one of the
  same key and function without, and returns its handle, which 481-482 document as
  unique. `RegistrationHolds` is checked and proved for keys that no registration takes for another.
* A Stop that a consumer refuses leaves the protocols without their timer
  (`Keypad.c:390`), and `ErrorExit` after a failed allocation uses a null pointer
  (`Keypad.c:332`). The source says nothing of either; `AllOrNothing` has the first as its
  exception and `NothingDangles` lets the second pass, so neither is caught by them.
* `GpioGetIn` cuts a register to eight bits, and so a pin whose bit is above 7 reads as clear.
  The model has the pins of MT6789, whose key is bit 2: this is not exercised.
* `MT6358PmicDxe.c:60` gives VDRAM2 no voltages, and a walk over them begins at address
  zero (`Pmic` above).

## Proofs

All theorems hold for every value of the constants under the assumptions the modules
state. About the keypad: a ring has at least two slots (`SizeAssumption`,
`CapacityAssumption`), no threshold is above `TimeCap` (`TimesAssumption`), a list entry
is not the list head and `Free` is not an entry (`AddressAssumption`, `FreeAssumption`,
`StatusAssumption`), `MaxListed` is a number. Where driver and device are joined the user's buttons are among the
device's keys and the driver takes what the device makes (`TimeCapAssumption`,
`ButtonsAssumption`, `InputsAssumption`). About the board:

* the registers that change by themselves are among the registers (`WrapperAssumption`),
  and the clock's and the buttons' register are such (`ClockAssumption`);
* the tables of the PMIC driver (`TableAssumption`): no two regulators are set through the
  same register and none through one that changes by itself; a field lies within its
  register; the entries of an LDO's table have different bits, and a buck's step is not
  zero. The tables of `MT6358PmicDxe.c:37-68` are so;
* the GPIO tables (`GpioAssumption`, `PinAssumption`): fields are within 32 bits, and the
  card's pins are in the tables, with bits of their own, as in `MtkGpioImplLib.c:20-51`;
* the watchdog's timeout is at least two periods of its ping (`TimeoutAssumption`; in the
  code it is six).

About the display: the platforms are the four with tables (`PlatformsAssumption`), the
screen of the Blts is not empty (`SizeAssumption`), the consoles' screens have at least 24 by
61 pixels (`ConsoleScreensAssumption`, `Screens`), the name of no module is "none"
(`ModulesAssumption`), and there is some number of task priorities (`TopTplAssumption`).

* `KeyQueueProofs`. The invariant is `TypeOK /\ PendingArePushed`. `SlotAfterWraps` turns
  the modulo into a wrap; `PopContent` and `PushContent` say what each operation does to
  the slots in reading order; from them `PushImplements` and `PopImplements` show that
  `Content` moves as `KeyFifo` does (`Implements`). An overflow is the case to look at:
  the oldest key is the one dropped, at whatever position the ring wraps.
* `KeypadDeviceProofs`. The invariant adds to the types that a key repeats only inside a
  long press and is long pressed only while pressed (`Proper`; the theorem `FlagsCorrect`
  has no run of its own), and that `IsPressed` is clear when the GPIO key is sampled. That
  key sets `IsPressed` and never clears it, so `OwnButton` needs it to come first in
  `KeyList`. `KInv` adds what the other two theorems need: a key has its own data or,
  before the first reset, none, and no bit is set for a key without a valid button
  (`DataIsOwn`); and once a poll is past a volume key that key's bit is what the poll saw
  (`BitsAreCurrent`), which makes the power key's combination current (`ComboCurrent`).
  `GesturesImplemented` takes the branches of `LibKeyUpdateKeyStatus` one by one: each is
  a move of the key's own gesture (`GestureMove`) and reports nothing of another key.
* `KeypadProofs`. `IInv` ties the handler's step to the callback that is running
  (`Control`), without which a timer that returns could strand a queued key. From it
  follow `ListCorrect`, `NotifyIsNotLost` and `SignalIsKept`. `WInv` adds where the
  handler stands: between passes at the head, in a function at a listed entry
  (`CursorPlaced`), and with everything the pass still has to call listed, matching and
  further on in the list (`TodoAhead`). Registering appends behind the cursor's place,
  unregistering keeps the order of the rest; that is why a walk outside the critical
  section is complete. `CursorStaysLive` and `PassesComplete` assume
  `SelfRemoval = FALSE`; the run `keypad_self_removal` shows that they need it.
* `KeypadProofs`, on `KeypadClients`. A step with clients is a step of the driver
  (`ClientsImplement`), which carries the theorems over. `RegistrationsHold` assumes
  `Distinct`, that no registration passes for another, since without it two would get one
  handle (see the remarks). The argument is that an entry's key and function name its holder, so
  two holders never share one.
* `KeypadInputProofs`. What each part relies on the other for is `JointInv`: the device's
  own invariant, a clock within its bound, and that a poll is under way only inside a
  critical section (`PollsWithin`). With it a step of the whole is a step of the driver
  (`StepIsDriverStep`) and one of the device (`StepIsDeviceStep`), so that
  `InputImplementsDriver` and `InputImplementsDevice` follow and with them all that is proved of
  each part. The device's lemmas are cited through an instance of their module
  (`DP`); `SameNext` and its lemmas say that it is about the same device. Two properties
  need both parts:
  - `KeysAreWhole`: until `Start` has reset the device nobody has exposed partial keys, and
    from then on each key has its data, which polls keep and resets give again (`NoPartial`).
  - `HoldsTakeTheirTime`: the clock is the time since the last poll began, and for a key that
    counts its time, what it has counted, what the poll under way was told and has yet to
    hand it, and what has passed since are together no more than the time since the press or
    the last report (`TimesKept`). Only the sum is kept: a poll that begins moves time from the
    clock to what is told, and a key's turn moves it from there to the key.
* `KeypadBindingProofs`. None of the three properties is inductive: each step of `Start`,
  `ErrorExit` and `Stop` relies on what the ones before did. `StartHolds`, `ExitHolds`
  and `StopHolds` say what is held before each step. Interruptions keep them
  (`BetweenStep`) because a poll signals only for a registration, and a registration
  needs installed protocols (`SignalledEventExists`).
* `PmicWrapperProofs`. The invariant is `WritesLand` with: a read whose command is out is
  what the hardware has been asked or has its answer (`Answered`); the poll's transaction
  is inside the application's and gets no further than its wait while a read of the
  application is out (`Nested`); the hardware is never busy with a read nobody waits for
  (`HwIsAwaited`); what a caller saw in its wait for idle still holds when it goes on
  (`IdleLasts`); only the application writes (`Written`). The nested hang is thus what
  makes an answer the caller's own.
* `BoardProofs`. Every step of the board is a step of the wrapper or leaves it alone
  (`BoardImplementsWrapper`): the wrapper's invariant is kept by `Board` together with
  `AppOK`, which says at what step a function of the application is while its
  transaction is out, so that the register it names is one the function is for.
  `WrapperPromisesHold` carries the wrapper's theorems over. Then, each on top of these:
  - `WatchInv` ties the ping timer, the mode and the counter to whether the platform has a
    timer that works; without `PingKeepsUp` a counter could run out while a ping is due.
  - `GpioInv`: the accesses still to do are of the busy pin's own bits, and what a
    read-modify-write cycle has read is still in the register. Owned bits of different pins
    are apart even where the shift for pin 8 is undefined (`ModeBitsAre`).
  - `CardInv` looks at the registers as they will be when the function in progress is
    through (`After`): an access leaves that alone, and a new call changes it by its whole
    effect, so the set-up grows pin by pin across mode registers.
  - `ClockOK` and `NotEarly`: what has been read, with the clock's own fields for the rest
    (`Padded`), is never before the call. A tick that carries clears lower fields, which
    have been read already, and raises a higher one, which has not; an answer that is on
    its way counts as read.
  - `VoltageInv`: what the writes so far say of a regulator's register reads as the voltage
    last set (`Remembered`), but while the next is on its way (`OnItsWay`); a register the
    hardware does not change holds that while it is read (`Undisturbed`), so that is what a
    getter has (`HasRead`).
  - `PollInv`: the poll waits for the wrapper only at the keys the PMIC has.
* `DisplayProofs`. Of the consoles (`ConsoleInv`), for any number of modules and of
  priorities inside one another: `PositionOK` is that a module's line is at most three
  below `MaxPositionY`, but for two lines for each line feed that is past the end of the page;
  `LineOK` is what a line feed has in its register at each of its steps, relative to those it has
  interrupted, which is where it is inductive: of a priority that runs, the line feeds past the
  end are its own and those below it (`OversOfRunning`), and a step changes the count by its own
  (`OversOfStep`). `LevelStep` reduces a step to the priority that makes it, `PositionStep` the
  steps of a line feed to the line they store. `Masked` is that a write without `'\n'` has
  interrupts off while it runs, so that nothing is inside it, from which `InterruptsRestored`.
  `PageSize` is the arithmetic of the two divisions: with it the bound on the position is one on
  pixels (`PageFits`). Of the Blts:
  a pixel that should be opaque is, or a walk still has it before it (`OwedIsAhead`; a
  step of a walk covers what it leaves behind, `WalkGoesOn`, for every width, odd
  ones too); and what a walk holds in registers is what was drawn last unless a callback
  or a console has drawn there since (`RegistersOK`). `OnScreenInFrame` is the arithmetic that
  keeps a rectangle that `FrameBufferBlt` accepts inside the frame buffer. The whole keeps
  both parts (`ConsolesPaintInside`, `ConsolesRestoreInterrupts`, `DrawnStaysOpaque`,
  `LastDrawnIsShown`): PrePi and the clear of SimpleFbDxe leave the other's state alone. Of the tables
  (`FramesStayReserved`): what is described, allocated and mapped are the rows that
  `MemoryPeim` chooses, each by its own columns (`Described`), so that `FramesAreKept` is a
  fact about the rows of each platform (`TableIsSound`), which is compared leaf by leaf.

Left to TLC is liveness (`PressIsAnswered`, `ReleasedSettles`, `NotifyIsHandled`,
`PolledFairly`, `PollReturnsUnlessHung`, `HangEndsInReset`): fairness and ENABLED are out of the
prover's reach. The violations of the findings are runs, not theorems.

## Plan

Everything planned is modelled, checked and proved but one thing: a bound, in ticks of the
clock, on how late a time that `RtcGetTime` reads may be. `TimeNeverEarly` bounds it on
the other side only.

## Not modelled

* Most of the repository's lines are not its own program: the 7zip decoder under
  `P/Drivers/RamDiskDxe/7zip`, register and protocol headers of the vendor that no module
  uses, images, build scripts, and the EDK2 boilerplate of each driver. The lines the models
  stand for are of the small part that is.
* `DxeAslUpdateLib` has no caller in the repository: a model would have to invent the order and
  the inputs of its calls.
* `RamDiskDxe` is one straight entry point over the decoder; the virtual real-time
  clock, the UART, the logo and the boot shim keep no state; `PlatformPeiLib` and PrePi's
  assembly are straight lines. The boot manager's state is EDK2's.
* Of what is modelled: `MemoryMapHelperLib`'s look-ups, the page tables `ArmConfigureMmu` builds,
  pixel formats, the register maps of the SoCs, the bounds of the GPIO tables (their only
  caller passes the pins in them), and of those of VDRAM2 what memory is found from address 0 on.
* `LdoStatus` cuts a register to the eight bits of a `BOOLEAN`, and the header's status
  bit is bit 15: it returns FALSE whatever the LDO does. A property would restate the
  expression.
