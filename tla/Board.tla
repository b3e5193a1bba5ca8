------------------------------- MODULE Board -------------------------------
(***************************************************************************)
(* The drivers of the board together, on one processor: either the SD card *)
(* driver sets up its pins and another driver uses a pin, or an            *)
(* application calls the PMIC driver, which neither uses nor changes a     *)
(* pin.  The keypad's timer (TPL_CALLBACK) interrupts either between any   *)
(* two accesses to hardware and polls the buttons at TPL_NOTIFY: one GPIO  *)
(* pin and two bits of a PMIC register.  The watchdog is pinged from a     *)
(* timer at TPL_CALLBACK.                                                  *)
(***************************************************************************)
EXTENDS Pmic, MtkGpio, WatchDog

CONSTANTS
    FirstCardPin, LastCardPin,   \* the pins of the SD card
    KeyPin,      \* the pin of the keypad's GPIO key
    Buttons,     \* BOUND: what the PMIC's button register may show
    OtherPins,   \* BOUND: the pins another driver may use
    MaxCalls     \* BOUND: the functions the application calls

VARIABLES
    phase,  \* "card", "drivers" and "idle", or "apps"
    calls,  \* how many functions the application may still call
    poll    \* where the poll is in KeyList, and what GpioGetDir decided

boardVars == <<pmicVars, gpioVars, watchdogVars, phase, calls, poll>>

KeyList == <<"gpio", "home", "power">>
NoPoll == [index |-> 0, source |-> "none", level |-> FALSE]
PollAt(i) == [NoPoll EXCEPT !.index = i]

KeyLevel == BitOf(KeyPin) \in gpio[OfPin("din", KeyPin)]

\* The poll waits for the wrapper, and the read it waits for is the one that it
\* interrupted.
Hung == running = "poll" /\ call["poll"].pc = "idle" /\ InFlight("app")

\* The application's turn: the processor is its own and no callback is due.
AppsTurn == stage = "boot" /\ running = "app" /\ ~pingDue

CardPins == FirstCardPin .. LastCardPin
InTables == DOMAIN Drv \cap DOMAIN RPins
Pins == CardPins \cup OtherPins \cup {KeyPin}

\* Each pin of the card has bits of its own in the drive and pull registers.
ASSUME PinAssumption ==
    /\ FirstCardPin \in Nat /\ LastCardPin \in Nat /\ FirstCardPin <= LastCardPin
    /\ OtherPins \subseteq Nat /\ KeyPin \in Nat
    /\ CardPins \subseteq InTables
    /\ \A p, q \in CardPins : p # q => DrvBits(p) \cap DrvBits(q) = {} /\ RPins[p] # RPins[q]

Registers ==
    {ModeReg(p) : p \in Pins}
    \cup {OfPin(k, p) : k \in {"dir", "dout", "din"}, p \in Pins}
    \cup {Shared(k) : k \in {"drv", "r0", "r1", "pupd"}}

BoardInit ==
    /\ PmicInit /\ GpioInit(Registers) /\ WatchdogInit
    /\ \/ phase = "card" /\ working /\ backup
       \/ phase = "apps" /\ \A r \in Registers : gpio[r] = {}
    /\ calls = IF working /\ backup THEN MaxCalls ELSE 0
    /\ poll = NoPoll
-----------------------------------------------------------------------------
(* ConfigureMSDCGpios: for each pin of the card its mode, drive and pulls.   *)

CardPin(k) == FirstCardPin + (k \div 4)
CallsFor(p) == <<SetMode(p, {0}, TRUE), SetDrv(p, {0, 1}), SetR0(p), SetPupd(p, p = FirstCardPin)>>
CardCall(k) == CallsFor(CardPin(k))[1 + (k % 4)]
CardCalls == 4 * (LastCardPin + 1 - FirstCardPin)

ConfigureMSDCGpios ==
    /\ AppsTurn /\ phase = "card" /\ app.step < CardCalls
    /\ GpioCalls(CardPin(app.step), CardCall(app.step))
    /\ app' = [app EXCEPT !.step = @ + 1]
    /\ UNCHANGED <<wrapperVars, wanted, watchdogVars, phase, calls, poll>>

SdCardHackDxeReturns ==
    /\ AppsTurn /\ phase = "card" /\ app.step = CardCalls /\ accesses = <<>>
    /\ app' = NoJob
    /\ phase' = "drivers"
    /\ UNCHANGED <<wrapperVars, wanted, gpioVars, watchdogVars, calls, poll>>

\* Another driver uses the GPIO protocol once, on a pin of its own.
OtherDriverCalls ==
    /\ AppsTurn /\ phase = "drivers"
    /\ \E p \in OtherPins, on, wraps \in BOOLEAN, m \in {{0}, {1, 2}} :
          \E todo \in {SetMode(p, m, wraps), SetDir(p, on), Set(p, on)}
                      \cup (IF p \in InTables THEN {SetR1(p), SetDrv(p, m), SetPupd(p, on)} ELSE {}) :
             GpioCalls(p, todo)
    /\ phase' = "idle"
    /\ UNCHANGED <<pmicVars, watchdogVars, calls, poll>>

GpioGoesOn ==
    /\ AppsTurn
    /\ GpioAccess
    /\ UNCHANGED <<pmicVars, watchdogVars, phase, calls, poll>>

WatchdogIsLoaded ==
    /\ AppsTurn /\ phase = "apps"
    /\ \E failure \in EntryFailures : WatchdogDxeEntry(failure)
    /\ UNCHANGED <<pmicVars, gpioVars, phase, calls, poll>>

ApplicationRuns ==
    /\ AppsTurn /\ phase = "apps" /\ driver.exitEvent
    /\ \/ PmicCalls /\ calls > 0 /\ calls' = calls - 1
       \/ PmicStep /\ calls' = calls
    /\ UNCHANGED <<gpioVars, watchdogVars, phase, poll>>

OsStarts ==
    /\ AppsTurn /\ phase = "apps" /\ app = NoJob
    /\ ExitBootServices
    /\ UNCHANGED <<pmicVars, gpioVars, phase, calls, poll>>
-----------------------------------------------------------------------------
(* KeypadDeviceImplGetKeys, from the keypad's timer.  A call of it by the    *)
(* application, at TPL_NOTIFY, is a poll that comes between two functions.   *)

Key == KeyList[poll.index]

PollBegins ==
    /\ stage = "boot"
    /\ PollStarts
    /\ poll' = PollAt(1)
    /\ UNCHANGED <<app, wanted, gpioVars, watchdogVars, phase, calls>>

PollGetsDir ==
    /\ running = "poll" /\ poll.index \in DOMAIN KeyList
    /\ Key = "gpio" /\ poll.source = "none"
    /\ poll' = [poll EXCEPT !.source = IF GetDir(KeyPin) THEN "din" ELSE "dout",
                            !.level = KeyLevel]
    /\ UNCHANGED <<pmicVars, gpioVars, watchdogVars, phase, calls>>

PollGetsLevel ==
    /\ running = "poll" /\ poll.index \in DOMAIN KeyList
    /\ Key = "gpio" /\ poll.source # "none"
    /\ poll' = PollAt(poll.index + 1)
    /\ UNCHANGED <<pmicVars, gpioVars, watchdogVars, phase, calls>>

PollReads ==
    /\ running = "poll" /\ poll.index \in DOMAIN KeyList
    /\ Key \in {"home", "power"} /\ call["poll"] = NoCall
    /\ WacsRead16("poll", "TOPSTATUS")
    /\ UNCHANGED <<app, wanted, gpioVars, watchdogVars, phase, calls, poll>>

PollWaits ==
    /\ WacsStep("poll")
    /\ UNCHANGED <<app, wanted, gpioVars, watchdogVars, phase, calls, poll>>

PollGetsButton ==
    /\ WacsReadReturns("poll")
    /\ poll' = PollAt(poll.index + 1)
    /\ UNCHANGED <<app, wanted, gpioVars, watchdogVars, phase, calls>>

\* Mutant: the loop over KeyList ends one key early, during the read for it.
PollReturnsEarly ==
    /\ running = "poll" /\ poll.index >= Len(KeyList)
    /\ running' = "app"
    /\ poll' = NoPoll
    /\ UNCHANGED <<fsm, cmd, wdata, rdata, reg, call, held, meant>>
    /\ UNCHANGED <<app, wanted, gpioVars, watchdogVars, phase, calls>>

PollReturns ==
    /\ poll.index = Len(KeyList) + 1
    /\ PollEnds
    /\ poll' = NoPoll
    /\ UNCHANGED <<app, wanted, gpioVars, watchdogVars, phase, calls>>

PollStep == PollGetsDir \/ PollGetsLevel \/ PollReads \/ PollWaits \/ PollGetsButton \/ PollReturns
-----------------------------------------------------------------------------
(* Hardware and time.                                                        *)

Hardware ==
    /\ stage = "boot"
    /\ HwExecutes
    /\ UNCHANGED <<app, wanted, gpioVars, watchdogVars, phase, calls, poll>>

ClockRuns ==
    /\ stage = "boot" /\ phase = "apps"
    /\ ClockTicks
    /\ UNCHANGED <<gpioVars, watchdogVars, phase, calls, poll>>

ButtonMoves ==
    /\ stage = "boot"
    /\ \E d \in Buttons : reg' = [reg EXCEPT !["TOPSTATUS"] = d]
    /\ HwChanges
    /\ UNCHANGED <<app, wanted, gpioVars, watchdogVars, phase, calls, poll>>

KeyMoves ==
    /\ phase # "apps"
    /\ PinChanges(KeyPin)
    /\ UNCHANGED <<pmicVars, watchdogVars, phase, calls, poll>>

WatchdogPings ==
    /\ running = "app"
    /\ TimerPings
    /\ UNCHANGED <<pmicVars, gpioVars, phase, calls, poll>>

\* Everything the firmware does is short against the ping timer's period, so
\* that the period ends between two functions, unless the firmware hangs.
TimePasses ==
    /\ \/ Hung
       \/ AppsTurn /\ phase = "apps" /\ driver.loaded /\ app = NoJob
    /\ PeriodPasses
    /\ UNCHANGED <<pmicVars, gpioVars, phase, calls, poll>>

BoardNext ==
    \/ ConfigureMSDCGpios \/ SdCardHackDxeReturns \/ OtherDriverCalls \/ GpioGoesOn
    \/ WatchdogIsLoaded \/ ApplicationRuns \/ OsStarts
    \/ PollBegins \/ PollStep
    \/ Hardware \/ ClockRuns \/ ButtonMoves \/ KeyMoves \/ WatchdogPings \/ TimePasses

BoardSpec == BoardInit /\ [][BoardNext]_boardVars

\* The processor goes on with what it runs, the wrapper's hardware answers, and
\* time passes.
BoardFairSpec ==
    /\ BoardSpec
    /\ WF_boardVars(PollStep)
    /\ WF_boardVars(Hardware)
    /\ WF_boardVars(TimePasses)
-----------------------------------------------------------------------------
BoardTypeOK ==
    /\ WrapperTypeOK /\ WatchdogTypeOK
    /\ \A r \in Registers : gpio[r] \subseteq Bits
    /\ phase \in {"card", "drivers", "idle", "apps"}
    /\ poll.index \in 0 .. Len(KeyList) + 1

\* Once the SD card's pin set-up has returned, every one of its pins, which lie
\* on both sides of a mode register's end, has its mode, drive and pulls, and
\* only a driver that uses the same pin changes them (SdCardHack.c:15-30).
CardPinsReady ==
    phase = "drivers" =>
      \A p \in CardPins :
         /\ \A i \in 0 .. 2 : (((p % 8) * 4 + i) \in gpio[ModeReg(p)]) <=> (i = 0)
         /\ \A i \in 0 .. 2 : ((Drv[p] + i) \in gpio[Shared("drv")]) <=> (i < 2)
         /\ RPins[p] \in gpio[Shared("r0")] /\ RPins[p] \notin gpio[Shared("r1")]
         /\ (RPins[p] \in gpio[Shared("pupd")]) <=> (p = FirstCardPin)

\* "Gets the state of a GPIO pin" (MtkGpio.h:78), of one whose level is steady.
GetReturnsState ==
    (poll.source # "none" /\ KeyLevel = poll.level) =>
        (AsBoolean(poll.source, KeyPin) <=> KeyLevel)

\* A poll that did not interrupt a read between its command and its clear gives
\* the processor back (PmicWrapperDxe.c:47,102-111).
PollReturnsUnlessHung == (running = "poll" /\ ~InFlight("app")) ~> (running = "app")

\* With a working ping timer and a watchdog that the boot loader left running, a
\* poll that hangs ends in a reset: the ping cannot run below the poll's level,
\* although its timer goes on (WatchDogDxe.c:81-105).
HangEndsInReset == (Hung /\ working /\ backup) ~> (stage = "reset")

\* The watchdog fires for a hang only, unless its driver failed to load.
ResetOnlyOnHang == (stage = "reset" /\ driver.exitEvent) => Hung
=============================================================================
