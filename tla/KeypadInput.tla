----------------------------- MODULE KeypadInput -----------------------------
(***************************************************************************)
(* The keypad driver on top of the keypad device library: the keys that    *)
(* Keypad takes from a device are those KeypadDevice makes of buttons, and *)
(* the time between two polls that KeypadDevice is told is what the driver *)
(* reads off the performance counter, whoever asks for the poll.  Time is  *)
(* counted in units up to TimeCap, as in KeypadDevice, and passes at any   *)
(* moment, in the middle of a poll too.                                    *)
(*                                                                         *)
(* The timer is armed before Start resets the device and installs the      *)
(* protocols, so the first polls may come before both.                     *)
(***************************************************************************)
EXTENDS Keypad

CONSTANTS DebounceTime, RepeatTime, LongpressTime, TimeCap,
          Buttons   \* the buttons a user pushes

VARIABLES button, valid, ctx, held, pos, isPressed, delta, report,
          elapsed,    \* the counter less ConsoleIn->Last
          installed,  \* Start has reset the device and installed the protocols
          age         \* history: how long ago the last poll began, and for each key
                      \* the poll that saw it pressed or reported it last

Device == INSTANCE KeypadDevice WITH Deltas <- 0 .. TimeCap

device == <<button, valid, ctx, held, pos, isPressed, delta, report>>
inputVars == <<vars, device, elapsed, installed, age>>

KeyIds == Device!KeyIds
Clocks == KeyIds \cup {"poll"}

\* The EFI_KEY_DATA of a key: none of the device's has a shift or toggle state.
EfiKeyData(key) == [code |-> key, shift |-> 0, toggle |-> 0]

ASSUME TimeCapAssumption ==
    /\ TimeCap \in Nat
    /\ {DebounceTime, RepeatTime, LongpressTime} \subseteq 0 .. TimeCap
ASSUME ButtonsAssumption == Buttons \subseteq KeyIds
ASSUME InputsAssumption ==
    \A key \in Device!KeyDatas \cup Device!Combos : EfiKeyData(key) \in Inputs

\* Last is all ones at first: the first poll is told of a long time.
InputInit ==
    /\ Init /\ Device!Init
    /\ elapsed = TimeCap
    /\ installed = FALSE
    /\ age = [c \in Clocks |-> TimeCap]

Capped(t) == IF t > TimeCap THEN TimeCap ELSE t

TimePasses ==
    /\ elapsed' = Capped(elapsed + 1)
    /\ age' = [c \in Clocks |-> Capped(age[c] + 1)]
    /\ UNCHANGED <<vars, device, installed>>

UserToggles(k) ==
    /\ Device!Toggle(k)
    /\ UNCHANGED <<vars, elapsed, installed, age>>
-----------------------------------------------------------------------------
\* Mutant: Last keeps its first value.
KeypadTimerHandlerKeepsLast == Device!EnterGetKeys(elapsed) /\ UNCHANGED elapsed

\* Mutant: Last is updated before the difference is taken.
KeypadTimerHandlerSwapped == elapsed' = 0 /\ Device!EnterGetKeys(elapsed')

\* KeypadTimerHandler, called by the timer or from a critical section: reads the
\* counter, and GetKeys begins.
KeypadTimerHandler == Device!EnterGetKeys(elapsed) /\ elapsed' = 0

PollBegins == KeypadTimerHandler /\ age' = [age EXCEPT !["poll"] = 0]

TimerSignals == Tick /\ UNCHANGED <<device, elapsed, installed, age>>

CallbackStarts ==
    /\ Dispatch
    /\ \/ callback' = "timer" /\ PollBegins
       \/ callback' = "notify" /\ UNCHANGED <<device, elapsed, age>>
    /\ UNCHANGED installed

CallPolls(by, op) ==
    /\ installed
    /\ Enter(by, op) /\ PollBegins
    /\ UNCHANGED installed

\* A key that is seen pressed or reported counts its time from this poll.
Counts(k) == \/ report'.from = k
             \/ ctx[k].State = "RELEASED" /\ ctx'[k].State = "PRESSED"

\* Mutant: a partial key is queued although nobody has asked for such.
PushesPartial ==
    IF report'.from \notin KeyIds THEN UNCHANGED vars
    ELSE LET key == EfiKeyData(report'.key)
         IN  efiKeyQueue' = Pushed(efiKeyQueue, key)
             /\ UNCHANGED <<efiKeyQueueForNotify, isSupportPartialKey, list, events,
                            section, reading, handler, todo, promised>>

\* What the device pushes, unless it is a partial key and those are not exposed.
Pushes ==
    IF report'.from \notin KeyIds THEN UNCHANGED vars
    ELSE LET key == EfiKeyData(report'.key)
         IN  IF IsPartial(key) /\ ~isSupportPartialKey
               THEN UNCHANGED vars
               ELSE PushToQueues(key)

PollsKey ==
    /\ Device!PollKey
    /\ Pushes
    /\ age' = [c \in Clocks |->
                   IF c \in KeyIds /\ Counts(c) THEN age["poll"] ELSE age[c]]
    /\ UNCHANGED <<elapsed, installed>>

PollEnds ==
    /\ pos = 0
    /\ KeypadTimerHandlerReturns \/ KeypadReadKeyStrokeWorkerReturns \/ KeypadWaitForKeyReturns
    /\ UNCHANGED <<device, elapsed, installed, age>>
-----------------------------------------------------------------------------
\* The first reset is that of Start, which then installs the protocols.  A
\* reset leaves Last alone.
DriverResets(by) ==
    /\ installed \/ by = "app"
    /\ KeypadEfiReset(by) /\ Device!ResetKeys
    /\ installed' = TRUE
    /\ UNCHANGED <<elapsed, age>>

\* Mutant: the protocols are there before the device is reset.
ClientSetsStateEarly(by, expose) ==
    /\ KeypadSetState(by, expose)
    /\ UNCHANGED <<device, elapsed, installed, age>>

ClientSetsState(by, expose) ==
    /\ installed
    /\ KeypadSetState(by, expose)
    /\ UNCHANGED <<device, elapsed, installed, age>>

ClientChangesList(by) ==
    /\ installed
    /\ \/ \E kd \in Registrable, fn \in Functions : KeypadRegisterKeyNotify(by, kd, fn)
       \/ \E n \in Nodes : KeypadUnregisterKeyNotify(by, n)
    /\ UNCHANGED <<device, elapsed, installed, age>>

HandlerStep ==
    /\ HandlerPops \/ HandlerWalks \/ KeyNotificationFnReturns
    /\ UNCHANGED <<device, elapsed, installed, age>>

InputNext ==
    \/ TimePasses \/ TimerSignals \/ CallbackStarts
    \/ \E k \in Buttons : UserToggles(k)
    \/ \E by \in Callers, op \in {"read", "readEx", "wait"} : CallPolls(by, op)
    \/ PollsKey \/ PollEnds
    \/ \E by \in Callers : DriverResets(by)
    \/ \E by \in Callers, expose \in BOOLEAN : ClientSetsState(by, expose)
    \/ \E by \in Callers : ClientChangesList(by)
    \/ HandlerStep

InputSpec == InputInit /\ [][InputNext]_inputVars

\* Time passes, the timer is periodic, events are dispatched, polls go through
\* their keys and end, and the handler and what it calls go on.
InputFairSpec ==
    /\ InputSpec
    /\ WF_inputVars(TimePasses) /\ WF_inputVars(TimerSignals)
    /\ WF_inputVars(CallbackStarts)
    /\ WF_inputVars(PollsKey) /\ WF_inputVars(PollEnds)
    /\ SF_inputVars(HandlerStep)
-----------------------------------------------------------------------------
InputTypeOK ==
    /\ TypeOK /\ Device!TypeOK
    /\ elapsed \in 0 .. TimeCap
    /\ installed \in BOOLEAN
    /\ age \in [Clocks -> 0 .. TimeCap]

\* The driver over this device is the driver over any device: polls, pushes and
\* resets stay within its critical sections (KeypadController.c:40-74,
\* Keypad.c:137-177).
ImplementsDriver == Spec

\* And the device under this driver is the device under any poller: it is not
\* reset during a poll, and one poll ends before the next begins
\* (KeypadTextIn.c:141-160,286-330, KeypadController.c:44-74).
ImplementsDevice == Device!Spec

\* The fairness that KeypadDevice takes from its pollers is what this driver gives:
\* a client that polls all the time leaves room for polls that time has passed
\* before, and every poll ends (Keypad.c:265-278, KeypadController.c:61-67).
PolledFairly == Device!FairSpec

\* No client meets a partial key, even one that has exposed them: the polls that
\* come before the device knows its keys find nobody to expose any
\* (Keypad.c:271-315, KeypadTextIn.c:297-317).
OnlyWholeKeys ==
    /\ reading = {}
    /\ \A q \in {efiKeyQueue, efiKeyQueueForNotify} : \A i \in DOMAIN q : ~IsPartial(q[i])

\* A hold is not reported before the button was down for LongpressTime, nor
\* repeated before another RepeatTime, however the polls of timer, readers and
\* waiters share the counter (KeypadController.c:61-67,
\* KeypadDeviceImplLib.c:100-153).
HoldsAreTimed ==
    [][\A k \in KeyIds :
          /\ report' # report /\ report'.from = k
          /\ ctx[k].State = "PRESSED" /\ ctx'[k].State = "PRESSED"
          => age[k] >= IF ctx[k].Longpress THEN RepeatTime ELSE LongpressTime]_inputVars
=============================================================================
