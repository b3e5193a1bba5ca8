---------------------------- MODULE KeypadDevice ----------------------------
(***************************************************************************)
(* The key state machine of KeypadDeviceImplLib: GetKeys walks over three  *)
(* keys, samples each button and turns taps, long presses, repeats and     *)
(* combinations with the power key into key events.  One poll runs inside  *)
(* a critical section of the driver; each button is sampled once in a      *)
(* poll, so a button that moves during one moves, as far as any key can    *)
(* tell, before it or after it.                                            *)
(***************************************************************************)
EXTENDS Integers, Sequences

CONSTANTS DebounceTime, RepeatTime, LongpressTime,  \* MS2NS(10), (200), (500)
          Deltas,   \* the times that may pass between two polls
          TimeCap   \* bound: times above it are as good as it

ASSUME TimesAssumption ==
    /\ DebounceTime \in Nat /\ RepeatTime \in Nat /\ LongpressTime \in Nat
    /\ Deltas \subseteq Nat
    /\ TimeCap \in Nat
    /\ \A t \in {DebounceTime, RepeatTime, LongpressTime} : t <= TimeCap

VARIABLES button,    \* the physical buttons, as MtkGpio->Get and the PMIC read them
          valid,     \* KEY_CONTEXT_PRIVATE.IsValid
          ctx,       \* the KEY_CONTEXT of each key
          held,      \* the bits set in gBitmapScanCodes and gBitmapUnicodeChars
          pos,       \* the key of KeyList being polled, 0 between two polls
          isPressed, \* GetKeys' local IsPressed
          delta,     \* GetKeys' argument Delta
          report     \* the key the last step pushed, and which button it came from

vars == <<button, valid, ctx, held, pos, isPressed, delta, report>>

\* Mutants: PMIC keys ahead of the GPIO key; the power key ahead of the others.
KeyListPmicFirst == <<"VolumeUp", "VolumeDown", "Power">>
KeyListPowerFirst == <<"Power", "VolumeDown", "VolumeUp">>

KeyList == <<"VolumeDown", "VolumeUp", "Power">>
KeyIds == {"VolumeDown", "VolumeUp", "Power"}
DeviceType(k) == IF k = "VolumeDown" THEN "LEGACY" ELSE "PMIC"

\* A key's KeyData after Reset, and the all-zero KeyData before.
KeyDataOf(k) == CASE k = "VolumeDown" -> "SCAN_DOWN"
                  [] k = "VolumeUp"   -> "SCAN_UP"
                  [] k = "Power"      -> "CHAR_CARRIAGE_RETURN"
NullKey == "NULL"
KeyDatas == {"SCAN_DOWN", "SCAN_UP", "CHAR_CARRIAGE_RETURN", NullKey}
Combos == {"s", "e", " "}

Silent == [from |-> "none", key |-> "none"]
Cancelled == [from |-> "reset", key |-> "none"]
Reports == [from : KeyIds, key : KeyDatas \cup Combos] \cup {Silent, Cancelled}

Context(kd) == [KeyData |-> kd, Time |-> 0, State |-> "RELEASED",
                Repeat |-> FALSE, Longpress |-> FALSE]

\* The constructor finds the GPIO and PMIC protocols, or runs too early to.
\* Contexts and bitmaps are zeroed statics until the first Reset.
Init ==
    /\ button = [k \in KeyIds |-> FALSE]
    /\ \E gpio, pmic \in BOOLEAN :
          valid = (IF gpio THEN {"VolumeDown"} ELSE {})
                    \cup (IF pmic THEN {"VolumeUp", "Power"} ELSE {})
    /\ ctx = [k \in KeyIds |-> Context(NullKey)]
    /\ held = {}
    /\ pos = 0 /\ isPressed = FALSE /\ delta = 0
    /\ report = Silent

\* The user pushes a button or lets it go.
Toggle(k) ==
    /\ pos = 0
    /\ button' = [button EXCEPT ![k] = ~@]
    /\ report' = Silent
    /\ UNCHANGED <<valid, ctx, held, pos, isPressed, delta>>

\* Reset clears the contexts; the bitmaps keep what the last poll saw.
ResetKeys ==
    /\ ctx' = [k \in KeyIds |-> Context(KeyDataOf(k))]
    /\ report' = Cancelled
    /\ UNCHANGED <<button, valid, held, pos, isPressed, delta>>

Reset == pos = 0 /\ ResetKeys
-----------------------------------------------------------------------------
\* The bit of a key.  Both bitmaps are indexed by ScanCode, which is 0 for the
\* power key, the one key that is a character.
KeySetState(kd, value) ==
    IF kd = NullKey THEN held ELSE IF value THEN held \cup {kd} ELSE held \ {kd}

\* Called after KeySetState, so that a poll reads the bits it has updated.
KeyGetState(kd) == kd \in held'

Elapsed(k) == IF ctx[k].Time + delta > TimeCap THEN TimeCap ELSE ctx[k].Time + delta

\* The branches of LibKeyUpdateKeyStatus: the context changes to c, and key
\* is pushed.
Becomes(k, c) == ctx' = [ctx EXCEPT ![k] = c]
Push(k, key) == report' = [from |-> k, key |-> key]
NoPush == report' = Silent

In(k, s) == ctx[k].State = s
IsPower(k) == ctx[k].KeyData = "CHAR_CARRIAGE_RETURN"
RepeatDue(k) == ctx[k].Repeat /\ Elapsed(k) >= RepeatTime
LongpressDue(k) ==
    ~RepeatDue(k) /\ ~ctx[k].Longpress /\ Elapsed(k) >= LongpressTime

KeyPressed(k, pressed) ==
    /\ In(k, "RELEASED") /\ pressed
    /\ Becomes(k, [ctx[k] EXCEPT !.Time = 0, !.State = "PRESSED"])
    /\ NoPush

KeyRepeats(k, pressed) ==
    /\ In(k, "PRESSED") /\ pressed /\ RepeatDue(k)
    /\ Push(k, ctx[k].KeyData)
    /\ Becomes(k, [ctx[k] EXCEPT !.Time = 0, !.Repeat = TRUE])

PowerLongpress(k, pressed) ==
    /\ In(k, "PRESSED") /\ pressed /\ LongpressDue(k) /\ IsPower(k)
    /\ \/ KeyGetState("SCAN_DOWN") /\ Push(k, "s")
       \/ ~KeyGetState("SCAN_DOWN") /\ KeyGetState("SCAN_UP") /\ Push(k, "e")
       \/ ~KeyGetState("SCAN_DOWN") /\ ~KeyGetState("SCAN_UP") /\ Push(k, " ")
    /\ Becomes(k, [ctx[k] EXCEPT !.Time = Elapsed(k), !.Longpress = TRUE])

VolumeLongpress(k, pressed) ==
    /\ In(k, "PRESSED") /\ pressed /\ LongpressDue(k) /\ ~IsPower(k)
    /\ \/ /\ ~KeyGetState("CHAR_CARRIAGE_RETURN")
          /\ Push(k, ctx[k].KeyData)
          /\ Becomes(k, [ctx[k] EXCEPT !.Time = 0, !.Repeat = TRUE, !.Longpress = TRUE])
       \/ /\ KeyGetState("CHAR_CARRIAGE_RETURN")
          /\ NoPush
          /\ Becomes(k, [ctx[k] EXCEPT !.Time = Elapsed(k), !.Longpress = TRUE])

\* Mutants: a tap after a long press; a tap that leaves the key pressed.
KeyTappedAlways(k, pressed) ==
    /\ In(k, "PRESSED") /\ ~pressed
    /\ Push(k, ctx[k].KeyData)
    /\ Becomes(k, [ctx[k] EXCEPT !.Time = Elapsed(k), !.Longpress = FALSE,
                                 !.State = "LONGPRESS_RELEASE"])
KeyTappedStays(k, pressed) ==
    /\ In(k, "PRESSED") /\ ~pressed /\ ~ctx[k].Longpress
    /\ Push(k, ctx[k].KeyData)
    /\ Becomes(k, [ctx[k] EXCEPT !.Time = Elapsed(k)])

KeyTapped(k, pressed) ==
    /\ In(k, "PRESSED") /\ ~pressed /\ ~ctx[k].Longpress
    /\ Push(k, ctx[k].KeyData)
    /\ Becomes(k, [ctx[k] EXCEPT !.Time = Elapsed(k), !.State = "LONGPRESS_RELEASE"])

\* Mutant: a release that keeps the flags of the press.
KeyReleasedWithFlags(k, pressed) ==
    /\ \/ In(k, "PRESSED") /\ ~pressed /\ ctx[k].Longpress /\ Elapsed(k) >= DebounceTime
       \/ In(k, "LONGPRESS_RELEASE")
    /\ Becomes(k, [ctx[k] EXCEPT !.Time = 0, !.State = "RELEASED"])
    /\ NoPush

KeyReleased(k, pressed) ==
    /\ \/ In(k, "PRESSED") /\ ~pressed /\ ctx[k].Longpress /\ Elapsed(k) >= DebounceTime
       \/ In(k, "LONGPRESS_RELEASE")
    /\ Becomes(k, Context(ctx[k].KeyData))
    /\ NoPush

\* Mutant: the time of a poll that changes nothing is not counted.
KeyWaitsUncounted(k, pressed) ==
    /\ \/ In(k, "RELEASED") /\ ~pressed
       \/ In(k, "PRESSED") /\ pressed /\ ~RepeatDue(k) /\ ~LongpressDue(k)
       \/ In(k, "PRESSED") /\ ~pressed /\ ctx[k].Longpress /\ Elapsed(k) < DebounceTime
    /\ Becomes(k, ctx[k])
    /\ NoPush

KeyWaits(k, pressed) ==
    /\ \/ In(k, "RELEASED") /\ ~pressed
       \/ In(k, "PRESSED") /\ pressed /\ ~RepeatDue(k) /\ ~LongpressDue(k)
       \/ In(k, "PRESSED") /\ ~pressed /\ ctx[k].Longpress /\ Elapsed(k) < DebounceTime
    /\ Becomes(k, [ctx[k] EXCEPT !.Time = Elapsed(k)])
    /\ NoPush

LibKeyUpdateKeyStatus(k, pressed) ==
    /\ held' = KeySetState(ctx[k].KeyData, pressed)
    /\ \/ KeyPressed(k, pressed)     \/ KeyRepeats(k, pressed)
       \/ PowerLongpress(k, pressed) \/ VolumeLongpress(k, pressed)
       \/ KeyTapped(k, pressed)      \/ KeyReleased(k, pressed)
       \/ KeyWaits(k, pressed)
-----------------------------------------------------------------------------
\* GetKeys: one step to enter, then one step for each key of KeyList.
EnterGetKeys(d) ==
    /\ pos' = 1 /\ isPressed' = FALSE /\ delta' = d
    /\ report' = Silent
    /\ UNCHANGED <<button, valid, ctx, held>>

GetKeys(d) == pos = 0 /\ EnterGetKeys(d)

NextPos == pos' = IF pos = Len(KeyList) THEN 0 ELSE pos + 1

\* A GPIO read can only set IsPressed, a PMIC read overwrites it.
Sampled(k) == button[k] \/ (DeviceType(k) = "LEGACY" /\ isPressed)

PollKey ==
    /\ pos # 0
    /\ NextPos
    /\ \/ /\ KeyList[pos] \in valid
          /\ isPressed' = Sampled(KeyList[pos])
          /\ LibKeyUpdateKeyStatus(KeyList[pos], isPressed')
       \/ /\ KeyList[pos] \notin valid
          /\ NoPush
          /\ UNCHANGED <<ctx, held, isPressed>>
    /\ UNCHANGED <<button, valid, delta>>

Next ==
    \/ \E k \in KeyIds : Toggle(k)
    \/ Reset
    \/ \E d \in Deltas : GetKeys(d)
    \/ PollKey

Spec == Init /\ [][Next]_vars

\* The driver's timer polls every 20 ms for as long as it runs, so that polls
\* with time between them recur among those that callers make at once.
FairSpec ==
    Spec /\ SF_vars(\E d \in Deltas \ {0} : GetKeys(d)) /\ WF_vars(PollKey)
-----------------------------------------------------------------------------
TypeOK ==
    /\ button \in [KeyIds -> BOOLEAN]
    /\ valid \subseteq KeyIds
    /\ ctx \in [KeyIds -> [KeyData : KeyDatas, Time : 0 .. TimeCap,
                           State : {"RELEASED", "PRESSED", "LONGPRESS_RELEASE"},
                           Repeat : BOOLEAN, Longpress : BOOLEAN]]
    /\ held \subseteq KeyDatas \ {NullKey}
    /\ pos \in 0 .. Len(KeyList)
    /\ isPressed \in BOOLEAN
    /\ delta \in Deltas \cup {0}
    /\ report \in Reports

\* A key repeats only inside a long press, and a long press is a state of a
\* key that is down: whatever ends a press ends both
\* (KeypadDeviceImplLib.c:112-178).
FlagsFollowState ==
    \A k \in KeyIds : /\ ctx[k].Repeat => ctx[k].Longpress
                      /\ ctx[k].Longpress => ctx[k].State = "PRESSED"

\* No key is pressed by another key's button, although GetKeys carries
\* IsPressed from key to key and GPIO keys never clear it
\* (KeypadDeviceImplLib.c:287-308).
OwnButtonOnly ==
    [][\A k \in KeyIds :
          ctx[k].State = "RELEASED" /\ ctx'[k].State = "PRESSED" => button[k]]_vars

VolumeSeen(k) == k \in valid /\ button[k]

\* The combination a long press of the power key reports is the one the
\* volume buttons form in that very poll, not in an earlier one
\* (KeypadDeviceImplLib.c:124-138,290).
ComboIsCurrent ==
    [][LET key == report'.key IN
         /\ key = "s" => VolumeSeen("VolumeDown")
         /\ key = "e" => VolumeSeen("VolumeUp") /\ ~VolumeSeen("VolumeDown")
         /\ key = " " => ~VolumeSeen("VolumeUp") /\ ~VolumeSeen("VolumeDown")]_vars

\* A press is answered by a report or given up by a reset, whatever the
\* other keys do (KeypadDeviceImplLib.c:112-171).
PressIsAnswered ==
    \A k \in KeyIds :
        ctx[k].State = "PRESSED" ~> (ctx[k].Longpress \/ ctx[k].State # "PRESSED")

\* A button that stays up leaves its key released (KeypadDeviceImplLib.c:156-178).
ReleasedSettles ==
    \A k \in KeyIds : <>[](~button[k]) => <>[](ctx[k].State = "RELEASED")

Phase(k) ==
    CASE In(k, "RELEASED") -> "idle"
      [] In(k, "LONGPRESS_RELEASE") -> "answered"
      [] In(k, "PRESSED") -> IF ctx[k].Longpress THEN "holding" ELSE "held"
Own(k) == {KeyDataOf(k), NullKey}

ReportOf(k) == CASE report = Cancelled -> "cancelled"
                 [] report.from = k -> report.key
                 [] OTHER -> "silent"

VolumeDownGesture == INSTANCE KeyGesture WITH
    down <- button["VolumeDown"], phase <- Phase("VolumeDown"),
    report <- ReportOf("VolumeDown"), Silent <- "silent", Cancelled <- "cancelled",
    TapReports <- Own("VolumeDown"), RepeatReports <- Own("VolumeDown"),
    HoldReports <- Own("VolumeDown") \cup {"silent"}
VolumeUpGesture == INSTANCE KeyGesture WITH
    down <- button["VolumeUp"], phase <- Phase("VolumeUp"),
    report <- ReportOf("VolumeUp"), Silent <- "silent", Cancelled <- "cancelled",
    TapReports <- Own("VolumeUp"), RepeatReports <- Own("VolumeUp"),
    HoldReports <- Own("VolumeUp") \cup {"silent"}
PowerGesture == INSTANCE KeyGesture WITH
    down <- button["Power"], phase <- Phase("Power"),
    report <- ReportOf("Power"), Silent <- "silent", Cancelled <- "cancelled",
    TapReports <- Own("Power"), RepeatReports <- {NullKey},
    HoldReports <- Combos \cup {NullKey}

\* Every key behaves as KeyGesture: one answer to a press, a tap or a hold but
\* never both, repeats only of a hold, and nothing from an idle key
\* (KeypadDeviceImplLib.c:91-185).
ImplementsKeyGesture ==
    /\ VolumeDownGesture!GestureSpec
    /\ VolumeUpGesture!GestureSpec
    /\ PowerGesture!GestureSpec
=============================================================================
