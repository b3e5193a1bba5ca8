-------------------------- MODULE KeypadInputProofs --------------------------
(***************************************************************************)
(* Proofs about the keypad driver on top of its device, for all times,     *)
(* buttons, capacities and clients.  The lemmas of the two parts are cited *)
(* as they stand: those of the driver by EXTENDS, those of the device by   *)
(* an instance with the times that the driver's polls may be told.         *)
(***************************************************************************)
EXTENDS KeypadInput, KeypadProofs

DP == INSTANCE KeypadDeviceProofs WITH Deltas <- 0 .. TimeCap

\* What the device's lemmas assume of the times.
LEMMA DeviceTimes == DP!TimesAssumption
BY TimeCapAssumption DEF DP!TimesAssumption

-----------------------------------------------------------------------------
\* The device of KeypadInput is the one that the device's lemmas are about.
LEMMA SameSets ==
    /\ Device!KeyIds = DP!KeyIds /\ Device!KeyDatas = DP!KeyDatas
    /\ Device!Combos = DP!Combos /\ Device!Reports = DP!Reports
    /\ Device!Silent = DP!Silent /\ Device!Cancelled = DP!Cancelled
    /\ Device!NullKey = DP!NullKey /\ Device!KeyList = DP!KeyList
    /\ \A kd : Device!Context(kd) = DP!Context(kd)
    /\ \A k : Device!KeyDataOf(k) = DP!KeyDataOf(k)
    /\ \A k : Device!DeviceType(k) = DP!DeviceType(k)
BY DEF Device!KeyIds, DP!KeyIds, Device!KeyDatas, DP!KeyDatas, Device!Combos, DP!Combos,
   Device!Reports, DP!Reports, Device!Silent, DP!Silent, Device!Cancelled, DP!Cancelled,
   Device!NullKey, DP!NullKey, Device!KeyList, DP!KeyList, Device!Context, DP!Context,
   Device!KeyDataOf, DP!KeyDataOf, Device!DeviceType, DP!DeviceType

LEMMA SameInit == Device!Init <=> DP!Init
BY SameSets DEF Device!Init, DP!Init

LEMMA SameTypes == Device!TypeOK <=> DP!TypeOK
BY SameSets DEF Device!TypeOK, DP!TypeOK

LEMMA SameToggle == ASSUME NEW k PROVE Device!Toggle(k) <=> DP!Toggle(k)
BY SameSets DEF Device!Toggle, DP!Toggle

LEMMA SameReset == Device!ResetKeys <=> DP!ResetKeys
BY SameSets DEF Device!ResetKeys, DP!ResetKeys

LEMMA SameGetKeys == ASSUME NEW d PROVE Device!EnterGetKeys(d) <=> DP!EnterGetKeys(d)
BY SameSets DEF Device!EnterGetKeys, DP!EnterGetKeys

LEMMA SameUpdate ==
    ASSUME NEW k, NEW pressed
    PROVE  Device!LibKeyUpdateKeyStatus(k, pressed) <=> DP!LibKeyUpdateKeyStatus(k, pressed)
<1>1. /\ Device!Elapsed(k) = DP!Elapsed(k)
      /\ \A c : Device!Becomes(k, c) <=> DP!Becomes(k, c)
      /\ \A key : Device!Push(k, key) <=> DP!Push(k, key)
      /\ Device!NoPush <=> DP!NoPush
      /\ \A s : Device!In(k, s) <=> DP!In(k, s)
      /\ Device!IsPower(k) <=> DP!IsPower(k)
      /\ \A kd : Device!KeyGetState(kd) <=> DP!KeyGetState(kd)
    BY SameSets DEF Device!Elapsed, DP!Elapsed, Device!Becomes, DP!Becomes,
       Device!Push, DP!Push, Device!NoPush, DP!NoPush, Device!In, DP!In,
       Device!IsPower, DP!IsPower, Device!KeyGetState, DP!KeyGetState
<1>2. \A kd : Device!KeySetState(kd, pressed) = DP!KeySetState(kd, pressed)
    BY SameSets DEF Device!KeySetState, DP!KeySetState
<1>3. /\ Device!RepeatDue(k) <=> DP!RepeatDue(k)
      /\ Device!LongpressDue(k) <=> DP!LongpressDue(k)
    BY <1>1 DEF Device!RepeatDue, DP!RepeatDue, Device!LongpressDue, DP!LongpressDue
<1>4. Device!KeyPressed(k, pressed) <=> DP!KeyPressed(k, pressed)
    BY <1>1 DEF Device!KeyPressed, DP!KeyPressed
<1>5. Device!KeyRepeats(k, pressed) <=> DP!KeyRepeats(k, pressed)
    BY <1>1, <1>3 DEF Device!KeyRepeats, DP!KeyRepeats
<1>6. Device!PowerLongpress(k, pressed) <=> DP!PowerLongpress(k, pressed)
    BY <1>1, <1>3 DEF Device!PowerLongpress, DP!PowerLongpress
<1>7. Device!VolumeLongpress(k, pressed) <=> DP!VolumeLongpress(k, pressed)
    BY <1>1, <1>3 DEF Device!VolumeLongpress, DP!VolumeLongpress
<1>8. Device!KeyTapped(k, pressed) <=> DP!KeyTapped(k, pressed)
    BY <1>1 DEF Device!KeyTapped, DP!KeyTapped
<1>9. Device!KeyReleased(k, pressed) <=> DP!KeyReleased(k, pressed)
    BY <1>1, SameSets DEF Device!KeyReleased, DP!KeyReleased
<1>10. Device!KeyWaits(k, pressed) <=> DP!KeyWaits(k, pressed)
    BY <1>1, <1>3 DEF Device!KeyWaits, DP!KeyWaits
<1>11. QED
    BY <1>2, <1>4, <1>5, <1>6, <1>7, <1>8, <1>9, <1>10
       DEF Device!LibKeyUpdateKeyStatus, DP!LibKeyUpdateKeyStatus

LEMMA SamePoll == Device!PollKey <=> DP!PollKey
<1>1. Device!NextPos <=> DP!NextPos
    BY SameSets DEF Device!NextPos, DP!NextPos
<1>2. \A k : Device!Sampled(k) = DP!Sampled(k)
    BY SameSets DEF Device!Sampled, DP!Sampled
<1>3. Device!NoPush <=> DP!NoPush
    BY SameSets DEF Device!NoPush, DP!NoPush
<1>4. QED
    BY <1>1, <1>2, <1>3, SameUpdate, SameSets DEF Device!PollKey, DP!PollKey

LEMMA SameNext == Device!Next <=> DP!Next
<1>1. Device!Reset <=> DP!Reset
    BY SameReset DEF Device!Reset, DP!Reset
<1>2. \A d : Device!GetKeys(d) <=> DP!GetKeys(d)
    BY SameGetKeys DEF Device!GetKeys, DP!GetKeys
<1>3. QED
    BY <1>1, <1>2, SamePoll, SameToggle, SameSets DEF Device!Next, DP!Next

-----------------------------------------------------------------------------
\* The device is polled in the driver's critical sections and nowhere else.
PollsWithin == pos # 0 => section # NoSection

\* What each part relies on the other for.
JointInv == DP!KInv /\ elapsed \in 0 .. TimeCap /\ PollsWithin

LEMMA InitJointInv == InputInit => JointInv
<1> SUFFICES ASSUME InputInit PROVE JointInv
    OBVIOUS
<1>1. DP!KInv
    BY DeviceTimes, DP!InitKInv, SameInit DEF InputInit
<1>2. elapsed \in 0 .. TimeCap
    BY TimeCapAssumption DEF InputInit
<1>3. pos = 0
    BY DEF InputInit, Device!Init
<1>4. QED
    BY <1>1, <1>2, <1>3 DEF JointInv, PollsWithin

\* A poll of a key reports a key that the driver accepts from a device.
LEMMA PollReports ==
    ASSUME JointInv, Device!PollKey, report'.from \in KeyIds
    PROVE  /\ report'.key \in DP!KeyDatas \cup DP!Combos
           /\ EfiKeyData(report'.key) \in Inputs
<1>1. DP!PollKey
    BY SamePoll
<1>2. DP!IInv /\ [DP!Next]_(DP!vars)
    BY <1>1 DEF JointInv, DP!KInv, DP!Next
<1>3. report' \in DP!Reports
    BY <1>2, DeviceTimes, DP!StepIInv DEF DP!IInv, DP!TypeOK
<1>4. DP!Silent.from \notin KeyIds /\ DP!Cancelled.from \notin KeyIds
    BY DEF DP!Silent, DP!Cancelled, KeyIds, Device!KeyIds
<1>5. report'.key \in DP!KeyDatas \cup DP!Combos
    BY <1>3, <1>4 DEF DP!Reports
<1>6. QED
    BY <1>5, InputsAssumption, SameSets

\* A step of the driver over its device is a step of the driver or none.
LEMMA StepIsDriverStep == JointInv /\ [InputNext]_inputVars => [Next]_vars
<1> SUFFICES ASSUME JointInv, [InputNext]_inputVars
             PROVE  [Next]_vars
    OBVIOUS
<1>1. CASE TimePasses
    BY <1>1 DEF TimePasses
<1>2. CASE TimerSignals
    BY <1>2 DEF TimerSignals, Next
<1>3. CASE CallbackStarts
    BY <1>3 DEF CallbackStarts, Next
<1>4. ASSUME NEW k \in Buttons, UserToggles(k)
      PROVE  [Next]_vars
    BY <1>4 DEF UserToggles
<1>5. ASSUME NEW by \in Callers, NEW op \in {"read", "readEx", "wait"}, CallPolls(by, op)
      PROVE  [Next]_vars
    BY <1>5 DEF CallPolls, Next
<1>6. CASE PollsKey
    <2>1. section # NoSection
        BY <1>6 DEF PollsKey, Device!PollKey, JointInv, PollsWithin
    <2>2. CASE UNCHANGED vars
        BY <2>2
    <2>3. CASE report'.from \in KeyIds /\ PushToQueues(EfiKeyData(report'.key))
        <3>1. EfiKeyData(report'.key) \in Inputs
            BY <1>6, <2>3, PollReports DEF PollsKey
        <3>2. KeypadReturnApiPushEfikeyBufTail(EfiKeyData(report'.key))
            BY <2>1, <2>3 DEF KeypadReturnApiPushEfikeyBufTail
        <3>3. QED
            BY <3>1, <3>2 DEF Next
    <2>4. QED
        BY <1>6, <2>2, <2>3 DEF PollsKey, Pushes
<1>7. CASE PollEnds
    BY <1>7 DEF PollEnds, Next
<1>8. ASSUME NEW by \in Callers, DriverResets(by)
      PROVE  [Next]_vars
    BY <1>8 DEF DriverResets, Next
<1>9. ASSUME NEW by \in Callers, NEW expose \in BOOLEAN, ClientSetsState(by, expose)
      PROVE  [Next]_vars
    BY <1>9 DEF ClientSetsState, Next
<1>10. ASSUME NEW by \in Callers, ClientChangesList(by)
       PROVE  [Next]_vars
    BY <1>10 DEF ClientChangesList, Next
<1>11. CASE HandlerStep
    BY <1>11 DEF HandlerStep, Next
<1>12. CASE UNCHANGED inputVars
    BY <1>12 DEF inputVars
<1>13. QED
    BY <1>1, <1>2, <1>3, <1>4, <1>5, <1>6, <1>7, <1>8, <1>9, <1>10, <1>11, <1>12
       DEF InputNext

\* What a step of the driver does to its device: nothing, or a step of the device
\* that the driver has its times and turns for.
LEMMA StepOfDevice ==
    ASSUME JointInv, [InputNext]_inputVars
    PROVE  \/ UNCHANGED device /\ (TimePasses \/ UNCHANGED <<elapsed, age>>)
           \/ pos = 0 /\ DP!EnterGetKeys(elapsed) /\ elapsed' = 0
              /\ age' = [age EXCEPT !["poll"] = 0]
           \/ \E k \in DP!KeyIds : DP!Toggle(k) /\ UNCHANGED <<elapsed, age>>
           \/ pos = 0 /\ DP!ResetKeys /\ UNCHANGED <<elapsed, age>>
           \/ DP!PollKey /\ PollsKey
<1>0. section = NoSection => pos = 0
    BY DEF JointInv, PollsWithin
<1>1. CASE CallbackStarts
    BY <1>0, <1>1, SameGetKeys DEF CallbackStarts, Dispatch, PollBegins, KeypadTimerHandler, device
<1>2. ASSUME NEW k \in Buttons, UserToggles(k)
      PROVE  \E j \in DP!KeyIds : DP!Toggle(j) /\ UNCHANGED <<elapsed, age>>
    BY <1>2, ButtonsAssumption, SameSets, SameToggle DEF UserToggles, KeyIds
<1>3. ASSUME NEW by \in Callers, NEW op \in {"read", "readEx", "wait"}, CallPolls(by, op)
      PROVE  pos = 0 /\ DP!EnterGetKeys(elapsed) /\ elapsed' = 0
             /\ age' = [age EXCEPT !["poll"] = 0]
    BY <1>0, <1>3, SameGetKeys DEF CallPolls, Enter, MayCall, PollBegins, KeypadTimerHandler
<1>4. CASE PollsKey
    BY <1>4, SamePoll DEF PollsKey
<1>5. ASSUME NEW by \in Callers, DriverResets(by)
      PROVE  pos = 0 /\ DP!ResetKeys /\ UNCHANGED <<elapsed, age>>
    BY <1>0, <1>5, SameReset DEF DriverResets, KeypadEfiReset, MayRun, MayCall
<1>6. QED
    BY <1>1, <1>2, <1>3, <1>4, <1>5 DEF InputNext, TimePasses, TimerSignals, PollEnds,
       ClientSetsState, ClientChangesList, HandlerStep, inputVars

\* A step of the driver over its device is a step of the device or none.
LEMMA StepIsDeviceStep == JointInv /\ [InputNext]_inputVars => [DP!Next]_(DP!vars)
<1> SUFFICES ASSUME JointInv, [InputNext]_inputVars
             PROVE  [DP!Next]_(DP!vars)
    OBVIOUS
<1>1. elapsed \in 0 .. TimeCap
    BY DEF JointInv
<1>2. UNCHANGED device => UNCHANGED DP!vars
    BY DEF device, DP!vars
<1>3. pos = 0 /\ DP!EnterGetKeys(elapsed) => DP!Next
    BY <1>1 DEF DP!Next, DP!GetKeys
<1>4. pos = 0 /\ DP!ResetKeys => DP!Next
    BY DEF DP!Next, DP!Reset
<1>5. QED
    BY <1>2, <1>3, <1>4, StepOfDevice DEF DP!Next

LEMMA StepJointInv == JointInv /\ [InputNext]_inputVars => JointInv'
<1> SUFFICES ASSUME JointInv, [InputNext]_inputVars
             PROVE  JointInv'
    OBVIOUS
<1>1. DP!KInv'
    BY StepIsDeviceStep, DeviceTimes, DP!StepKInv DEF JointInv
<1>2. elapsed' \in 0 .. TimeCap
    BY TimeCapAssumption DEF JointInv, InputNext, inputVars, TimePasses, Capped,
       UserToggles, TimerSignals, CallbackStarts, PollBegins, KeypadTimerHandler,
       CallPolls, PollsKey, PollEnds, DriverResets, ClientSetsState, ClientChangesList,
       HandlerStep
<1>3. PollsWithin'
    <2>1. CASE CallbackStarts
        BY <2>1 DEF CallbackStarts, Dispatch, NoSection, device, JointInv, PollsWithin
    <2>2. ASSUME NEW by \in Callers, NEW op \in {"read", "readEx", "wait"}, CallPolls(by, op)
          PROVE  PollsWithin'
        BY <2>2 DEF CallPolls, Enter, NoSection, PollsWithin
    <2>3. CASE PollEnds
        BY <2>3 DEF PollEnds, device, PollsWithin
    <2>4. CASE PollsKey
        <3>1. section # NoSection
            BY <2>4 DEF PollsKey, Device!PollKey, JointInv, PollsWithin
        <3>2. UNCHANGED section
            BY <2>4 DEF PollsKey, Pushes, PushToQueues, vars
        <3>3. QED
            BY <3>1, <3>2 DEF PollsWithin
    <2>5. CASE UNCHANGED <<pos, section>>
        BY <2>5 DEF JointInv, PollsWithin
    <2>6. QED
        BY <2>1, <2>2, <2>3, <2>4, <2>5 DEF InputNext, inputVars, vars, device, TimePasses,
           TimerSignals, Tick, UserToggles, Device!Toggle, DriverResets, KeypadEfiReset,
           Device!ResetKeys, ClientSetsState, KeypadSetState, ClientChangesList,
           KeypadRegisterKeyNotify, KeypadUnregisterKeyNotify, HandlerStep, HandlerPops,
           HandlerWalks, KeyNotificationFnReturns
<1>4. QED
    BY <1>1, <1>2, <1>3 DEF JointInv
\* The driver over its device is the driver over any device, for all times, buttons,
\* capacities and clients: what a poll pushes, it pushes inside a critical section,
\* and it is key data (KeypadController.c:40-74, Keypad.c:137-177).
THEOREM InputImplementsDriver == InputSpec => ImplementsDriver
<1>1. InputInit => Init
    BY DEF InputInit
<1>2. QED
    BY <1>1, InitJointInv, StepJointInv, StepIsDriverStep, PTL
       DEF InputSpec, ImplementsDriver, Spec

\* What the device's lemmas say, they say of this device.
LEMMA InputImplementsDP == InputSpec => DP!Spec
<1>1. InputInit => DP!Init
    BY SameInit DEF InputInit
<1>2. QED
    BY <1>1, InitJointInv, StepJointInv, StepIsDeviceStep, PTL DEF InputSpec, DP!Spec

\* The device under the driver is the device under any poller, for all times and
\* clients: it is reset between polls only, and one poll ends before the next begins
\* (KeypadTextIn.c:141-160,286-330, KeypadController.c:44-74).
THEOREM InputImplementsDevice == InputSpec => ImplementsDevice
<1>1. InputInit => Device!Init
    BY DEF InputInit
<1>2. JointInv /\ [InputNext]_inputVars => [Device!Next]_(Device!vars)
    BY StepIsDeviceStep, SameNext DEF DP!vars, Device!vars
<1>3. QED
    BY <1>1, <1>2, InitJointInv, StepJointInv, PTL
       DEF InputSpec, ImplementsDevice, Device!Spec

-----------------------------------------------------------------------------
(* Partial keys.                                                             *)

WholeInputs == {k \in Inputs : ~IsPartial(k)}

\* Until Start has reset the device nobody has asked for partial keys, and from
\* then on every key has its data, so that none makes any.
NoPartial ==
    /\ IF installed THEN \A k \in DP!KeyIds : ctx[k].KeyData = DP!KeyDataOf(k)
                    ELSE ~isSupportPartialKey
    /\ efiKeyQueue \in Seq(WholeInputs) /\ efiKeyQueueForNotify \in Seq(WholeInputs)
    /\ reading = {}

\* A key that a poll reports is a whole one once the keys have their data.
LEMMA PollReportsWhole ==
    ASSUME JointInv, NoPartial, Device!PollKey, report'.from \in KeyIds, installed
    PROVE  ~IsPartial(EfiKeyData(report'.key))
<1>1. DP!PollKey /\ DP!IInv
    BY SamePoll DEF JointInv, DP!KInv
<1>2. report'.from # DP!Silent.from
    BY DEF DP!Silent, KeyIds, Device!KeyIds
<1> DEFINE j == DP!KeyList[pos]
<1>3. j \in DP!KeyIds /\ DP!LibKeyUpdateKeyStatus(j, button[j]) /\ button[j] \in BOOLEAN
    BY <1>1, <1>2, DeviceTimes, DP!PollIsUpdate DEF DP!NoPush, DP!IInv, DP!TypeOK
<1>4. report'.key \in {ctx[j].KeyData} \cup DP!Combos
    BY <1>2, <1>3, DeviceTimes, DP!UpdateReportsOwn
<1>5. ctx[j].KeyData = DP!KeyDataOf(j)
    BY <1>3 DEF NoPartial
<1>6. \A k \in DP!KeyIds : DP!KeyDataOf(k) # "NULL"
    BY DEF DP!KeyIds, DP!KeyDataOf
<1>7. report'.key # "NULL"
    BY <1>3, <1>4, <1>5, <1>6 DEF DP!Combos
<1>8. QED
    BY <1>7 DEF IsPartial, EfiKeyData

\* Copies of a whole key, and a whole key, go into queues of whole keys.
LEMMA PushesWhole ==
    ASSUME TypeOK, NoPartial, NEW k \in WholeInputs, PushToQueues(k)
    PROVE  efiKeyQueue' \in Seq(WholeInputs) /\ efiKeyQueueForNotify' \in Seq(WholeInputs)
<1>1. Len(efiKeyQueue) <= Capacity /\ Len(efiKeyQueueForNotify) <= Capacity
    BY DEF TypeOK
<1>2. Pushed(efiKeyQueue, k) \in Seq(WholeInputs)
    BY <1>1, PushedProperties DEF NoPartial
<1>3. [i \in 1 .. Cardinality(Matching(k)) |-> k] \in Seq(WholeInputs)
    <2>1. Cardinality(Matching(k)) \in Nat
        BY ListProperties, FS_Subset, FS_CardinalityType DEF Matching
    <2>2. QED
        BY <2>1
<1>4. PushedAll(efiKeyQueueForNotify, [i \in 1 .. Cardinality(Matching(k)) |-> k])
         \in Seq(WholeInputs)
    BY <1>1, <1>3, PushedAllProperties DEF NoPartial
<1>5. QED
    BY <1>2, <1>4 DEF PushToQueues
\* The data of the keys: a reset gives all of them theirs, and a poll keeps it.
LEMMA StepKeyData ==
    ASSUME JointInv, [InputNext]_inputVars,
           \A k \in DP!KeyIds : ctx[k].KeyData = DP!KeyDataOf(k)
    PROVE  \A k \in DP!KeyIds : ctx'[k].KeyData = DP!KeyDataOf(k)
<1>1. CASE DP!ResetKeys
    BY <1>1 DEF DP!ResetKeys, DP!Context
<1>2. CASE DP!PollKey
    <2> DEFINE j == DP!KeyList[pos]
    <2>1. /\ j \in DP!KeyIds
          /\ \/ UNCHANGED ctx
             \/ DP!LibKeyUpdateKeyStatus(j, button[j]) /\ button[j] \in BOOLEAN
        BY <1>2, DeviceTimes, DP!PollIsUpdate DEF JointInv, DP!KInv, DP!IInv, DP!TypeOK
    <2>2. UNCHANGED ctx \/ \A k \in DP!KeyIds : ctx'[k].KeyData = ctx[k].KeyData
        BY <2>1, DeviceTimes, DP!UpdateKeepsData DEF JointInv
    <2>3. QED
        BY <2>2
<1>3. CASE UNCHANGED ctx
    BY <1>3
<1>4. QED
    BY <1>1, <1>2, <1>3, StepOfDevice DEF device, DP!Toggle, DP!EnterGetKeys

LEMMA InitNoPartial == InputInit => NoPartial
BY EmptySeq DEF InputInit, Init, NoPartial

\* The steps that keep the queues of whole keys.
LEMMA StepNoPartial ==
    TypeOK /\ JointInv /\ NoPartial /\ [InputNext]_inputVars => NoPartial'
<1> SUFFICES ASSUME TypeOK, JointInv, NoPartial, [InputNext]_inputVars
             PROVE  NoPartial'
    OBVIOUS
<1> DEFINE Owned == IF installed THEN \A k \in DP!KeyIds : ctx[k].KeyData = DP!KeyDataOf(k)
                    ELSE ~isSupportPartialKey
           Whole == /\ efiKeyQueue \in Seq(WholeInputs)
                    /\ efiKeyQueueForNotify \in Seq(WholeInputs)
                    /\ reading = {}
<1>1. Owned'
    <2>1. CASE installed /\ installed'
        BY <2>1, StepKeyData DEF NoPartial
    <2>2. ASSUME NEW by \in Callers, DriverResets(by)
          PROVE  Owned'
        BY <2>2, SameReset DEF DriverResets, DP!ResetKeys, DP!Context
    <2>3. CASE ~installed /\ UNCHANGED <<installed, isSupportPartialKey>>
        BY <2>3 DEF NoPartial
    <2>4. \/ \E by \in Callers : DriverResets(by)
          \/ installed /\ UNCHANGED installed
          \/ UNCHANGED <<installed, isSupportPartialKey>>
        BY DEF InputNext, inputVars, vars, queues, TimePasses, TimerSignals,
           Tick, UserToggles, CallbackStarts, Dispatch, CallPolls, PollsKey, Pushes,
           PushToQueues, PollEnds, KeypadTimerHandlerReturns, KeypadReadKeyStrokeWorkerReturns,
           KeypadWaitForKeyReturns, ClientSetsState, ClientChangesList, HandlerStep,
           HandlerPops, HandlerWalks, KeyNotificationFnReturns
    <2>5. QED
        BY <2>1, <2>2, <2>3, <2>4
<1>2. Whole'
    <2>0. \A q \in Seq(WholeInputs) : q # <<>> => /\ Tail(q) \in Seq(WholeInputs)
                                                  /\ ~IsPartial(Head(q))
        BY HeadTailProperties DEF WholeInputs
    <2>1. CASE PollsKey
        <3>1. CASE UNCHANGED vars
            BY <3>1 DEF vars, queues, NoPartial
        <3>2. CASE /\ report'.from \in KeyIds
                   /\ ~(IsPartial(EfiKeyData(report'.key)) /\ ~isSupportPartialKey)
                   /\ PushToQueues(EfiKeyData(report'.key))
            <4>1. Device!PollKey /\ EfiKeyData(report'.key) \in Inputs
                BY <2>1, <3>2, PollReports DEF PollsKey
            <4>2. ~IsPartial(EfiKeyData(report'.key))
                BY <3>2, <4>1, PollReportsWhole DEF NoPartial
            <4>3. EfiKeyData(report'.key) \in WholeInputs
                BY <4>1, <4>2 DEF WholeInputs
            <4>4. QED
                BY <3>2, <4>3, PushesWhole DEF PushToQueues, NoPartial
        <3>3. QED
            BY <2>1, <3>1, <3>2 DEF PollsKey, Pushes
    <2>2. CASE KeypadReadKeyStrokeWorkerReturns
        BY <2>0, <2>2 DEF KeypadReadKeyStrokeWorkerReturns, NoPartial
    <2>3. CASE KeypadWaitForKeyReturns
        <3>1. FirstWhole # 0 => /\ FirstWhole \in 1 .. Len(efiKeyQueue)
                                /\ Len(efiKeyQueue) \in Nat
            BY FirstWholeProperties, LenProperties DEF TypeOK
        <3>2. FirstWhole # 0 =>
                 SubSeq(efiKeyQueue, FirstWhole, Len(efiKeyQueue)) \in Seq(WholeInputs)
            <4> DEFINE f == FirstWhole
            <4>1. \A i \in f .. Len(efiKeyQueue) :
                     f # 0 => efiKeyQueue[i] \in WholeInputs
                BY <3>1, ElementOfSeq DEF NoPartial
            <4>2. QED
                BY <3>1, <4>1, SubSeqProperties
        <3>3. QED
            BY <2>3, <3>2, EmptySeq DEF KeypadWaitForKeyReturns, NoPartial
    <2>4. CASE HandlerPops
        BY <2>0, <2>4 DEF HandlerPops, NoPartial
    <2>5. ASSUME NEW by \in Callers, KeypadEfiReset(by)
          PROVE  Whole'
        BY <2>5, EmptySeq DEF KeypadEfiReset, NoPartial
    <2>6. CASE UNCHANGED <<efiKeyQueue, efiKeyQueueForNotify, reading>>
        BY <2>6 DEF NoPartial
    <2>7. QED
        BY <2>1, <2>2, <2>3, <2>4, <2>5, <2>6
           DEF InputNext, inputVars, vars, queues, TimePasses, TimerSignals,
           Tick, UserToggles, CallbackStarts, Dispatch, CallPolls, Enter,
           PollEnds, KeypadTimerHandlerReturns, DriverResets, ClientSetsState, KeypadSetState,
           ClientChangesList, KeypadRegisterKeyNotify, KeypadUnregisterKeyNotify, HandlerStep,
           HandlerWalks, KeyNotificationFnReturns
<1>3. QED
    BY <1>1, <1>2 DEF NoPartial

\* No client meets a partial key, for all times, buttons, capacities and clients:
\* nobody exposes them before Start has given every key its data, and from then on no
\* key makes any (Keypad.c:271-315, KeypadTextIn.c:297-317).
THEOREM KeysAreWhole == InputSpec => []OnlyWholeKeys
<1>1. NoPartial => OnlyWholeKeys
    <2>1. \A q \in Seq(WholeInputs) : \A i \in DOMAIN q : ~IsPartial(q[i])
        BY LenProperties, ElementOfSeq DEF WholeInputs
    <2>2. QED
        BY <2>1 DEF NoPartial, OnlyWholeKeys
<1>2. InputSpec => []TypeOK
    BY InputImplementsDriver, TypeCorrect, PTL DEF ImplementsDriver
<1>3. InputSpec => []JointInv
    BY InitJointInv, StepJointInv, PTL DEF InputSpec
<1>4. QED
    BY <1>1, <1>2, <1>3, InitNoPartial, StepNoPartial, PTL DEF InputSpec
-----------------------------------------------------------------------------
(* The time of a hold.                                                       *)

Earlier(s, t) == IF s <= t THEN s ELSE t

\* The place of a key in a poll.
Turn(k) == CASE k = "VolumeDown" -> 1 [] k = "VolumeUp" -> 2 [] k = "Power" -> 3

\* The time that a key will have counted when the next poll comes to it: what a poll
\* that has not come to it yet was told, and what has passed since that poll began.
Told(k) == IF pos # 0 /\ pos <= Turn(k) THEN delta ELSE 0
WillCount(k) == ctx[k].Time + Told(k) + elapsed

\* The clock is the time since the last poll, and no key that counts its time is
\* ahead of the time that has passed.
TimesKept ==
    /\ age \in [Clocks -> 0 .. TimeCap]
    /\ age["poll"] = elapsed
    /\ \A k \in DP!KeyIds :
          DP!CountsTime(ctx[k]) => Earlier(TimeCap, WillCount(k)) <= age[k]

LEMMA TurnsAreKeyList ==
    /\ \A i \in 1 .. 3 : Turn(DP!KeyList[i]) = i
    /\ \A k \in DP!KeyIds : Turn(k) \in 1 .. 3 /\ DP!KeyList[Turn(k)] = k
BY DEF DP!KeyList, DP!KeyIds, Turn

LEMMA InitTimesKept == InputInit => TimesKept
<1> SUFFICES ASSUME InputInit PROVE TimesKept
    OBVIOUS
<1>1. TimeCap \in 0 .. TimeCap
    BY TimeCapAssumption
<1>2. \A k \in DP!KeyIds : ~DP!CountsTime(ctx[k])
    BY SameSets DEF InputInit, Device!Init, Device!Context, DP!CountsTime
<1>3. QED
    BY <1>1, <1>2 DEF InputInit, TimesKept, Clocks

\* What a poll of the key j does to its times.
LEMMA PollTimes ==
    ASSUME JointInv, TimesKept, Device!PollKey
    PROVE  \E j \in DP!KeyIds :
              /\ pos = Turn(j) /\ pos' = (IF pos = 3 THEN 0 ELSE pos + 1)
              /\ \A k \in DP!KeyIds \ {j} : ctx'[k] = ctx[k] /\ report'.from # k
              /\ \/ ctx'[j] = ctx[j] /\ report'.from # j
                 \/ DP!LibKeyUpdateKeyStatus(j, button[j]) /\ button[j] \in BOOLEAN
<1>1. DP!PollKey /\ DP!IInv
    BY SamePoll DEF JointInv, DP!KInv
<1> DEFINE j == DP!KeyList[pos]
<1>2. /\ pos \in 1 .. 3 /\ j \in DP!KeyIds
      /\ \/ DP!LibKeyUpdateKeyStatus(j, button[j])
         \/ DP!NoPush /\ UNCHANGED <<ctx, held>>
      /\ pos' = IF pos = 3 THEN 0 ELSE pos + 1
    BY <1>1, DeviceTimes, DP!PollIsUpdate
<1>3. pos = Turn(j) /\ button[j] \in BOOLEAN
    BY <1>1, <1>2, TurnsAreKeyList DEF DP!IInv, DP!TypeOK
<1>4. \A k \in DP!KeyIds : DP!Silent.from # k
    BY DEF DP!Silent, DP!KeyIds
<1>5. CASE DP!NoPush /\ UNCHANGED <<ctx, held>>
    BY <1>2, <1>3, <1>4, <1>5 DEF DP!NoPush
<1>6. CASE DP!LibKeyUpdateKeyStatus(j, button[j])
    <2>1. \A k \in DP!KeyIds \ {j} : ctx'[k] = ctx[k]
        BY <1>2, <1>3, <1>6, DeviceTimes, DP!UpdateKeepsData DEF JointInv
    <2>2. \A k \in DP!KeyIds \ {j} : report'.from # k
        BY <1>2, <1>3, <1>4, <1>6, DeviceTimes, DP!UpdateReportsOwn
    <2>3. QED
        BY <1>2, <1>3, <1>6, <2>1, <2>2
<1>7. QED
    BY <1>2, <1>5, <1>6

\* The types that the arithmetic needs.
LEMMA TimeTypes ==
    ASSUME JointInv, NEW k \in DP!KeyIds
    PROVE  /\ ctx[k].Time \in 0 .. TimeCap /\ delta \in 0 .. TimeCap
           /\ elapsed \in 0 .. TimeCap /\ Told(k) \in 0 .. TimeCap
           /\ WillCount(k) \in Nat /\ TimeCap \in Nat /\ pos \in 0 .. 3
<1>1. ctx[k].Time \in 0 .. TimeCap /\ delta \in 0 .. TimeCap /\ elapsed \in 0 .. TimeCap
    BY TimeCapAssumption DEF JointInv, DP!KInv, DP!IInv, DP!TypeOK
<1>2. Told(k) \in 0 .. TimeCap /\ TimeCap \in Nat
    BY <1>1, TimeCapAssumption DEF Told
<1>3. pos \in 0 .. 3
    BY DeviceTimes, DP!KeyListIsKeyIds DEF JointInv, DP!KInv, DP!IInv, DP!TypeOK
<1>4. QED
    BY <1>1, <1>2, <1>3 DEF WillCount
LEMMA StepTimesKept == JointInv /\ TimesKept /\ [InputNext]_inputVars => TimesKept'
<1> SUFFICES ASSUME JointInv, TimesKept, [InputNext]_inputVars
             PROVE  TimesKept'
    OBVIOUS
<1>0. /\ DP!KeyIds \subseteq Clocks /\ "poll" \in Clocks /\ "poll" \notin KeyIds
      /\ KeyIds = DP!KeyIds
    BY SameSets DEF Clocks, KeyIds, Device!KeyIds
<1>1. CASE UNCHANGED device /\ TimePasses
    <2>1. \A t \in 0 .. TimeCap : Capped(t + 1) = Earlier(TimeCap, t + 1)
                                  /\ Capped(t + 1) \in 0 .. TimeCap
        BY TimeCapAssumption, SMT DEF Capped, Earlier
    <2>2. /\ elapsed' = Earlier(TimeCap, elapsed + 1)
          /\ \A c \in Clocks : age'[c] = Earlier(TimeCap, age[c] + 1)
          /\ age' \in [Clocks -> 0 .. TimeCap]
        BY <1>1, <2>1 DEF TimePasses, JointInv, TimesKept
    <2>3. ASSUME NEW k \in DP!KeyIds, DP!CountsTime(ctx'[k])
          PROVE  Earlier(TimeCap, WillCount(k)') <= age'[k]
        <3>1. Earlier(TimeCap, WillCount(k)) <= age[k] /\ age[k] \in 0 .. TimeCap
            BY <1>0, <1>1, <2>3 DEF TimesKept, device
        <3>2. WillCount(k)' = ctx[k].Time + Told(k) + elapsed'
            BY <1>1 DEF WillCount, Told, device
        <3>3. QED
            BY <1>0, <2>2, <3>1, <3>2, TimeTypes DEF Earlier, WillCount
    <2>4. QED
        BY <1>0, <2>2, <2>3 DEF TimesKept
<1>2. CASE pos = 0 /\ DP!EnterGetKeys(elapsed) /\ elapsed' = 0
           /\ age' = [age EXCEPT !["poll"] = 0]
    <2>1. \A k \in DP!KeyIds : age'[k] = age[k] /\ WillCount(k)' = WillCount(k)
        <3> TAKE k \in DP!KeyIds
        <3>1. Told(k) = 0 /\ Told(k)' = elapsed
            BY <1>2, TurnsAreKeyList DEF Told, DP!EnterGetKeys
        <3>2. QED
            BY <1>0, <1>2, <3>1, TimeTypes DEF WillCount, DP!EnterGetKeys, TimesKept
    <2>2. age' \in [Clocks -> 0 .. TimeCap] /\ age'["poll"] = elapsed'
        <3>1. 0 \in 0 .. TimeCap
            BY TimeCapAssumption
        <3>2. QED
            BY <1>0, <1>2, <3>1 DEF TimesKept
    <2>3. QED
        BY <1>2, <2>1, <2>2 DEF TimesKept, DP!EnterGetKeys
<1>3. CASE UNCHANGED <<ctx, pos, delta, elapsed, age>>
    BY <1>3 DEF TimesKept, WillCount, Told
<1>4. CASE DP!ResetKeys /\ UNCHANGED <<elapsed, age>>
    <2>1. \A k \in DP!KeyIds : ~DP!CountsTime(ctx'[k])
        BY <1>4 DEF DP!ResetKeys, DP!Context, DP!CountsTime
    <2>2. QED
        BY <1>4, <2>1 DEF TimesKept
<1>5. CASE PollsKey
    <2>0. UNCHANGED <<elapsed, delta>>
        BY <1>5 DEF PollsKey, Device!PollKey
    <2>1. PICK j \in DP!KeyIds :
              /\ pos = Turn(j) /\ pos' = (IF pos = 3 THEN 0 ELSE pos + 1)
              /\ \A k \in DP!KeyIds \ {j} : ctx'[k] = ctx[k] /\ report'.from # k
              /\ \/ ctx'[j] = ctx[j] /\ report'.from # j
                 \/ DP!LibKeyUpdateKeyStatus(j, button[j]) /\ button[j] \in BOOLEAN
        BY <1>5, PollTimes DEF PollsKey
    <2>2. /\ age' \in [Clocks -> 0 .. TimeCap] /\ age'["poll"] = elapsed'
          /\ \A k \in DP!KeyIds : age'[k] = IF Counts(k) THEN elapsed ELSE age[k]
        BY <1>0, <1>5 DEF PollsKey, TimesKept
    <2>3. \A k \in DP!KeyIds : ctx'[k] = ctx[k] /\ report'.from # k => ~Counts(k)
        BY DEF Counts
    <2>4. ASSUME NEW k \in DP!KeyIds, ctx'[k] = ctx[k], report'.from # k,
                 DP!CountsTime(ctx'[k])
          PROVE  Earlier(TimeCap, WillCount(k)') <= age'[k]
        <3>1. Told(k)' = Told(k) \/ Told(k)' = 0
            BY <2>0, <2>1, TurnsAreKeyList DEF Told
        <3>2. age'[k] = age[k] /\ Earlier(TimeCap, WillCount(k)) <= age[k]
              /\ age[k] \in 0 .. TimeCap
            BY <1>0, <2>2, <2>3, <2>4 DEF TimesKept
        <3>3. WillCount(k)' = ctx[k].Time + Told(k)' + elapsed
            BY <2>0, <2>4 DEF WillCount
        <3>4. QED
            BY <3>1, <3>2, <3>3, TimeTypes DEF Earlier, WillCount
    <2>5. ASSUME DP!LibKeyUpdateKeyStatus(j, button[j]), button[j] \in BOOLEAN,
                 DP!CountsTime(ctx'[j])
          PROVE  Earlier(TimeCap, WillCount(j)') <= age'[j]
        <3>1. Told(j) = delta /\ Told(j)' = 0 /\ WillCount(j)' = ctx'[j].Time + 0 + elapsed
            BY <2>0, <2>1, TurnsAreKeyList DEF Told, WillCount
        <3>2. \/ ctx'[j].Time = 0 /\ (report'.from = j \/ ctx[j].State = "RELEASED")
              \/ /\ DP!CountsTime(ctx[j]) /\ ctx'[j].Time = DP!Elapsed(j)
                 /\ report' = DP!Silent
            BY <2>5, DeviceTimes, DP!UpdateCountsTime DEF JointInv, DP!KInv
        <3>3. CASE ctx'[j].Time = 0 /\ (report'.from = j \/ ctx[j].State = "RELEASED")
            <4>1. Counts(j)
                BY <2>5, <3>3 DEF Counts, DP!CountsTime
            <4>2. age'[j] = elapsed
                BY <2>2, <4>1
            <4>3. QED
                BY <3>1, <3>3, <4>2, TimeTypes DEF Earlier
        <3>4. CASE /\ DP!CountsTime(ctx[j]) /\ ctx'[j].Time = DP!Elapsed(j)
                   /\ report' = DP!Silent
            <4>1. ~Counts(j)
                BY <3>4 DEF Counts, DP!CountsTime, DP!Silent, DP!KeyIds
            <4>2. age'[j] = age[j] /\ age[j] \in 0 .. TimeCap
                  /\ Earlier(TimeCap, WillCount(j)) <= age[j]
                BY <1>0, <2>2, <3>4, <4>1 DEF TimesKept
            <4>3. ctx'[j].Time = Earlier(TimeCap, ctx[j].Time + delta)
                BY <3>4, TimeTypes DEF DP!Elapsed, Earlier
            <4>4. QED
                BY <3>1, <4>2, <4>3, TimeTypes DEF Earlier, WillCount
        <3>5. QED
            BY <3>2, <3>3, <3>4
    <2>6. QED
        BY <2>1, <2>2, <2>4, <2>5 DEF TimesKept
<1>6. QED
    BY <1>1, <1>2, <1>3, <1>4, <1>5, StepOfDevice DEF device, DP!Toggle

\* A hold is reported, and repeated, when its time has passed and no earlier, for all
\* times, buttons, capacities and clients: the clock that timer, readers and waiters
\* share is restarted by every poll, and each key adds up what its polls are told
\* (KeypadController.c:61-67, KeypadDeviceImplLib.c:100-153).
THEOREM HoldsTakeTheirTime == InputSpec => HoldsAreTimed
<1> DEFINE Timed ==
       \A k \in KeyIds :
          /\ report' # report /\ report'.from = k
          /\ ctx[k].State = "PRESSED" /\ ctx'[k].State = "PRESSED"
          => age[k] >= IF ctx[k].Longpress THEN RepeatTime ELSE LongpressTime
<1>1. JointInv /\ TimesKept /\ [InputNext]_inputVars => [Timed]_inputVars
    <2> SUFFICES ASSUME JointInv, TimesKept, [InputNext]_inputVars
                 PROVE  Timed
        OBVIOUS
    <2> SUFFICES ASSUME NEW k \in KeyIds,
                        report' # report, report'.from = k,
                        ctx[k].State = "PRESSED", ctx'[k].State = "PRESSED"
                 PROVE  age[k] >= IF ctx[k].Longpress THEN RepeatTime ELSE LongpressTime
        BY Zenon
    <2>0. k \in DP!KeyIds
        BY SameSets DEF KeyIds
    <2>1. k # "none" /\ k # "reset"
        BY <2>0 DEF DP!KeyIds
    <2>2. PollsKey
        <3>1. report' # DP!Silent /\ report' # DP!Cancelled
            BY <2>1 DEF DP!Silent, DP!Cancelled
        <3>2. ~DP!EnterGetKeys(elapsed) /\ ~DP!ResetKeys
            BY <3>1 DEF DP!EnterGetKeys, DP!ResetKeys
        <3>3. \A j \in DP!KeyIds : ~DP!Toggle(j)
            BY <3>1 DEF DP!Toggle
        <3>4. ~UNCHANGED device
            BY DEF device
        <3>5. QED
            BY <3>2, <3>3, <3>4, StepOfDevice
    <2>3. PICK j \in DP!KeyIds :
              /\ pos = Turn(j)
              /\ \A i \in DP!KeyIds \ {j} : report'.from # i
              /\ \/ report'.from # j
                 \/ DP!LibKeyUpdateKeyStatus(j, button[j]) /\ button[j] \in BOOLEAN
        BY <2>2, PollTimes DEF PollsKey
    <2>4. j = k /\ DP!LibKeyUpdateKeyStatus(k, button[k]) /\ button[k] \in BOOLEAN
        BY <2>0, <2>3
    <2>5. /\ DP!CountsTime(ctx[k])
          /\ DP!Elapsed(k) >= IF ctx[k].Longpress THEN RepeatTime ELSE LongpressTime
        BY <2>0, <2>4, DeviceTimes, DP!UpdateReportsInTime DEF JointInv, DP!KInv
    <2>6. Earlier(TimeCap, WillCount(k)) <= age[k] /\ age[k] \in 0 .. TimeCap
        BY <2>0, <2>5, SameSets DEF TimesKept, Clocks, KeyIds
    <2>7. Told(k) = delta
        BY <2>0, <2>3, <2>4, TurnsAreKeyList DEF Told
    <2>8. DP!Elapsed(k) <= Earlier(TimeCap, WillCount(k)) /\ DP!Elapsed(k) \in 0 .. TimeCap
        BY <2>0, <2>7, TimeTypes DEF DP!Elapsed, Earlier, WillCount
    <2>9. RepeatTime \in Nat /\ LongpressTime \in Nat /\ WillCount(k) \in Nat /\ TimeCap \in Nat
        BY <2>0, TimeCapAssumption, TimeTypes
    <2>10. Earlier(TimeCap, WillCount(k)) \in Nat
        BY <2>9 DEF Earlier
    <2>11. QED
        BY <2>5, <2>6, <2>8, <2>9, <2>10
<1>2. QED
    BY <1>1, InitJointInv, StepJointInv, InitTimesKept, StepTimesKept, PTL
       DEF InputSpec, HoldsAreTimed

\* Types and bounds of driver, device and clock, for all times, buttons, capacities
\* and clients (Keypad.c:137-177, KeypadController.c:61-67).
THEOREM InputTypesHold == InputSpec => []InputTypeOK
<1> DEFINE Rest == installed \in BOOLEAN
<1>1. InputInit => Rest
    BY DEF InputInit
<1>2. Rest /\ [InputNext]_inputVars => Rest'
    BY DEF InputNext, inputVars, TimePasses, TimerSignals, CallbackStarts, UserToggles,
       CallPolls, PollsKey, PollEnds, DriverResets, ClientSetsState, ClientChangesList,
       HandlerStep
<1>3. InputSpec => []TypeOK
    BY InputImplementsDriver, TypeCorrect, PTL DEF ImplementsDriver
<1>4. JointInv => Device!TypeOK
    BY SameTypes DEF JointInv, DP!KInv, DP!IInv
<1>5. TypeOK /\ Rest /\ JointInv /\ TimesKept => InputTypeOK
    BY <1>4 DEF InputTypeOK, JointInv, TimesKept
<1>6. InputSpec => []JointInv /\ []TimesKept /\ []Rest
    BY <1>1, <1>2, InitJointInv, StepJointInv, InitTimesKept, StepTimesKept, PTL
       DEF InputSpec
<1>7. QED
    BY <1>3, <1>5, <1>6, PTL

=============================================================================
