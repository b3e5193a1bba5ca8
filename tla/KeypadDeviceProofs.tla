------------------------- MODULE KeypadDeviceProofs -------------------------
(***************************************************************************)
(* Proofs about the key state machine for all times, deltas and caps.      *)
(***************************************************************************)
EXTENDS KeypadDevice, TLAPS

States == {"RELEASED", "PRESSED", "LONGPRESS_RELEASE"}
Contexts == [KeyData : KeyDatas, Time : 0 .. TimeCap, State : States,
             Repeat : BOOLEAN, Longpress : BOOLEAN]

\* What a context may be: the flags belong to a press.
Proper(c) ==
    /\ c \in Contexts
    /\ c.Repeat => c.Longpress
    /\ c.Longpress => c.State = "PRESSED"

\* The invariant: types, proper contexts, and IsPressed clear when the first
\* key of KeyList is sampled, which is the only GPIO key and relies on it.
IInv ==
    /\ TypeOK
    /\ \A k \in KeyIds : Proper(ctx[k])
    /\ pos = 1 => ~isPressed

LEMMA ContextIsProper ==
    ASSUME NEW kd \in KeyDatas
    PROVE  Proper(Context(kd)) /\ Context(kd).KeyData = kd
BY TimesAssumption DEF Proper, Contexts, Context, States

LEMMA ElapsedInRange ==
    ASSUME TypeOK, NEW k \in KeyIds
    PROVE  Elapsed(k) \in 0 .. TimeCap
BY TimesAssumption DEF TypeOK, Elapsed

\* Every branch of LibKeyUpdateKeyStatus leaves a proper context and a report
\* of the key itself or none.
LEMMA UpdateIsProper ==
    ASSUME IInv, NEW k \in KeyIds, NEW pressed \in BOOLEAN,
           LibKeyUpdateKeyStatus(k, pressed)
    PROVE  /\ \E c : ctx' = [ctx EXCEPT ![k] = c] /\ Proper(c)
           /\ report' \in Reports
           /\ held' \subseteq KeyDatas \ {NullKey}
<1>1. ctx \in [KeyIds -> Contexts] /\ Proper(ctx[k]) /\ held \subseteq KeyDatas \ {NullKey}
    BY DEF IInv, TypeOK, Contexts, States
<1>2. Elapsed(k) \in 0 .. TimeCap /\ 0 \in 0 .. TimeCap
    BY ElapsedInRange, TimesAssumption DEF IInv
<1>3. ctx[k].KeyData \in KeyDatas
    BY <1>1 DEF Contexts
<1>4. held' \subseteq KeyDatas \ {NullKey}
    BY <1>1, <1>3 DEF LibKeyUpdateKeyStatus, KeySetState
<1>5. NoPush => report' \in Reports
    BY DEF NoPush, Reports
<1>6. \A key \in KeyDatas \cup Combos : Push(k, key) => report' \in Reports
    BY DEF Push, Reports
<1>7. "s" \in Combos /\ "e" \in Combos /\ " " \in Combos
    BY DEF Combos
<1> DEFINE NewContext(c) == ctx' = [ctx EXCEPT ![k] = c] /\ Proper(c)
           Result == (\E c : NewContext(c)) /\ report' \in Reports
           Timed == [ctx[k] EXCEPT !.Time = Elapsed(k)]
           Repeating == [ctx[k] EXCEPT !.Time = 0, !.Repeat = TRUE]
           Starting == [ctx[k] EXCEPT !.Time = 0, !.Repeat = TRUE, !.Longpress = TRUE]
           Longpressed == [ctx[k] EXCEPT !.Time = Elapsed(k), !.Longpress = TRUE]
           Pressed == [ctx[k] EXCEPT !.Time = 0, !.State = "PRESSED"]
           Tapped == [ctx[k] EXCEPT !.Time = Elapsed(k), !.State = "LONGPRESS_RELEASE"]
<1>8. CASE KeyPressed(k, pressed)
    <2>1. NewContext(Pressed)
        BY <1>1, <1>2, <1>8 DEF KeyPressed, Becomes, In, Proper, Contexts, States
    <2>2. QED
        BY <1>4, <1>5, <1>8, <2>1 DEF KeyPressed
<1>9. CASE KeyRepeats(k, pressed)
    <2>1. NewContext(Repeating)
        BY <1>1, <1>2, <1>9
           DEF KeyRepeats, RepeatDue, Becomes, In, Proper, Contexts, States
    <2>2. QED
        BY <1>3, <1>4, <1>6, <1>9, <2>1 DEF KeyRepeats
<1>10. CASE PowerLongpress(k, pressed)
    <2>1. NewContext(Longpressed)
        BY <1>1, <1>2, <1>10 DEF PowerLongpress, Becomes, In, Proper, Contexts, States
    <2>2. QED
        BY <1>4, <1>6, <1>7, <1>10, <2>1 DEF PowerLongpress
<1>11. CASE VolumeLongpress(k, pressed)
    <2>1. NewContext(Starting) \/ NewContext(Longpressed)
        BY <1>1, <1>2, <1>11 DEF VolumeLongpress, Becomes, In, Proper, Contexts, States
    <2>2. report' \in Reports
        BY <1>3, <1>5, <1>6, <1>11 DEF VolumeLongpress
    <2>3. QED
        BY <1>4, <2>1, <2>2
<1>12. CASE KeyTapped(k, pressed)
    <2>1. NewContext(Tapped)
        BY <1>1, <1>2, <1>12 DEF KeyTapped, Becomes, In, Proper, Contexts, States
    <2>2. QED
        BY <1>3, <1>4, <1>6, <1>12, <2>1 DEF KeyTapped
<1>13. CASE KeyReleased(k, pressed)
    <2>1. NewContext(Context(ctx[k].KeyData))
        BY <1>3, <1>13, ContextIsProper DEF KeyReleased, Becomes
    <2>2. QED
        BY <1>4, <1>5, <1>13, <2>1 DEF KeyReleased
<1>14. CASE KeyWaits(k, pressed)
    <2>1. NewContext(Timed)
        BY <1>1, <1>2, <1>14 DEF KeyWaits, Becomes, Proper, Contexts
    <2>2. QED
        BY <1>4, <1>5, <1>14, <2>1 DEF KeyWaits
<1>15. QED
    BY <1>8, <1>9, <1>10, <1>11, <1>12, <1>13, <1>14 DEF LibKeyUpdateKeyStatus

LEMMA KeyListIsKeyIds ==
    /\ Len(KeyList) = 3
    /\ \A i \in 1 .. 3 : KeyList[i] \in KeyIds
    /\ \A i \in 1 .. 3 : DeviceType(KeyList[i]) = "LEGACY" => i = 1
BY DEF KeyList, KeyIds, DeviceType

LEMMA InitIInv == Init => IInv
<1> SUFFICES ASSUME Init PROVE IInv
    OBVIOUS
<1>1. \A k \in KeyIds : Proper(ctx[k]) /\ ctx[k] \in Contexts
    BY ContextIsProper DEF Init, KeyDatas, NullKey, Proper
<1>2. ctx \in [KeyIds -> Contexts]
    BY <1>1 DEF Init
<1>3. valid \subseteq KeyIds
    BY DEF Init, KeyIds
<1>4. Silent \in Reports
    BY DEF Reports
<1>5. pos \in 0 .. Len(KeyList)
    BY KeyListIsKeyIds DEF Init
<1>16. isPressed \in BOOLEAN
    BY DEF Init
<1>17. delta \in Deltas \cup {0}
    BY DEF Init
<1>6. button \in [KeyIds -> BOOLEAN] /\ held \subseteq KeyDatas \ {NullKey}
    BY DEF Init
<1>7. TypeOK
    BY <1>2, <1>3, <1>4, <1>5, <1>6, <1>16, <1>17 DEF Init, TypeOK, Contexts, States
<1>8. QED
    BY <1>1, <1>7 DEF IInv, Init

LEMMA KeyDataOfKey == \A k \in KeyIds : KeyDataOf(k) \in KeyDatas
BY DEF KeyIds, KeyDataOf, KeyDatas

LEMMA StepIInv == IInv /\ [Next]_vars => IInv'
<1> SUFFICES ASSUME IInv, [Next]_vars
             PROVE  IInv'
    OBVIOUS
<1>0. Silent \in Reports /\ Cancelled \in Reports
    BY DEF Reports
<1>1. ASSUME NEW k \in KeyIds, Toggle(k)
      PROVE  IInv'
    BY <1>0, <1>1 DEF Toggle, IInv, TypeOK
<1>2. CASE Reset
    <2>1. \A k \in KeyIds : Proper(Context(KeyDataOf(k)))
        BY ContextIsProper, KeyDataOfKey
    <2>2. (\A k \in KeyIds : Proper(ctx'[k])) /\ ctx' \in [KeyIds -> Contexts]
        BY <1>2, <2>1 DEF Reset, ResetKeys, Proper
    <2>3. QED
        BY <1>0, <1>2, <2>2 DEF Reset, ResetKeys, IInv, TypeOK, Contexts, States
<1>3. ASSUME NEW d \in Deltas, GetKeys(d)
      PROVE  IInv'
    <2>1. pos' \in 0 .. Len(KeyList) /\ ~isPressed' /\ delta' \in Deltas
        BY <1>3, KeyListIsKeyIds DEF GetKeys, EnterGetKeys
    <2>2. TypeOK'
        BY <1>0, <1>3, <2>1 DEF GetKeys, EnterGetKeys, IInv, TypeOK
    <2>3. QED
        BY <1>3, <2>1, <2>2 DEF GetKeys, EnterGetKeys, IInv
<1>4. CASE PollKey
    <2>1. pos \in 1 .. 3 /\ pos' \in 0 .. 3 /\ pos' # 1
        BY <1>4, KeyListIsKeyIds DEF PollKey, NextPos, IInv, TypeOK
    <2>2. KeyList[pos] \in KeyIds
        BY <2>1, KeyListIsKeyIds
    <2>3. CASE KeyList[pos] \in valid
        <3>1. isPressed' = Sampled(KeyList[pos]) /\ isPressed' \in BOOLEAN
            BY <1>4, <2>2, <2>3 DEF PollKey, Sampled, IInv, TypeOK
        <3>2. LibKeyUpdateKeyStatus(KeyList[pos], isPressed')
            BY <1>4, <2>3 DEF PollKey
        <3>3. PICK c : ctx' = [ctx EXCEPT ![KeyList[pos]] = c] /\ Proper(c)
            BY <2>2, <3>1, <3>2, UpdateIsProper
        <3>4. report' \in Reports /\ held' \subseteq KeyDatas \ {NullKey}
            BY <2>2, <3>1, <3>2, UpdateIsProper
        <3>5. ctx \in [KeyIds -> Contexts] /\ c \in Contexts
            BY <3>3 DEF IInv, TypeOK, Contexts, States, Proper
        <3>6. ctx' \in [KeyIds -> Contexts] /\ \A k \in KeyIds : Proper(ctx'[k])
            BY <2>2, <3>3, <3>5 DEF IInv
        <3>7. QED
            BY <1>4, <2>1, <3>1, <3>4, <3>6, KeyListIsKeyIds
               DEF PollKey, IInv, TypeOK, Contexts, States
    <2>4. CASE KeyList[pos] \notin valid
        BY <1>0, <1>4, <2>1, <2>4, KeyListIsKeyIds DEF PollKey, NoPush, IInv, TypeOK
    <2>5. QED
        BY <2>3, <2>4
<1>5. CASE UNCHANGED vars
    BY <1>5 DEF vars, IInv, TypeOK
<1>6. QED
    BY <1>1, <1>2, <1>3, <1>4, <1>5 DEF Next

\* The contexts, bitmaps and reports stay in their ranges for all times and
\* deltas (KeypadDeviceImplLib.c:82-185).
THEOREM TypeCorrect == Spec => []TypeOK
<1>1. IInv => TypeOK
    BY DEF IInv
<1>2. QED
    BY <1>1, InitIInv, StepIInv, PTL DEF Spec

\* The repeat flag lives inside a long press and the long press inside a press,
\* for all times and deltas (KeypadDeviceImplLib.c:112-178).
THEOREM FlagsCorrect == Spec => []FlagsFollowState
<1>1. IInv => FlagsFollowState
    BY DEF IInv, Proper, FlagsFollowState
<1>2. QED
    BY <1>1, InitIInv, StepIInv, PTL DEF Spec

\* A key leaves RELEASED for PRESSED only on a pressed sample.
LEMMA UpdateNeedsPress ==
    ASSUME IInv, NEW k \in KeyIds, NEW pressed \in BOOLEAN,
           LibKeyUpdateKeyStatus(k, pressed),
           ctx[k].State = "RELEASED", ctx'[k].State = "PRESSED"
    PROVE  pressed
<1>1. ctx \in [KeyIds -> Contexts]
    BY DEF IInv, TypeOK, Contexts, States
<1>2. KeyPressed(k, pressed) => pressed
    BY DEF KeyPressed
<1>3. ~KeyWaits(k, pressed)
    BY <1>1 DEF KeyWaits, Becomes, In, Contexts
<1>4. QED
    BY <1>2, <1>3 DEF LibKeyUpdateKeyStatus, KeyRepeats, PowerLongpress,
       VolumeLongpress, KeyTapped, KeyReleased, In

\* No key is pressed by another key's button, for all times and deltas: the
\* GPIO key that could inherit IsPressed is the first to be sampled
\* (KeypadDeviceImplLib.c:287-308).
THEOREM OwnButton == Spec => OwnButtonOnly
<1> DEFINE Own1 == \A k \in KeyIds :
              ctx[k].State = "RELEASED" /\ ctx'[k].State = "PRESSED" => button[k]
<1>1. IInv /\ [Next]_vars => [Own1]_vars
    <2> SUFFICES ASSUME IInv, Next, NEW k \in KeyIds,
                        ctx[k].State = "RELEASED", ctx'[k].State = "PRESSED"
                 PROVE  button[k]
        OBVIOUS
    <2>1. \A j \in KeyIds : ~Toggle(j)
        BY DEF Toggle
    <2>2. ~Reset
        BY DEF Reset, ResetKeys, Context
    <2>3. \A d \in Deltas : ~GetKeys(d)
        BY DEF GetKeys, EnterGetKeys
    <2>4. PollKey
        BY <2>1, <2>2, <2>3 DEF Next
    <2>5. pos \in 1 .. 3 /\ KeyList[pos] \in KeyIds /\ KeyList[pos] \in valid
        BY <2>4, KeyListIsKeyIds DEF PollKey, IInv, TypeOK
    <2>6. isPressed' = Sampled(KeyList[pos]) /\ LibKeyUpdateKeyStatus(KeyList[pos], isPressed')
        BY <2>4, <2>5 DEF PollKey
    <2>7. isPressed' \in BOOLEAN
        BY <2>5, <2>6 DEF Sampled, IInv, TypeOK
    <2>8. PICK c : ctx' = [ctx EXCEPT ![KeyList[pos]] = c]
        BY <2>5, <2>6, <2>7, UpdateIsProper
    <2>9. k = KeyList[pos]
        BY <2>5, <2>8 DEF IInv, TypeOK
    <2>10. Sampled(k)
        BY <2>6, <2>7, <2>9, UpdateNeedsPress
    <2>11. DeviceType(k) = "LEGACY" => ~isPressed
        BY <2>5, <2>9, KeyListIsKeyIds DEF IInv
    <2>12. QED
        BY <2>10, <2>11 DEF Sampled
<1>2. QED
    BY <1>1, InitIInv, StepIInv, PTL DEF Spec, OwnButtonOnly
-----------------------------------------------------------------------------
(* The bits and the key data, on which combinations and gestures rely.       *)

\* A key has its own data or, before the first reset, none, and all have it once
\* the power key has.  A key that is not valid never has its bit set, nor has the
\* power key before it has its data, nor does it repeat with it.
DataIsOwn ==
    /\ \A k \in KeyIds : ctx[k].KeyData \in Own(k)
    /\ IsPower("Power") => \A k \in KeyIds : ctx[k].KeyData = KeyDataOf(k)
    /\ IsPower("Power") => ~ctx["Power"].Repeat
    /\ "CHAR_CARRIAGE_RETURN" \in held => IsPower("Power")
    /\ \A k \in KeyIds : KeyDataOf(k) \in held => k \in valid

\* Once a poll is past a volume key, that key's bit is what it saw.
BitIsCurrent(k) ==
    ctx[k].KeyData = KeyDataOf(k) => (KeyDataOf(k) \in held <=> VolumeSeen(k))
BitsAreCurrent ==
    /\ pos \in {2, 3} => BitIsCurrent("VolumeDown")
    /\ pos = 3 => BitIsCurrent("VolumeUp")

KInv == IInv /\ DataIsOwn /\ BitsAreCurrent

LEMMA KeyFacts ==
    /\ KeyIds = {"VolumeDown", "VolumeUp", "Power"}
    /\ KeyDataOf("VolumeDown") = "SCAN_DOWN" /\ KeyDataOf("VolumeUp") = "SCAN_UP"
    /\ KeyDataOf("Power") = "CHAR_CARRIAGE_RETURN" /\ NullKey = "NULL"
    /\ KeyList[1] = "VolumeDown" /\ KeyList[2] = "VolumeUp" /\ KeyList[3] = "Power"
    /\ \A k \in KeyIds : Own(k) = {KeyDataOf(k), "NULL"}
BY DEF KeyIds, KeyDataOf, NullKey, KeyList, Own

\* What a poll's turn of a key is: nothing when the key is not valid, and
\* otherwise an update with the state of the key's own button.
LEMMA PollIsUpdate ==
    ASSUME IInv, PollKey
    PROVE  /\ pos \in 1 .. 3 /\ KeyList[pos] \in KeyIds
           /\ \/ /\ KeyList[pos] \in valid
                 /\ LibKeyUpdateKeyStatus(KeyList[pos], button[KeyList[pos]])
              \/ /\ KeyList[pos] \notin valid
                 /\ NoPush /\ UNCHANGED <<ctx, held>>
           /\ pos' = IF pos = 3 THEN 0 ELSE pos + 1
           /\ UNCHANGED <<button, valid>>
<1>1. pos \in 1 .. 3 /\ KeyList[pos] \in KeyIds /\ Len(KeyList) = 3
    BY KeyListIsKeyIds DEF PollKey, IInv, TypeOK
<1>2. Sampled(KeyList[pos]) = button[KeyList[pos]]
    BY <1>1, KeyListIsKeyIds DEF Sampled, IInv, TypeOK
<1>3. QED
    BY <1>1, <1>2 DEF PollKey, NextPos

\* An update changes the context of its key and no other, keeps that context's
\* data, and only repeats with data that is not the power key's.
LEMMA UpdateKeepsData ==
    ASSUME KInv, NEW k \in KeyIds, NEW pressed \in BOOLEAN,
           LibKeyUpdateKeyStatus(k, pressed)
    PROVE  /\ \A j \in KeyIds : ctx'[j].KeyData = ctx[j].KeyData
           /\ \A j \in KeyIds : j # k => ctx'[j] = ctx[j]
           /\ IsPower(k) /\ ~ctx[k].Repeat => ~ctx'[k].Repeat
           /\ held' = KeySetState(ctx[k].KeyData, pressed)
<1>1. ctx \in [KeyIds -> Contexts] /\ DOMAIN ctx = KeyIds
    BY DEF KInv, IInv, TypeOK, Contexts, States
<1>2. \A c : Becomes(k, c) => /\ ctx'[k] = c
                              /\ \A j \in KeyIds : j # k => ctx'[j] = ctx[j]
    BY <1>1 DEF Becomes
<1>3. \A j \in KeyIds : j # k => ctx'[j] = ctx[j]
    BY <1>2 DEF LibKeyUpdateKeyStatus, KeyPressed, KeyRepeats, PowerLongpress,
       VolumeLongpress, KeyTapped, KeyReleased, KeyWaits
<1> DEFINE Keeps(c) == /\ Becomes(k, c) /\ c.KeyData = ctx[k].KeyData
                       /\ IsPower(k) /\ ~ctx[k].Repeat => ~c.Repeat
<1>4. \E c : Keeps(c)
    <2>1. CASE KeyPressed(k, pressed)
        <3>1. Keeps([ctx[k] EXCEPT !.Time = 0, !.State = "PRESSED"])
            BY <1>1, <2>1 DEF KeyPressed, Contexts
        <3>2. QED BY <3>1
    <2>2. CASE KeyRepeats(k, pressed)
        <3>1. Keeps([ctx[k] EXCEPT !.Time = 0, !.Repeat = TRUE])
            BY <1>1, <2>2 DEF KeyRepeats, RepeatDue, Contexts
        <3>2. QED BY <3>1
    <2>3. CASE PowerLongpress(k, pressed)
        <3>1. Keeps([ctx[k] EXCEPT !.Time = Elapsed(k), !.Longpress = TRUE])
            BY <1>1, <2>3 DEF PowerLongpress, Contexts
        <3>2. QED BY <3>1
    <2>4. CASE VolumeLongpress(k, pressed)
        <3>1. \/ Keeps([ctx[k] EXCEPT !.Time = 0, !.Repeat = TRUE, !.Longpress = TRUE])
              \/ Keeps([ctx[k] EXCEPT !.Time = Elapsed(k), !.Longpress = TRUE])
            BY <1>1, <2>4 DEF VolumeLongpress, Contexts
        <3>2. QED BY <3>1
    <2>5. CASE KeyTapped(k, pressed)
        <3>1. Keeps([ctx[k] EXCEPT !.Time = Elapsed(k), !.State = "LONGPRESS_RELEASE"])
            BY <1>1, <2>5 DEF KeyTapped, Contexts
        <3>2. QED BY <3>1
    <2>6. CASE KeyReleased(k, pressed)
        <3>1. Keeps(Context(ctx[k].KeyData))
            BY <2>6 DEF KeyReleased, Context
        <3>2. QED BY <3>1
    <2>7. CASE KeyWaits(k, pressed)
        <3>1. Keeps([ctx[k] EXCEPT !.Time = Elapsed(k)])
            BY <1>1, <2>7 DEF KeyWaits, Contexts
        <3>2. QED BY <3>1
    <2>8. QED
        BY <2>1, <2>2, <2>3, <2>4, <2>5, <2>6, <2>7 DEF LibKeyUpdateKeyStatus
<1>5. /\ ctx'[k].KeyData = ctx[k].KeyData
      /\ IsPower(k) /\ ~ctx[k].Repeat => ~ctx'[k].Repeat
    BY <1>2, <1>4
<1>6. QED
    BY <1>3, <1>4, <1>5 DEF LibKeyUpdateKeyStatus

LEMMA InitKInv == Init => KInv
<1> SUFFICES ASSUME Init PROVE KInv
    OBVIOUS
<1>1. \A k \in KeyIds : ctx[k] = Context(NullKey) /\ ctx[k].KeyData = "NULL"
    BY DEF Init, Context, NullKey
<1>2. DataIsOwn
    BY <1>1, KeyFacts DEF DataIsOwn, IsPower, Init
<1>3. BitsAreCurrent
    BY DEF Init, BitsAreCurrent
<1>4. QED
    BY <1>2, <1>3, InitIInv DEF KInv

LEMMA StepKInv == KInv /\ [Next]_vars => KInv'
<1> SUFFICES ASSUME KInv, [Next]_vars
             PROVE  DataIsOwn' /\ BitsAreCurrent'
    BY StepIInv DEF KInv
<1>1. ASSUME NEW k \in KeyIds, Toggle(k)
      PROVE  DataIsOwn' /\ BitsAreCurrent'
    BY <1>1 DEF Toggle, KInv, DataIsOwn, BitsAreCurrent, IsPower
<1>2. CASE Reset
    <2>1. \A k \in KeyIds : ctx'[k].KeyData = KeyDataOf(k) /\ ~ctx'[k].Repeat
        BY <1>2 DEF Reset, ResetKeys, Context
    <2>2. DataIsOwn'
        BY <1>2, <2>1, KeyFacts DEF Reset, ResetKeys, KInv, DataIsOwn, IsPower
    <2>3. QED
        BY <1>2, <2>2 DEF Reset, ResetKeys, BitsAreCurrent
<1>3. ASSUME NEW d \in Deltas, GetKeys(d)
      PROVE  DataIsOwn' /\ BitsAreCurrent'
    BY <1>3 DEF GetKeys, EnterGetKeys, KInv, DataIsOwn, BitsAreCurrent, IsPower
<1>4. CASE PollKey
    <2> DEFINE k == KeyList[pos]
    <2>1. /\ pos \in 1 .. 3 /\ k \in KeyIds
          /\ pos' = IF pos = 3 THEN 0 ELSE pos + 1
          /\ UNCHANGED <<button, valid>>
        BY <1>4, PollIsUpdate DEF KInv
    <2>2. button \in [KeyIds -> BOOLEAN]
        BY DEF KInv, IInv, TypeOK
    <2>3. CASE k \in valid /\ LibKeyUpdateKeyStatus(k, button[k])
        <3>1. /\ \A j \in KeyIds : ctx'[j].KeyData = ctx[j].KeyData
              /\ \A j \in KeyIds : j # k => ctx'[j] = ctx[j]
              /\ IsPower(k) /\ ~ctx[k].Repeat => ~ctx'[k].Repeat
              /\ held' = KeySetState(ctx[k].KeyData, button[k])
            BY <2>1, <2>2, <2>3, UpdateKeepsData
        <3>2. ctx[k].KeyData \in {KeyDataOf(k), "NULL"}
            BY <2>1, KeyFacts DEF KInv, DataIsOwn
        <3>3. held' = IF ctx[k].KeyData = "NULL" THEN held
                      ELSE IF button[k] THEN held \cup {KeyDataOf(k)} ELSE held \ {KeyDataOf(k)}
            BY <3>1, <3>2, KeyFacts DEF KeySetState
        <3>4. DataIsOwn'
            BY <2>1, <2>3, <3>1, <3>3, KeyFacts DEF KInv, DataIsOwn, IsPower
        <3>5. BitsAreCurrent'
            BY <2>1, <2>2, <2>3, <3>1, <3>3, KeyFacts
               DEF KInv, BitsAreCurrent, BitIsCurrent, VolumeSeen
        <3>6. QED
            BY <3>4, <3>5
    <2>4. CASE k \notin valid /\ UNCHANGED <<ctx, held>>
        <3>1. DataIsOwn'
            BY <2>1, <2>4 DEF KInv, DataIsOwn, IsPower
        <3>2. KeyDataOf(k) \notin held
            BY <2>1, <2>4 DEF KInv, DataIsOwn
        <3>3. BitsAreCurrent'
            BY <2>1, <2>4, <3>2, KeyFacts
               DEF KInv, BitsAreCurrent, BitIsCurrent, VolumeSeen
        <3>4. QED
            BY <3>1, <3>3
    <2>5. QED
        BY <1>4, <2>3, <2>4, PollIsUpdate DEF KInv
<1>5. CASE UNCHANGED vars
    BY <1>5 DEF vars, KInv, DataIsOwn, BitsAreCurrent, BitIsCurrent, VolumeSeen, IsPower
<1>6. QED
    BY <1>1, <1>2, <1>3, <1>4, <1>5 DEF Next

\* What an update reports, by the branch it takes: a combination comes only from
\* the power key, and says how the bits of the volume keys are.
LEMMA UpdateReports ==
    ASSUME KInv, NEW k \in KeyIds, NEW pressed \in BOOLEAN,
           LibKeyUpdateKeyStatus(k, pressed), report'.key \in Combos
    PROVE  /\ k = "Power" /\ IsPower("Power")
           /\ report'.key = "s" => "SCAN_DOWN" \in held
           /\ report'.key = "e" => "SCAN_DOWN" \notin held /\ "SCAN_UP" \in held
           /\ report'.key = " " => "SCAN_DOWN" \notin held /\ "SCAN_UP" \notin held
<1>1. ctx[k].KeyData \notin Combos /\ Silent.key \notin Combos
    BY DEF KInv, IInv, TypeOK, KeyDatas, Combos, NullKey, Silent
<1>2. PowerLongpress(k, pressed)
    BY <1>1 DEF LibKeyUpdateKeyStatus, KeyPressed, KeyRepeats, VolumeLongpress, KeyTapped,
       KeyReleased, KeyWaits, Push, NoPush
<1>3. k = "Power" /\ IsPower("Power")
    BY <1>2, KeyFacts DEF PowerLongpress, IsPower, KInv, DataIsOwn
<1>4. \A bit \in {"SCAN_DOWN", "SCAN_UP"} : KeyGetState(bit) <=> bit \in held
    BY <1>3 DEF LibKeyUpdateKeyStatus, KeySetState, KeyGetState, IsPower, NullKey
<1>5. \/ KeyGetState("SCAN_DOWN") /\ Push(k, "s")
      \/ ~KeyGetState("SCAN_DOWN") /\ KeyGetState("SCAN_UP") /\ Push(k, "e")
      \/ ~KeyGetState("SCAN_DOWN") /\ ~KeyGetState("SCAN_UP") /\ Push(k, " ")
    BY <1>2 DEF PowerLongpress
<1>6. \A key : Push(k, key) => report'.key = key
    BY DEF Push
<1>7. QED
    BY <1>3, <1>4, <1>5, <1>6

\* An update reports its own key or nothing, with the key's data or a combination.
LEMMA UpdateReportsOwn ==
    ASSUME NEW k \in KeyIds, NEW pressed \in BOOLEAN, LibKeyUpdateKeyStatus(k, pressed)
    PROVE  \/ report' = Silent
           \/ /\ report'.from = k
              /\ report'.key \in {ctx[k].KeyData} \cup Combos
<1>1. \A key : Push(k, key) => report'.from = k /\ report'.key = key
    BY DEF Push
<1>2. {"s", "e", " "} \subseteq Combos
    BY DEF Combos
<1>3. QED
    BY <1>1, <1>2 DEF LibKeyUpdateKeyStatus, KeyPressed, KeyRepeats, PowerLongpress,
       VolumeLongpress, KeyTapped, KeyReleased, KeyWaits, NoPush

\* A key counts its time towards a hold or a repeat.
CountsTime(c) == c.State = "PRESSED" /\ (~c.Longpress \/ c.Repeat)

\* While a key counts its time, an update either goes on with the count or starts
\* anew, at a press or a report.
LEMMA UpdateCountsTime ==
    ASSUME IInv, NEW k \in KeyIds, NEW pressed \in BOOLEAN,
           LibKeyUpdateKeyStatus(k, pressed), CountsTime(ctx'[k])
    PROVE  \/ /\ ctx'[k].Time = 0
              /\ report'.from = k \/ ctx[k].State = "RELEASED"
           \/ CountsTime(ctx[k]) /\ ctx'[k].Time = Elapsed(k) /\ report' = Silent
<1>1. ctx \in [KeyIds -> Contexts] /\ Proper(ctx[k]) /\ Elapsed(k) \in 0 .. TimeCap
    BY ElapsedInRange DEF IInv, TypeOK, Contexts, States
<1>2. \A c : Becomes(k, c) => ctx'[k] = c
    BY <1>1 DEF Becomes
<1>3. CASE KeyPressed(k, pressed)
    BY <1>1, <1>2, <1>3 DEF KeyPressed, In, Contexts
<1>4. CASE KeyRepeats(k, pressed)
    BY <1>1, <1>2, <1>4 DEF KeyRepeats, Push, Contexts
<1>5. CASE PowerLongpress(k, pressed)
    <2>1. ~ctx[k].Repeat
        BY <1>1, <1>5 DEF PowerLongpress, LongpressDue, Proper
    <2>2. ctx'[k] = [ctx[k] EXCEPT !.Time = Elapsed(k), !.Longpress = TRUE]
        BY <1>2, <1>5 DEF PowerLongpress
    <2>3. QED
        BY <1>1, <2>1, <2>2 DEF CountsTime, Contexts
<1>6. CASE VolumeLongpress(k, pressed)
    <2>1. ~ctx[k].Repeat
        BY <1>1, <1>6 DEF VolumeLongpress, LongpressDue, Proper
    <2>2. ctx'[k] # [ctx[k] EXCEPT !.Time = Elapsed(k), !.Longpress = TRUE]
        BY <1>1, <2>1 DEF CountsTime, Contexts
    <2>3. ctx'[k] = [ctx[k] EXCEPT !.Time = 0, !.Repeat = TRUE, !.Longpress = TRUE]
          /\ Push(k, ctx[k].KeyData)
        BY <1>2, <1>6, <2>2 DEF VolumeLongpress
    <2>4. QED
        BY <1>1, <2>3 DEF Push, Contexts
<1>7. ~KeyTapped(k, pressed)
    <2>1. [ctx[k] EXCEPT !.Time = Elapsed(k), !.State = "LONGPRESS_RELEASE"].State # "PRESSED"
        BY <1>1 DEF Contexts
    <2>2. QED
        BY <1>2, <2>1 DEF KeyTapped, CountsTime
<1>8. ~KeyReleased(k, pressed)
    BY <1>2 DEF KeyReleased, CountsTime, Context
<1>9. CASE KeyWaits(k, pressed)
    <2>1. ctx'[k] = [ctx[k] EXCEPT !.Time = Elapsed(k)] /\ report' = Silent
        BY <1>2, <1>9 DEF KeyWaits, NoPush
    <2>2. QED
        BY <1>1, <2>1 DEF CountsTime, Contexts
<1>10. QED
    BY <1>3, <1>4, <1>5, <1>6, <1>7, <1>8, <1>9 DEF LibKeyUpdateKeyStatus

\* What is reported of a key that stays pressed is reported when its time is up.
LEMMA UpdateReportsInTime ==
    ASSUME IInv, NEW k \in KeyIds, NEW pressed \in BOOLEAN,
           LibKeyUpdateKeyStatus(k, pressed), report'.from = k,
           ctx[k].State = "PRESSED", ctx'[k].State = "PRESSED"
    PROVE  /\ CountsTime(ctx[k])
           /\ Elapsed(k) >= IF ctx[k].Longpress THEN RepeatTime ELSE LongpressTime
<1>1. ctx \in [KeyIds -> Contexts] /\ Proper(ctx[k])
    BY DEF IInv, TypeOK, Contexts, States
<1>2. Silent.from # k
    BY DEF Silent, KeyIds
<1>3. ~NoPush
    BY <1>2 DEF NoPush
<1>4. ~KeyTapped(k, pressed)
    <2>1. [ctx[k] EXCEPT !.Time = Elapsed(k), !.State = "LONGPRESS_RELEASE"].State # "PRESSED"
        BY <1>1 DEF Contexts
    <2>2. QED
        BY <1>1, <2>1 DEF KeyTapped, Becomes
<1>5. CASE KeyRepeats(k, pressed)
    BY <1>1, <1>5 DEF KeyRepeats, RepeatDue, CountsTime, Proper
<1>6. CASE LongpressDue(k)
    BY <1>6 DEF LongpressDue, CountsTime
<1>7. QED
    BY <1>3, <1>4, <1>5, <1>6 DEF LibKeyUpdateKeyStatus, KeyPressed, PowerLongpress,
       VolumeLongpress, KeyReleased, KeyWaits

\* The combination that a long press of the power key reports is what the volume
\* buttons are in that poll, for all times and deltas: they are polled first, and
\* their bits follow them once the power key has its data
\* (KeypadDeviceImplLib.c:124-138,290).
THEOREM ComboCurrent == Spec => ComboIsCurrent
<1> DEFINE Current == LET key == report'.key IN
         /\ key = "s" => VolumeSeen("VolumeDown")
         /\ key = "e" => VolumeSeen("VolumeUp") /\ ~VolumeSeen("VolumeDown")
         /\ key = " " => ~VolumeSeen("VolumeUp") /\ ~VolumeSeen("VolumeDown")
<1>1. KInv /\ [Next]_vars => [Current]_vars
    <2> SUFFICES ASSUME KInv, Next, report'.key \in Combos
                 PROVE  Current
        BY DEF Combos
    <2>1. Silent.key \notin Combos /\ Cancelled.key \notin Combos
        BY DEF Silent, Cancelled, Combos
    <2>2. PollKey
        BY <2>1 DEF Next, Toggle, Reset, ResetKeys, GetKeys, EnterGetKeys
    <2>3. /\ pos \in 1 .. 3 /\ KeyList[pos] \in KeyIds
          /\ LibKeyUpdateKeyStatus(KeyList[pos], button[KeyList[pos]])
        BY <2>1, <2>2, PollIsUpdate DEF KInv, NoPush
    <2>4. button[KeyList[pos]] \in BOOLEAN
        BY <2>3 DEF KInv, IInv, TypeOK
    <2>5. /\ KeyList[pos] = "Power" /\ IsPower("Power")
          /\ report'.key = "s" => "SCAN_DOWN" \in held
          /\ report'.key = "e" => "SCAN_DOWN" \notin held /\ "SCAN_UP" \in held
          /\ report'.key = " " => "SCAN_DOWN" \notin held /\ "SCAN_UP" \notin held
        BY <2>3, <2>4, UpdateReports
    <2>6. pos = 3
        <3>1. pos # 1 /\ pos # 2
            BY <2>5, KeyFacts
        <3>2. QED
            BY <2>3, <3>1
    <2>7. /\ "SCAN_DOWN" \in held <=> VolumeSeen("VolumeDown")
          /\ "SCAN_UP" \in held <=> VolumeSeen("VolumeUp")
        BY <2>5, <2>6, KeyFacts DEF KInv, DataIsOwn, BitsAreCurrent, BitIsCurrent
    <2>8. QED
        BY <2>5, <2>7
<1>2. QED
    BY <1>1, InitKInv, StepKInv, PTL DEF Spec, ComboIsCurrent
-----------------------------------------------------------------------------
(* Each key is a KeyGesture.                                                 *)

\* The reports of holds and repeats of a key.
HoldsOf(k) == IF k = "Power" THEN Combos \cup {NullKey} ELSE Own(k) \cup {"silent"}
RepeatsOf(k) == IF k = "Power" THEN {NullKey} ELSE Own(k)

\* The moves of KeyGesture, in the terms of a key.
Moves(k, from, to, reports) ==
    /\ Phase(k) = from /\ Phase(k)' = to /\ ReportOf(k)' \in reports
    /\ button'[k] = button[k]
GestureMove(k) ==
    \/ /\ button'[k] = ~button[k] /\ Phase(k)' = Phase(k) /\ ReportOf(k)' = "silent"
    \/ button[k] /\ Moves(k, "idle", "held", {"silent"})
    \/ ~button[k] /\ Moves(k, "held", "answered", Own(k))
    \/ button[k] /\ Moves(k, "held", "holding", HoldsOf(k))
    \/ button[k] /\ Moves(k, "holding", "holding", RepeatsOf(k))
    \/ ~button[k] /\ Moves(k, "holding", "idle", {"silent"})
    \/ Moves(k, "answered", "idle", {"silent"})
    \/ Moves(k, Phase(k), Phase(k), {"silent"})
    \/ Moves(k, Phase(k), "idle", {"cancelled"})

\* An update moves its own key as one of the gesture's moves, and reports
\* nothing of another.
LEMMA UpdateMoves ==
    ASSUME KInv, NEW k \in KeyIds, LibKeyUpdateKeyStatus(k, button[k]),
           button' = button
    PROVE  /\ GestureMove(k)
           /\ \A j \in KeyIds : j # k => ReportOf(j)' = "silent"
<1>1. ctx \in [KeyIds -> Contexts] /\ Proper(ctx[k]) /\ button[k] \in BOOLEAN
    BY DEF KInv, IInv, TypeOK, Contexts, States
<1>2. \A c : Becomes(k, c) => ctx'[k] = c
    BY <1>1 DEF Becomes
<1>3. ctx[k].KeyData \in Own(k) /\ (IsPower(k) => k = "Power" /\ ~ctx[k].Repeat)
    BY KeyFacts DEF KInv, DataIsOwn, IsPower
<1>4. /\ NoPush => \A j \in KeyIds : ReportOf(j)' = "silent"
      /\ \A key : Push(k, key) => /\ ReportOf(k)' = key
                                  /\ \A j \in KeyIds : j # k => ReportOf(j)' = "silent"
    BY DEF ReportOf, NoPush, Push, Silent, Cancelled, KeyIds
<1>5. ctx[k].State \in {"RELEASED", "PRESSED", "LONGPRESS_RELEASE"}
    BY <1>1 DEF Contexts, States
<1>6. \A c : ctx'[k] = c /\ c.State \in States =>
         Phase(k)' = IF c.State = "RELEASED" THEN "idle"
                     ELSE IF c.State = "LONGPRESS_RELEASE" THEN "answered"
                     ELSE IF c.Longpress THEN "holding" ELSE "held"
    BY DEF Phase, In, States
<1>7. Phase(k) = IF ctx[k].State = "RELEASED" THEN "idle"
                 ELSE IF ctx[k].State = "LONGPRESS_RELEASE" THEN "answered"
                 ELSE IF ctx[k].Longpress THEN "holding" ELSE "held"
    BY <1>5 DEF Phase, In
<1>8. CASE KeyPressed(k, button[k])
    <2> DEFINE c == [ctx[k] EXCEPT !.Time = 0, !.State = "PRESSED"]
    <2>1. c.State = "PRESSED" /\ ~c.Longpress
        BY <1>1, <1>8 DEF KeyPressed, In, Proper, Contexts
    <2>2. ctx'[k] = c /\ ReportOf(k)' = "silent"
        BY <1>2, <1>4, <1>8 DEF KeyPressed
    <2> HIDE DEF c
    <2>3. Phase(k)' = "held"
        BY <1>6, <2>1, <2>2 DEF States
    <2>4. Moves(k, "idle", "held", {"silent"}) /\ button[k]
        BY <1>7, <1>8, <2>2, <2>3 DEF Moves, KeyPressed, In
    <2>5. QED
        BY <1>4, <1>8, <2>4 DEF GestureMove, KeyPressed
<1>9. CASE KeyRepeats(k, button[k])
    <2> DEFINE c == [ctx[k] EXCEPT !.Time = 0, !.Repeat = TRUE]
    <2>1. c.State = "PRESSED" /\ c.Longpress /\ ctx[k].Longpress /\ ctx[k].Repeat
        BY <1>1, <1>9 DEF KeyRepeats, RepeatDue, In, Proper, Contexts
    <2>2. ctx'[k] = c /\ ReportOf(k)' = ctx[k].KeyData
        BY <1>2, <1>4, <1>9 DEF KeyRepeats
    <2> HIDE DEF c
    <2>3. Phase(k)' = "holding"
        BY <1>6, <2>1, <2>2 DEF States
    <2>4. ctx[k].KeyData \in RepeatsOf(k)
        BY <1>3, <2>1, KeyFacts DEF RepeatsOf, IsPower
    <2>5. Moves(k, "holding", "holding", RepeatsOf(k)) /\ button[k]
        BY <1>7, <1>9, <2>1, <2>2, <2>3, <2>4 DEF Moves, KeyRepeats, In
    <2>6. QED
        BY <1>4, <1>9, <2>5 DEF GestureMove, KeyRepeats
<1>10. CASE PowerLongpress(k, button[k])
    <2> DEFINE c == [ctx[k] EXCEPT !.Time = Elapsed(k), !.Longpress = TRUE]
    <2>1. c.State = "PRESSED" /\ c.Longpress /\ ~ctx[k].Longpress
        BY <1>1, <1>10 DEF PowerLongpress, LongpressDue, In, Contexts
    <2>2. \E key \in Combos : Push(k, key)
        BY <1>10 DEF PowerLongpress, Combos
    <2>3. ctx'[k] = c /\ ReportOf(k)' \in HoldsOf(k)
        BY <1>2, <1>3, <1>4, <1>10, <2>2 DEF PowerLongpress, HoldsOf
    <2> HIDE DEF c
    <2>4. Phase(k)' = "holding"
        BY <1>6, <2>1, <2>3 DEF States
    <2>5. Moves(k, "held", "holding", HoldsOf(k)) /\ button[k]
        BY <1>7, <1>10, <2>1, <2>3, <2>4 DEF Moves, PowerLongpress, In
    <2>6. QED
        BY <1>4, <2>2, <2>5 DEF GestureMove
<1>11. CASE VolumeLongpress(k, button[k])
    <2> DEFINE starting == [ctx[k] EXCEPT !.Time = 0, !.Repeat = TRUE, !.Longpress = TRUE]
               waiting == [ctx[k] EXCEPT !.Time = Elapsed(k), !.Longpress = TRUE]
    <2>1. /\ starting.State = "PRESSED" /\ starting.Longpress
          /\ waiting.State = "PRESSED" /\ waiting.Longpress
          /\ ~ctx[k].Longpress
        BY <1>1, <1>11 DEF VolumeLongpress, LongpressDue, In, Contexts
    <2>2. \/ ~KeyGetState("CHAR_CARRIAGE_RETURN") /\ Push(k, ctx[k].KeyData)
             /\ Becomes(k, starting)
          \/ KeyGetState("CHAR_CARRIAGE_RETURN") /\ NoPush /\ Becomes(k, waiting)
        BY <1>11 DEF VolumeLongpress
    <2>3. KeyGetState("CHAR_CARRIAGE_RETURN") => k # "Power"
        <3>1. ~IsPower(k)
            BY <1>11 DEF VolumeLongpress
        <3>2. k = "Power" => "CHAR_CARRIAGE_RETURN" \notin held /\ ctx[k].KeyData = NullKey
            BY <1>3, <3>1, KeyFacts DEF KInv, DataIsOwn, IsPower
        <3>3. held' = KeySetState(ctx[k].KeyData, button[k])
            BY DEF LibKeyUpdateKeyStatus
        <3>4. QED
            BY <3>2, <3>3 DEF KeyGetState, KeySetState
    <2>4. \A j \in KeyIds : j # k => ReportOf(j)' = "silent"
        BY <1>4, <2>2
    <2>5. ReportOf(k)' \in HoldsOf(k)
        <3>1. CASE KeyGetState("CHAR_CARRIAGE_RETURN")
            BY <1>4, <2>2, <2>3, <3>1 DEF HoldsOf
        <3>2. CASE ~KeyGetState("CHAR_CARRIAGE_RETURN")
            <4>1. ReportOf(k)' = ctx[k].KeyData /\ ~IsPower(k)
                BY <1>4, <1>11, <2>2, <3>2 DEF VolumeLongpress
            <4>2. QED
                BY <1>3, <4>1, KeyFacts DEF HoldsOf, IsPower
        <3>3. QED
            BY <3>1, <3>2
    <2>6. ctx'[k] = starting \/ ctx'[k] = waiting
        BY <1>2, <2>2
    <2> HIDE DEF starting, waiting
    <2>7. Phase(k)' = "holding"
        BY <1>6, <2>1, <2>6 DEF States
    <2>8. Moves(k, "held", "holding", HoldsOf(k)) /\ button[k]
        BY <1>7, <1>11, <2>1, <2>5, <2>7 DEF Moves, VolumeLongpress, In
    <2>9. QED
        BY <2>4, <2>8 DEF GestureMove
<1>12. CASE KeyTapped(k, button[k])
    <2> DEFINE c == [ctx[k] EXCEPT !.Time = Elapsed(k), !.State = "LONGPRESS_RELEASE"]
    <2>1. c.State = "LONGPRESS_RELEASE"
        BY <1>1 DEF Contexts
    <2>2. ctx'[k] = c /\ ReportOf(k)' = ctx[k].KeyData
        BY <1>2, <1>4, <1>12 DEF KeyTapped
    <2> HIDE DEF c
    <2>3. Phase(k)' = "answered"
        BY <1>6, <2>1, <2>2 DEF States
    <2>4. Moves(k, "held", "answered", Own(k)) /\ ~button[k]
        BY <1>3, <1>7, <1>12, <2>2, <2>3 DEF Moves, KeyTapped, In
    <2>5. QED
        BY <1>4, <1>12, <2>4 DEF GestureMove, KeyTapped
<1>13. CASE KeyReleased(k, button[k])
    <2>1. ctx'[k] = Context(ctx[k].KeyData) /\ ReportOf(k)' = "silent"
        BY <1>2, <1>4, <1>13 DEF KeyReleased
    <2>2. Phase(k)' = "idle"
        BY <2>1 DEF Phase, In, Context
    <2>3. \/ Moves(k, "answered", "idle", {"silent"})
          \/ Moves(k, "holding", "idle", {"silent"}) /\ ~button[k]
        BY <1>7, <1>13, <2>1, <2>2 DEF Moves, KeyReleased, In
    <2>4. QED
        BY <1>4, <1>13, <2>3 DEF GestureMove, KeyReleased
<1>14. CASE KeyWaits(k, button[k])
    <2> DEFINE c == [ctx[k] EXCEPT !.Time = Elapsed(k)]
    <2>1. c.State = ctx[k].State /\ c.Longpress = ctx[k].Longpress
        BY <1>1 DEF Contexts
    <2>2. ctx'[k] = c /\ ReportOf(k)' = "silent"
        BY <1>2, <1>4, <1>14 DEF KeyWaits
    <2> HIDE DEF c
    <2>3. Phase(k)' = Phase(k)
        BY <1>5, <1>6, <1>7, <2>1, <2>2 DEF States
    <2>4. Moves(k, Phase(k), Phase(k), {"silent"})
        BY <2>2, <2>3 DEF Moves
    <2>5. QED
        BY <1>4, <1>14, <2>4 DEF GestureMove, KeyWaits
<1>15. QED
    BY <1>8, <1>9, <1>10, <1>11, <1>12, <1>13, <1>14 DEF LibKeyUpdateKeyStatus

\* Every step is a move of the gesture of every key.
LEMMA StepMoves ==
    ASSUME KInv, Next, NEW k \in KeyIds
    PROVE  GestureMove(k)
<1>1. ASSUME NEW j \in KeyIds, Toggle(j)
      PROVE  GestureMove(k)
    <2>1. Phase(k)' = Phase(k) /\ ReportOf(k)' = "silent"
        BY <1>1 DEF Toggle, Phase, In, ReportOf, Silent, Cancelled, KeyIds
    <2>2. button'[k] = button[k] \/ button'[k] = ~button[k]
        BY <1>1 DEF Toggle, KInv, IInv, TypeOK
    <2>3. QED
        BY <2>1, <2>2 DEF GestureMove, Moves
<1>2. CASE Reset
    <2>0. ctx'[k].State = "RELEASED"
        BY <1>2 DEF Reset, ResetKeys, Context
    <2>1. Phase(k)' = "idle"
        BY <2>0 DEF Phase, In
    <2>2. ReportOf(k)' = "cancelled"
        BY <1>2 DEF Reset, ResetKeys, ReportOf, Cancelled, KeyIds
    <2>3. QED
        BY <1>2, <2>1, <2>2 DEF GestureMove, Moves, Reset, ResetKeys
<1>3. ASSUME NEW d \in Deltas, GetKeys(d)
      PROVE  GestureMove(k)
    <2>1. Phase(k)' = Phase(k) /\ ReportOf(k)' = "silent"
        BY <1>3 DEF GetKeys, EnterGetKeys, Phase, In, ReportOf, Silent, Cancelled, KeyIds
    <2>2. QED
        BY <1>3, <2>1 DEF GestureMove, Moves, GetKeys, EnterGetKeys
<1>4. CASE PollKey
    <2> DEFINE j == KeyList[pos]
    <2>1. j \in KeyIds /\ UNCHANGED button
        BY <1>4, PollIsUpdate DEF KInv
    <2>2. CASE LibKeyUpdateKeyStatus(j, button[j])
        <3>1. GestureMove(j) /\ \A i \in KeyIds : i # j => ReportOf(i)' = "silent"
            BY <2>1, <2>2, UpdateMoves
        <3>2. k # j => Phase(k)' = Phase(k)
            <4>1. button[j] \in BOOLEAN
                BY <2>1 DEF KInv, IInv, TypeOK
            <4>2. k # j => ctx'[k] = ctx[k]
                BY <2>1, <2>2, <4>1, UpdateKeepsData
            <4>3. QED
                BY <4>2 DEF Phase, In
        <3>3. k # j => Moves(k, Phase(k), Phase(k), {"silent"})
            BY <2>1, <3>1, <3>2 DEF Moves
        <3>4. CASE k = j
            BY <3>1, <3>4
        <3>5. CASE k # j
            BY <3>3, <3>5 DEF GestureMove
        <3>6. QED
            BY <3>4, <3>5
    <2>3. CASE NoPush /\ UNCHANGED ctx
        <3>1. Phase(k)' = Phase(k) /\ ReportOf(k)' = "silent"
            BY <2>3 DEF Phase, In, NoPush, ReportOf, Silent, Cancelled, KeyIds
        <3>2. QED
            BY <2>1, <3>1 DEF GestureMove, Moves
    <2>4. QED
        BY <1>4, <2>2, <2>3, PollIsUpdate DEF KInv
<1>5. QED
    BY <1>1, <1>2, <1>3, <1>4 DEF Next

\* Every key answers each press once, by a tap or a hold but never both, repeats
\* only a hold, and is silent otherwise, for all times and deltas
\* (KeypadDeviceImplLib.c:91-185).
THEOREM GesturesImplemented == Spec => ImplementsKeyGesture
<1>1. Init => /\ VolumeDownGesture!GestureInit
              /\ VolumeUpGesture!GestureInit
              /\ PowerGesture!GestureInit
    BY KeyFacts DEF Init, VolumeDownGesture!GestureInit, VolumeUpGesture!GestureInit,
       PowerGesture!GestureInit, Phase, In, Context, ReportOf, Silent, Cancelled, KeyIds
<1>2. ASSUME KInv, [Next]_vars
      PROVE  /\ [VolumeDownGesture!GestureNext]_(VolumeDownGesture!gestureVars)
             /\ [VolumeUpGesture!GestureNext]_(VolumeUpGesture!gestureVars)
             /\ [PowerGesture!GestureNext]_(PowerGesture!gestureVars)
    <2>1. CASE UNCHANGED vars
        BY <2>1 DEF vars, VolumeDownGesture!gestureVars, VolumeUpGesture!gestureVars,
           PowerGesture!gestureVars, Phase, In, ReportOf
    <2>2. CASE Next
        <3>1. GestureMove("VolumeDown") /\ GestureMove("VolumeUp") /\ GestureMove("Power")
            BY <1>2, <2>2, StepMoves, KeyFacts
        <3>2. VolumeDownGesture!GestureNext
            BY <3>1 DEF GestureMove, Moves, HoldsOf, RepeatsOf,
               VolumeDownGesture!GestureNext, VolumeDownGesture!User,
               VolumeDownGesture!Press, VolumeDownGesture!Tap, VolumeDownGesture!Hold,
               VolumeDownGesture!Repeat, VolumeDownGesture!LetGo,
               VolumeDownGesture!Settle, VolumeDownGesture!Wait,
               VolumeDownGesture!Cancel, VolumeDownGesture!Poll
        <3>3. VolumeUpGesture!GestureNext
            BY <3>1 DEF GestureMove, Moves, HoldsOf, RepeatsOf,
               VolumeUpGesture!GestureNext, VolumeUpGesture!User,
               VolumeUpGesture!Press, VolumeUpGesture!Tap, VolumeUpGesture!Hold,
               VolumeUpGesture!Repeat, VolumeUpGesture!LetGo,
               VolumeUpGesture!Settle, VolumeUpGesture!Wait,
               VolumeUpGesture!Cancel, VolumeUpGesture!Poll
        <3>4. PowerGesture!GestureNext
            BY <3>1 DEF GestureMove, Moves, HoldsOf, RepeatsOf,
               PowerGesture!GestureNext, PowerGesture!User,
               PowerGesture!Press, PowerGesture!Tap, PowerGesture!Hold,
               PowerGesture!Repeat, PowerGesture!LetGo,
               PowerGesture!Settle, PowerGesture!Wait,
               PowerGesture!Cancel, PowerGesture!Poll
        <3>5. QED
            BY <3>2, <3>3, <3>4
    <2>3. QED
        BY <1>2, <2>1, <2>2
<1>3. QED
    BY <1>1, <1>2, InitKInv, StepKInv, PTL DEF Spec, ImplementsKeyGesture,
       VolumeDownGesture!GestureSpec, VolumeUpGesture!GestureSpec, PowerGesture!GestureSpec
=============================================================================
