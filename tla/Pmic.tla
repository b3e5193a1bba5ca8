-------------------------------- MODULE Pmic --------------------------------
(***************************************************************************)
(* The PMIC driver as the application uses it: the real-time clock, the    *)
(* LDO and buck voltages.  Each function is a few transactions on the      *)
(* wrapper, which the keypad's poll may interrupt anywhere.                *)
(* The build is the default one, RELEASE, whose ASSERTs do nothing.        *)
(***************************************************************************)
EXTENDS PmicWrapper, Sequences

CONSTANTS
    Radix,    \* how many values each field of the clock below the year has
    Starts,   \* BOUND: the times a run may start at, as ticks since year 0
    LastTick, \* BOUND: the time at which the clock stops
    BootData, \* BOUND: what the boot loader may have left in other registers
    Ldos,     \* the LDO table, by id
    Bucks,    \* the buck table, by id
    Voltages, \* the voltages the application asks for
    Word      \* one more than the largest UINT32

VARIABLES
    app,     \* the function the application is in
    wanted   \* history: the voltage last set, by id, or 0 when none is known

pmicVars == <<wrapperVars, app, wanted>>

RtcReg == <<"TC_SEC", "TC_MIN", "TC_HOU", "TC_DOM", "TC_MTH", "TC_YEA">>
LdoId == DOMAIN Ldos
BuckId == DOMAIN Bucks

NoJob == [fn |-> "none", id |-> 0, arg |-> 0, step |-> 0, got |-> <<>>, since |-> 0]

\* A field of a register: unit is the weight of its lowest bit and size the
\* number of its values, powers of two in the driver's tables.
FieldOf(r, unit, size) == (r \div unit) % size
WithField(r, unit, size, x) == r - FieldOf(r, unit, size) * unit + x * unit

\* The first entry of an LDO's table with that voltage, or with those bits; VDRAM2
\* has no table, so that there is none (see LdoWithVoltage).
First(S) == {i \in S : \A j \in S : i <= j}
VoselsFor(l, v) == LET t == Ldos[l].range
                   IN {t[i].Mask : i \in First({i \in DOMAIN t : t[i].Voltage = v})}
VoltagesFor(l, x) == LET t == Ldos[l].range
                     IN {t[i].Voltage : i \in First({i \in DOMAIN t : t[i].Mask = x})}

\* Mutant: the field is not cleared before the new bits are put in.
LdoWithVoltageOred(l, r, v) ==
    LET L == Ldos[l] IN
    {d \in Datum : \E x \in VoselsFor(l, v) : \A b \in 0 .. 15 :
        FieldOf(d, 2^b, 2) = IF FieldOf(r, 2^b, 2) = 1 \/ FieldOf(x * L.unit, 2^b, 2) = 1
                               THEN 1 ELSE 0}

\* A voltage the table does not have leaves Vosel unset.  Where there is no table
\* VoselLen - 1 wraps around, and the walk goes from address 0 through memory to
\* the first word that happens to match, if it gets that far, and takes the one
\* beside it for Vosel.  Either way the register gets anything in its bits from
\* the field on, but that a bit above the field is only ever set.
LdoWithVoltage(l, r, v) ==
    LET L == Ldos[l] IN
    IF VoselsFor(l, v) # {} THEN {WithField(r, L.unit, L.size, x) : x \in VoselsFor(l, v)}
    ELSE {d \in Datum :
             /\ d % L.unit = r % L.unit
             /\ \A b \in 0 .. 15 : 2^b >= L.unit * L.size /\ FieldOf(r, 2^b, 2) = 1 =>
                                   FieldOf(d, 2^b, 2) = 1}

BuckCode(b, v) == ((((v + Word) - Bucks[b].UVMin) % Word) \div Bucks[b].UVStep) % Bucks[b].size
BuckWithVoltage(b, r, v) == {WithField(r, 1, Bucks[b].size, BuckCode(b, v))}
BuckVoltage(b, r) == Bucks[b].UVMin + FieldOf(r, 1, Bucks[b].size) * Bucks[b].UVStep
BuckInRange(b, v) ==
    /\ Bucks[b].UVMin <= v
    /\ v < Bucks[b].UVMin + Bucks[b].size * Bucks[b].UVStep
-----------------------------------------------------------------------------
(* The clock: six registers, each a field of the time, that carry into one   *)
(* another.  Months of one length stand for the calendar.                    *)

Fields == DOMAIN RtcReg
Minutes(t) == t \div Radix[1]
Hours(t) == Minutes(t) \div Radix[2]
Days(t) == Hours(t) \div Radix[3]
Months(t) == Days(t) \div Radix[4]
Years(t) == Months(t) \div Radix[5]
Digits(t) == <<t % Radix[1], Minutes(t) % Radix[2], Hours(t) % Radix[3],
               Days(t) % Radix[4], Months(t) % Radix[5], Years(t)>>
TimeOf(f) == f[1] + Radix[1] * (f[2] + Radix[2] * (f[3] + Radix[3] *
                 (f[4] + Radix[4] * (f[5] + Radix[5] * f[6]))))
Now == TimeOf([i \in Fields |-> reg[RtcReg[i]]])
FieldWith(r) == CHOOSE i \in Fields : RtcReg[i] = r
Clocked(old, t) == [r \in Reg |-> IF \E i \in Fields : RtcReg[i] = r
                                    THEN Digits(t)[FieldWith(r)] ELSE old[r]]

ClockTicks ==
    /\ Now < LastTick
    /\ reg' = Clocked(reg, Now + 1)
    /\ HwChanges
    /\ UNCHANGED <<app, wanted>>
-----------------------------------------------------------------------------
(* What the proofs need of the tables: the registers of the regulators are   *)
(* not the clock's, two functions set no register in common, each field lies *)
(* in its register, and the entries of a table have different bits.          *)

Regulator == LdoId \cup BuckId
SetReg(i) == IF i \in LdoId THEN Ldos[i].ana ELSE Bucks[i].elr0

ASSUME TableAssumption ==
    /\ LdoId \cap BuckId = {}
    /\ \A i \in Regulator : SetReg(i) \in Reg \ Volatile
    /\ \A i, j \in Regulator : i # j => SetReg(i) # SetReg(j)
    /\ \A l \in LdoId :
          /\ Ldos[l].con1 \in Reg /\ Ldos[l].con0 \in Reg \ Volatile
          /\ \A i \in Regulator : Ldos[l].con0 # SetReg(i)
          /\ Ldos[l].unit \in Nat \ {0} /\ Ldos[l].size \in Nat \ {0}
          /\ \A r \in Datum, x \in 0 .. Ldos[l].size - 1 :
                WithField(r, Ldos[l].unit, Ldos[l].size, x) \in Datum
          /\ DOMAIN Ldos[l].range \subseteq Nat
          /\ \A i \in DOMAIN Ldos[l].range : Ldos[l].range[i].Mask \in 0 .. Ldos[l].size - 1
          /\ \A i, j \in DOMAIN Ldos[l].range :
                Ldos[l].range[i].Mask = Ldos[l].range[j].Mask => i = j
    /\ \A b \in BuckId :
          /\ Bucks[b].size \in Nat \ {0} /\ Bucks[b].UVStep \in Nat \ {0}
          /\ Bucks[b].UVMin \in 0 .. Word - 1
          /\ \A r \in Datum, x \in 0 .. Bucks[b].size - 1 :
                WithField(r, 1, Bucks[b].size, x) \in Datum

\* The clock's registers hold its times up to the last, and change by themselves.
ASSUME ClockAssumption ==
    /\ \A i \in 1 .. 5 : Radix[i] \in Nat \ {0}
    /\ LastTick \in Nat /\ Starts \subseteq 0 .. LastTick
    /\ \A i \in Fields : RtcReg[i] \in Volatile
    /\ \A t \in 0 .. LastTick, i \in Fields : Digits(t)[i] \in Datum
    /\ "TOPSTATUS" \in Volatile

ASSUME DataAssumption ==
    /\ Datum \subseteq Nat /\ {0, 1} \subseteq Datum /\ BootData \subseteq Datum
    /\ Word \in Nat /\ Voltages \subseteq 0 .. Word - 1
-----------------------------------------------------------------------------
(* The functions of the protocol, called by the application.                 *)

PmicInit ==
    /\ \E t \in Starts, d \in BootData : reg = Clocked([r \in Reg |-> d], t)
    /\ WrapperInit
    /\ app = NoJob
    /\ wanted = [i \in LdoId \cup BuckId |-> 0]

\* The application has the processor and waits for no transaction.
AppReady == running = "app" /\ call["app"] = NoCall

Calls(fn, id, arg) ==
    /\ AppReady /\ app = NoJob
    /\ app' = [NoJob EXCEPT !.fn = fn, !.id = id, !.arg = arg,
                            !.since = IF fn = "RtcGetTime" THEN Now ELSE 0]
    /\ UNCHANGED <<wrapperVars, wanted>>

\* The register of a function that reads one before it returns or writes.
RegOf(fn, id) ==
    CASE fn \in {"LdoGetVoltage", "LdoSetVoltage"} -> Ldos[id].ana
      [] fn = "LdoStatus" -> Ldos[id].con1
      [] fn = "LdoControl" -> Ldos[id].con0
      [] fn \in {"BuckGetMicroVoltage", "BuckSetMicroVoltage"} -> Bucks[id].elr0

\* Mutant: the year first, the seconds last.
RtcOrderDown == <<RtcReg[6], RtcReg[5], RtcReg[4], RtcReg[3], RtcReg[2], RtcReg[1]>>

\* The order in which RtcGetTime reads the fields.
RtcOrder == RtcReg
RtcGetTimeReads ==
    /\ AppReady /\ app.fn = "RtcGetTime" /\ app.step < Len(RtcReg)
    /\ WacsRead16("app", RtcOrder[app.step + 1])
    /\ app' = [app EXCEPT !.step = @ + 1]
    /\ UNCHANGED wanted

FirstReads ==
    /\ AppReady /\ app.step = 0
    /\ app.fn \in {"LdoStatus", "LdoGetVoltage", "LdoSetVoltage",
                   "BuckGetMicroVoltage", "BuckSetMicroVoltage"}
    /\ WacsRead16("app", RegOf(app.fn, app.id))
    /\ app' = [app EXCEPT !.step = 1]
    /\ UNCHANGED wanted

\* A read comes back to the function that asked for it.
AppGets ==
    /\ WacsReadReturns("app")
    /\ app' = [app EXCEPT !.got = Append(@, call["app"].data)]
    /\ UNCHANGED wanted

NewContents ==
    CASE app.fn = "LdoSetVoltage" -> LdoWithVoltage(app.id, app.got[1], app.arg)
      [] app.fn = "BuckSetMicroVoltage" -> BuckWithVoltage(app.id, app.got[1], app.arg)

ThenWrites ==
    /\ AppReady /\ app.step = 1
    /\ app.fn \in {"LdoSetVoltage", "BuckSetMicroVoltage"}
    /\ \E d \in NewContents : WacsWrite16("app", RegOf(app.fn, app.id), d)
    /\ app' = [app EXCEPT !.step = 2]
    /\ UNCHANGED wanted

LdoControlWrites ==
    /\ AppReady /\ app.fn = "LdoControl" /\ app.step = 0
    /\ WacsWrite16("app", RegOf(app.fn, app.id), app.arg)
    /\ app' = [app EXCEPT !.step = 1]
    /\ UNCHANGED wanted

Steps(fn) == CASE fn = "RtcGetTime" -> Len(RtcReg)
               [] fn \in {"LdoSetVoltage", "BuckSetMicroVoltage"} -> 2
               [] OTHER -> 1

\* The function has all it asked for.
Done(fn) == AppReady /\ app.fn = fn /\ app.step = Steps(fn)

PmicReturns ==
    /\ app.fn # "none" /\ Done(app.fn)
    /\ app' = NoJob
    /\ wanted' =
         CASE app.fn = "LdoSetVoltage" ->
                [wanted EXCEPT ![app.id] = IF VoselsFor(app.id, app.arg) = {} THEN 0 ELSE app.arg]
           [] app.fn = "BuckSetMicroVoltage" ->
                [wanted EXCEPT ![app.id] = IF BuckInRange(app.id, app.arg) THEN app.arg ELSE 0]
           [] OTHER -> wanted
    /\ UNCHANGED wrapperVars

PmicCalls ==
    \/ Calls("RtcGetTime", 0, 0)
    \/ \E l \in LdoId : \/ Calls("LdoStatus", l, 0) \/ Calls("LdoGetVoltage", l, 0)
                        \/ \E v \in Voltages : Calls("LdoSetVoltage", l, v)
                        \/ \E on \in {0, 1} : Calls("LdoControl", l, on)
    \/ \E b \in BuckId : \/ Calls("BuckGetMicroVoltage", b, 0)
                         \/ \E v \in Voltages : Calls("BuckSetMicroVoltage", b, v)

PmicStep ==
    \/ RtcGetTimeReads \/ FirstReads \/ AppGets \/ ThenWrites \/ LdoControlWrites
    \/ PmicReturns
    \/ WacsStep("app") /\ UNCHANGED <<app, wanted>>
-----------------------------------------------------------------------------
\* The time RtcGetTime returns is never before the call, whatever the clock and
\* the polls do between its six reads: it reads the seconds first and the year
\* last, so that a carry in between can only make the result late
\* (MT6358PmicDxe.c:246-251).
TimeNeverEarly == Done("RtcGetTime") => TimeOf(app.got) >= app.since

\* A voltage that was set and is in the range of its regulator is what the
\* regulator is found to have, to the step of a buck, although the write is
\* still on its way when LdoSetVoltage or BuckSetMicroVoltage returns
\* (MT6358PmicDxe.c:116-125,147-167,181-184,203-209).
VoltageReadsBack ==
    /\ Done("LdoGetVoltage") /\ wanted[app.id] # 0 =>
         \E x \in {FieldOf(app.got[1], Ldos[app.id].unit, Ldos[app.id].size)} :
            VoltagesFor(app.id, x) = {wanted[app.id]}
    /\ Done("BuckGetMicroVoltage") /\ wanted[app.id] # 0 =>
         \E v \in {BuckVoltage(app.id, app.got[1])} :
            v <= wanted[app.id] /\ wanted[app.id] < v + Bucks[app.id].UVStep
=============================================================================
