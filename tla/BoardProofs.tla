---------------------------- MODULE BoardProofs ----------------------------
(***************************************************************************)
(* Theorems about the board, for all registers, tables, pins, clocks and   *)
(* timeouts the assumptions allow.                                         *)
(***************************************************************************)
EXTENDS Board, PmicWrapperProofs, SequenceTheorems

(* Arithmetic.                                                               *)

LEMMA DivMod ==
    ASSUME NEW a \in Nat, NEW n \in Nat \ {0}
    PROVE  /\ a % n \in Nat /\ a % n < n /\ a \div n \in Nat
           /\ a = n * (a \div n) + (a % n) /\ a = (a % n) + n * (a \div n)
OBVIOUS

LEMMA DivModUnique ==
    ASSUME NEW q \in Nat, NEW r \in Nat, NEW n \in Nat \ {0}, r < n
    PROVE  (n * q + r) \div n = q /\ (n * q + r) % n = r
OBVIOUS

LEMMA DivMonotone ==
    ASSUME NEW a \in Nat, NEW b \in Nat, NEW n \in Nat \ {0}, a <= b
    PROVE  a \div n <= b \div n
OBVIOUS

LEMMA DivBelow ==
    ASSUME NEW a \in Nat, NEW s \in Nat, NEW n \in Nat \ {0}, a < s * n
    PROVE  a \div n < s
OBVIOUS

LEMMA Scaled ==
    ASSUME NEW a \in Nat, NEW b \in Nat, NEW n \in Nat \ {0}, a <= b
    PROVE  n * a <= n * b
OBVIOUS
-----------------------------------------------------------------------------
(* The application's state and its transactions.                             *)

Functions == {"none", "RtcGetTime", "LdoStatus", "LdoGetVoltage", "LdoSetVoltage",
              "LdoControl", "BuckGetMicroVoltage", "BuckSetMicroVoltage"}
LdoFunctions == {"LdoStatus", "LdoGetVoltage", "LdoSetVoltage", "LdoControl"}
BuckFunctions == {"BuckGetMicroVoltage", "BuckSetMicroVoltage"}
Setters == {"LdoSetVoltage", "BuckSetMicroVoltage"}

Reading == call["app"].pc # "none" /\ ~call["app"].write
Writing == call["app"].pc # "none" /\ call["app"].write

\* The application's state: what each function has read so far, and the
\* transaction it waits for.
ReadsBegun(fn, step) ==
    CASE fn = "RtcGetTime" -> step
      [] fn \in {"none", "LdoControl"} -> 0
      [] OTHER -> IF step = 0 THEN 0 ELSE 1

AppFields ==
    /\ app \in [fn : Functions, id : LdoId \cup BuckId \cup {0}, arg : Nat, step : Nat,
                got : Seq(Datum), since : Nat]
    /\ app.fn \in LdoFunctions => app.id \in LdoId
    /\ app.fn \in BuckFunctions => app.id \in BuckId
    /\ app.fn \in Setters => app.arg \in Voltages
    /\ app.fn = "LdoControl" => app.arg \in {0, 1}
    /\ app.fn # "none" => app.step <= Steps(app.fn)

AppCall ==
    /\ Reading => /\ app.fn \in Functions \ {"none", "LdoControl"} /\ app.step > 0
                  /\ app.fn # "RtcGetTime" => app.step = 1
                  /\ Len(app.got) = ReadsBegun(app.fn, app.step) - 1
                  /\ call["app"].reg = IF app.fn = "RtcGetTime" THEN RtcReg[app.step]
                                       ELSE RegOf(app.fn, app.id)
    /\ ~Reading => Len(app.got) = ReadsBegun(app.fn, app.step)
    /\ Writing => /\ app.fn \in Setters \cup {"LdoControl"}
                  /\ app.step = Steps(app.fn)
                  /\ call["app"].reg = RegOf(app.fn, app.id)
    /\ ~Reading /\ ~Writing => call["app"] = NoCall

AppPhase ==
    /\ phase \in {"card", "drivers", "idle", "apps"}
    /\ driver \in [loaded : BOOLEAN, timer : BOOLEAN, exitEvent : BOOLEAN]
    /\ driver.exitEvent => driver.loaded
    /\ app.fn # "none" => phase = "apps" /\ driver.exitEvent

AppOK == AppFields /\ AppCall /\ AppPhase

\* The registers of the functions, with what the tables promise of them.
LEMMA RegistersOf ==
    ASSUME AppFields, app.fn \in LdoFunctions \cup BuckFunctions
    PROVE  /\ RegOf(app.fn, app.id) \in Reg
           /\ app.fn \in Setters \cup {"LdoControl"} => RegOf(app.fn, app.id) \in Reg \ Volatile
           /\ app.fn \in Setters \cup {"LdoGetVoltage", "BuckGetMicroVoltage"}
                => RegOf(app.fn, app.id) = SetReg(app.id)
<1>1. CASE app.fn \in LdoFunctions
  BY <1>1, TableAssumption DEF AppFields, LdoFunctions, BuckFunctions, RegOf, SetReg, Regulator, Setters
<1>2. CASE app.fn \in BuckFunctions
  <2>1. app.id \in BuckId /\ app.id \notin LdoId
    BY <1>2, TableAssumption DEF AppFields
  <2> QED
    BY <1>2, <2>1, TableAssumption DEF LdoFunctions, BuckFunctions, RegOf, SetReg, Regulator, Setters
<1> QED BY <1>1, <1>2

\* What a setter writes fits in the register.
LEMMA ContentsFit ==
    ASSUME AppFields, app.fn \in Setters, app.got[1] \in Datum, NEW d \in NewContents
    PROVE  d \in Datum
<1>1. CASE app.fn = "LdoSetVoltage"
  <2> DEFINE L == Ldos[app.id]
  <2>1. app.id \in LdoId BY <1>1 DEF AppFields, LdoFunctions
  <2>2. d \in LdoWithVoltage(app.id, app.got[1], app.arg)
    BY <1>1 DEF NewContents
  <2>3. VoselsFor(app.id, app.arg) \subseteq 0 .. L.size - 1
    BY <2>1, TableAssumption DEF VoselsFor, First
  <2>4. CASE VoselsFor(app.id, app.arg) = {}
    BY <2>2, <2>4 DEF LdoWithVoltage
  <2>5. CASE VoselsFor(app.id, app.arg) # {}
    <3>1. PICK x \in VoselsFor(app.id, app.arg) : d = WithField(app.got[1], L.unit, L.size, x)
      BY <2>2, <2>5 DEF LdoWithVoltage
    <3> QED BY <2>1, <2>3, <3>1, TableAssumption
  <2> QED BY <2>4, <2>5
<1>2. CASE app.fn = "BuckSetMicroVoltage"
  <2> DEFINE B == Bucks[app.id]
             q == (((app.arg + Word) - B.UVMin) % Word) \div B.UVStep
  <2>1. app.id \in BuckId BY <1>2 DEF AppFields, BuckFunctions
  <2>2. d = WithField(app.got[1], 1, B.size, BuckCode(app.id, app.arg))
    BY <1>2 DEF NewContents, BuckWithVoltage
  <2>3. q \in Nat
    <3>1. app.arg \in 0 .. Word - 1 /\ Word \in Nat \ {0} /\ B.UVMin \in 0 .. Word - 1
          /\ B.UVStep \in Nat \ {0}
      BY <1>2, <2>1, TableAssumption, DataAssumption DEF AppFields, Setters
    <3>2. (app.arg + Word) - B.UVMin \in Nat
      BY <3>1
    <3>3. ((app.arg + Word) - B.UVMin) % Word \in Nat
      BY <3>1, <3>2, DivMod
    <3> QED BY <3>1, <3>3, DivMod
  <2>4. BuckCode(app.id, app.arg) = q % B.size
    BY DEF BuckCode
  <2>5. q % B.size \in 0 .. B.size - 1
    <3>1. B.size \in Nat \ {0} BY <2>1, TableAssumption
    <3>2. q % B.size \in Nat /\ q % B.size < B.size
      BY <2>3, <3>1, DivMod
    <3> QED BY <3>1, <3>2
  <2> QED BY <2>1, <2>2, <2>4, <2>5, TableAssumption
<1> QED BY <1>1, <1>2 DEF Setters

\* A function that waits for no transaction has read what it has begun to read.
LEMMA NoneOpen ==
    ASSUME AppOK, call["app"] = NoCall
    PROVE  ~Reading /\ ~Writing /\ Len(app.got) = ReadsBegun(app.fn, app.step)
BY DEF AppOK, AppCall, Reading, Writing, NoCall

LEMMA AppOKStart == BoardInit => AppOK
<1> SUFFICES ASSUME BoardInit PROVE AppOK
  OBVIOUS
<1>1. app = NoJob /\ call["app"] = NoCall
  BY DEF BoardInit, PmicInit, WrapperInit, Caller
<1>2. AppFields BY <1>1 DEF AppFields, NoJob, Functions, LdoFunctions, BuckFunctions, Setters
<1>3. AppCall BY <1>1 DEF AppCall, NoJob, ReadsBegun, Reading, Writing, NoCall
<1>4. AppPhase BY <1>1 DEF AppPhase, NoJob, BoardInit, WatchdogInit, NotLoaded
<1> QED BY <1>2, <1>3, <1>4 DEF AppOK

\* What the application does is what the wrapper's driver offers.
LEMMA PmicIsWrapper ==
    ASSUME IInv, AppOK, PmicCalls \/ PmicStep
    PROVE  [WrapperNext]_wrapperVars
<1>1. CASE PmicCalls
  BY <1>1 DEF PmicCalls, Calls
<1>2. CASE RtcGetTimeReads
  <2>1. app.step + 1 \in 1 .. 6
    BY <1>2 DEF RtcGetTimeReads, AppOK, AppFields, RtcReg
  <2>2. RtcOrder[app.step + 1] \in Reg
    BY <2>1, ClockAssumption, WrapperAssumption DEF RtcOrder, Fields, RtcReg
  <2> QED BY <1>2, <2>2 DEF RtcGetTimeReads, WrapperNext, Caller
<1>3. CASE FirstReads
  <2>1. app.fn \in LdoFunctions \cup BuckFunctions
    BY <1>3 DEF FirstReads, LdoFunctions, BuckFunctions
  <2> QED BY <1>3, <2>1, RegistersOf DEF FirstReads, WrapperNext, Caller, AppOK
<1>4. CASE AppGets
  BY <1>4 DEF AppGets, WrapperNext, Caller
<1>5. CASE ThenWrites
  <2>1. app.fn \in Setters /\ app.fn \in LdoFunctions \cup BuckFunctions
    BY <1>5 DEF ThenWrites, Setters, LdoFunctions, BuckFunctions
  <2>2. app.got[1] \in Datum
    <3>1. Len(app.got) = 1
      BY <1>5, NoneOpen DEF ThenWrites, AppReady, ReadsBegun
    <3> QED BY <3>1 DEF AppOK, AppFields
  <2>3. \A d \in NewContents : d \in Datum
    BY <2>1, <2>2, ContentsFit DEF AppOK
  <2>4. RegOf(app.fn, app.id) \in Reg \ Volatile
    BY <2>1, RegistersOf DEF AppOK
  <2> QED BY <1>5, <2>3, <2>4 DEF ThenWrites, WrapperNext
<1>6. CASE LdoControlWrites
  <2>1. app.fn = "LdoControl" /\ app.arg \in Datum
    BY <1>6, DataAssumption DEF LdoControlWrites, AppOK, AppFields
  <2>2. RegOf(app.fn, app.id) \in Reg \ Volatile
    BY <2>1, RegistersOf DEF AppOK, LdoFunctions
  <2> QED BY <1>6, <2>1, <2>2 DEF LdoControlWrites, WrapperNext
<1>7. CASE PmicReturns
  BY <1>7 DEF PmicReturns
<1>8. CASE WacsStep("app")
  BY <1>8 DEF WrapperNext, Caller
<1> QED BY <1>1, <1>2, <1>3, <1>4, <1>5, <1>6, <1>7, <1>8 DEF PmicStep

\* The steps of everything but the application's functions leave the functions
\* and their transactions alone.
PmicActs == PmicCalls \/ PmicStep
CardActs == ConfigureMSDCGpios \/ SdCardHackDxeReturns

LEMMA PollLeavesApp ==
    ASSUME IInv, PollBegins \/ PollStep
    PROVE  /\ [WrapperNext]_wrapperVars
           /\ UNCHANGED <<app, wanted, call["app"], held["app"], meant, reg>>
<1>1. CASE PollBegins
  BY <1>1 DEF PollBegins, PollStarts, WrapperNext
<1>2. CASE PollGetsDir \/ PollGetsLevel
  BY <1>2 DEF PollGetsDir, PollGetsLevel, pmicVars, wrapperVars
<1>3. CASE PollReads
  <2>1. WacsRead16("poll", "TOPSTATUS") /\ UNCHANGED <<app, wanted>>
    BY <1>3 DEF PollReads
  <2>2. UNCHANGED <<call["app"], held["app"], meant, reg>>
    BY <2>1 DEF WacsRead16, Begin, IInv, WrapperTypeOK, Caller
  <2> QED BY <2>1, <2>2, ClockAssumption, WrapperAssumption DEF WrapperNext, Caller
<1>4. CASE PollWaits
  <2>1. WacsStep("poll") /\ UNCHANGED <<app, wanted>>
    BY <1>4 DEF PollWaits
  <2>2. ~call["poll"].write
    BY DEF IInv, Written, Caller
  <2>3. UNCHANGED <<call["app"], held["app"], meant, reg>>
    BY <2>1, <2>2 DEF WacsStep, WacsWaitForIdle, WacsCommandData, WacsCommand, WacsWaitForValid,
          WacsReadData, Goto, IInv, WrapperTypeOK, Caller
  <2> QED BY <2>1, <2>3 DEF WrapperNext, Caller
<1>5. CASE PollGetsButton
  <2>1. WacsReadReturns("poll") /\ UNCHANGED <<app, wanted>>
    BY <1>5 DEF PollGetsButton
  <2>2. UNCHANGED <<call["app"], held["app"], meant, reg>>
    BY <2>1 DEF WacsReadReturns, IInv, WrapperTypeOK, Caller
  <2> QED BY <2>1, <2>2 DEF WrapperNext, Caller
<1>6. CASE PollReturns
  BY <1>6 DEF PollReturns, PollEnds, WrapperNext
<1> QED BY <1>1, <1>2, <1>3, <1>4, <1>5, <1>6 DEF PollStep

LEMMA HardwareLeavesApp ==
    ASSUME IInv, Hardware \/ ClockRuns \/ ButtonMoves
    PROVE  /\ [WrapperNext]_wrapperVars
           /\ UNCHANGED <<app, wanted, call, meant>>
BY DEF Hardware, ClockRuns, ButtonMoves, ClockTicks, HwExecutes, HwChanges, WrapperNext

LEMMA OthersLeaveApp ==
    ASSUME [BoardNext]_boardVars
    PROVE  \/ ApplicationRuns
           \/ CardActs /\ UNCHANGED <<wrapperVars, wanted>>
           \/ PollBegins \/ PollStep
           \/ Hardware \/ ClockRuns \/ ButtonMoves
           \/ UNCHANGED pmicVars
<1>1. CASE UNCHANGED boardVars
  BY <1>1 DEF boardVars
<1>2. ASSUME OtherDriverCalls \/ GpioGoesOn \/ WatchdogIsLoaded \/ OsStarts \/ KeyMoves
             \/ WatchdogPings \/ TimePasses
      PROVE  UNCHANGED pmicVars
  BY <1>2 DEF OtherDriverCalls, GpioGoesOn, WatchdogIsLoaded, OsStarts, KeyMoves, WatchdogPings,
              TimePasses
<1>3. CASE CardActs
  BY <1>3 DEF CardActs, ConfigureMSDCGpios, SdCardHackDxeReturns
<1> QED BY <1>1, <1>2, <1>3 DEF BoardNext, CardActs

\* Every step of the board is a step of the wrapper's specification, or none.
LEMMA BoardIsWrapper ==
    ASSUME IInv, AppOK, [BoardNext]_boardVars
    PROVE  [WrapperNext]_wrapperVars
<1>1. CASE ApplicationRuns
  BY <1>1, PmicIsWrapper DEF ApplicationRuns
<1>2. CASE UNCHANGED pmicVars
  BY <1>2 DEF pmicVars
<1> QED BY <1>1, <1>2, OthersLeaveApp, PollLeavesApp, HardwareLeavesApp

LEMMA TimeIsNat ==
    ASSUME NEW f, \A i \in 1 .. 6 : f[i] \in Nat
    PROVE  TimeOf(f) \in Nat
<1>1. \A a, b, c \in Nat : a + b * c \in Nat
  OBVIOUS
<1>2. Radix[1] \in Nat /\ Radix[2] \in Nat /\ Radix[3] \in Nat /\ Radix[4] \in Nat /\ Radix[5] \in Nat
  BY ClockAssumption
<1>3. /\ f[1] \in Nat /\ f[2] \in Nat /\ f[3] \in Nat /\ f[4] \in Nat /\ f[5] \in Nat /\ f[6] \in Nat
  OBVIOUS
<1>4. f[5] + Radix[5] * f[6] \in Nat BY <1>1, <1>2, <1>3
<1>5. f[4] + Radix[4] * (f[5] + Radix[5] * f[6]) \in Nat BY <1>1, <1>2, <1>3, <1>4
<1>6. f[3] + Radix[3] * (f[4] + Radix[4] * (f[5] + Radix[5] * f[6])) \in Nat
  BY <1>1, <1>2, <1>3, <1>5
<1>7. f[2] + Radix[2] * (f[3] + Radix[3] * (f[4] + Radix[4] * (f[5] + Radix[5] * f[6]))) \in Nat
  BY <1>1, <1>2, <1>3, <1>6
<1> QED BY <1>1, <1>2, <1>3, <1>7 DEF TimeOf

\* The application's transaction goes on, or its write is out.
LEMMA TransactionGoesOn ==
    ASSUME IInv, WacsStep("app")
    PROVE  /\ reg' = reg
           /\ \/ /\ call["app"].pc # "none" /\ call'["app"].pc # "none"
                 /\ call'["app"].write = call["app"].write
                 /\ call'["app"].reg = call["app"].reg
                 /\ call["app"].write => call'["app"].data = call["app"].data
                 /\ meant' = meant
              \/ /\ call["app"].pc # "none" /\ call["app"].write /\ call'["app"] = NoCall
                 /\ meant' = [meant EXCEPT ![call["app"].reg] = call["app"].data]
<1> USE DEF IInv, WrapperTypeOK, Caller, At, Goto
<1>1. CASE WacsWaitForIdle("app")
  BY <1>1 DEF WacsWaitForIdle
<1>2. CASE WacsCommandData("app")
  BY <1>2 DEF WacsCommandData
<1>3. CASE WacsCommand("app")
  BY <1>3 DEF WacsCommand
<1>4. CASE WacsWaitForValid("app")
  BY <1>4 DEF WacsWaitForValid
<1>5. CASE WacsReadData("app")
  <2>1. ~call["app"].write
    BY <1>5 DEF WacsReadData, Answered, InFlight
  <2> QED BY <1>5, <2>1 DEF WacsReadData
<1> QED BY <1>1, <1>2, <1>3, <1>4, <1>5 DEF WacsStep

LEMMA BeginsRead ==
    ASSUME IInv, NEW r, WacsRead16("app", r)
    PROVE  /\ call["app"].pc = "none" /\ UNCHANGED <<meant, reg, held>>
           /\ call'["app"] = [pc |-> "idle", write |-> FALSE, reg |-> r, data |-> 0]
BY DEF WacsRead16, Begin, At, IInv, WrapperTypeOK, Caller

LEMMA BeginsWrite ==
    ASSUME IInv, NEW r, NEW d, WacsWrite16("app", r, d)
    PROVE  /\ call["app"].pc = "none" /\ UNCHANGED <<meant, reg, held>>
           /\ call'["app"] = [pc |-> "idle", write |-> TRUE, reg |-> r, data |-> d]
BY DEF WacsWrite16, Begin, At, IInv, WrapperTypeOK, Caller

LEMMA EndsRead ==
    ASSUME IInv, WacsReadReturns("app")
    PROVE  /\ Reading /\ call'["app"] = NoCall /\ UNCHANGED <<meant, reg>>
           /\ call["app"].data \in Datum /\ call["app"].data \in held["app"]
BY DEF WacsReadReturns, At, IInv, WrapperTypeOK, Answered, InFlight, Caller, Reading

LEMMA PmicKeepsApp ==
    ASSUME IInv, AppOK, PmicActs, phase = "apps", driver.exitEvent, UNCHANGED <<phase, driver>>
    PROVE  AppOK'
<1>0. AppPhase' /\ phase' = "apps"
  BY DEF AppOK, AppPhase
<1> USE DEF AppOK
<1>1. CASE PmicCalls
  <2>1. PICK fn \in Functions \ {"none"}, id \in LdoId \cup BuckId \cup {0}, arg \in Nat :
          /\ Calls(fn, id, arg)
          /\ fn \in LdoFunctions => id \in LdoId
          /\ fn \in BuckFunctions => id \in BuckId
          /\ fn \in Setters => arg \in Voltages
          /\ fn = "LdoControl" => arg \in {0, 1}
    <3>1. Voltages \subseteq Nat BY DataAssumption
    <3> QED BY <1>1, <3>1 DEF PmicCalls, Functions, LdoFunctions, BuckFunctions, Setters
  <2>2. Now \in Nat
    <3>1. \A i \in Fields : reg[RtcReg[i]] \in Nat
      BY ClockAssumption, DataAssumption, WrapperAssumption DEF IInv, WrapperTypeOK
    <3> DEFINE f == [i \in Fields |-> reg[RtcReg[i]]]
    <3>3. \A i \in 1 .. 6 : f[i] \in Nat
      BY <3>1 DEF Fields, RtcReg
    <3> HIDE DEF f
    <3>4. TimeOf(f) \in Nat BY <3>3, TimeIsNat
    <3> QED BY <3>4 DEF Now, f
  <2>3. /\ app'.fn = fn /\ app'.id = id /\ app'.arg = arg /\ app'.step = 0 /\ app'.got = <<>>
        /\ app' \in [fn : Functions, id : LdoId \cup BuckId \cup {0}, arg : Nat, step : Nat,
                     got : Seq(Datum), since : Nat]
    <3> DEFINE since == IF fn = "RtcGetTime" THEN Now ELSE 0
    <3>1. app' = [fn |-> fn, id |-> id, arg |-> arg, step |-> 0, got |-> <<>>, since |-> since]
      BY <2>1 DEF Calls, NoJob
    <3>2. since \in Nat BY <2>2
    <3>3. <<>> \in Seq(Datum) OBVIOUS
    <3> HIDE DEF since
    <3> QED BY <3>1, <3>2, <3>3
  <2>4. AppFields'
    BY <2>1, <2>3 DEF AppFields, Steps, RtcReg
  <2>5. call' = call /\ call["app"] = NoCall
    BY <2>1 DEF Calls, AppReady, wrapperVars
  <2>6. AppCall'
    BY <2>3, <2>5 DEF AppCall, ReadsBegun, NoCall, Reading, Writing
  <2> QED BY <1>0, <2>4, <2>6
<1>2. CASE RtcGetTimeReads
  <2>1. app.fn = "RtcGetTime" /\ app.step \in 0 .. 5 /\ app' = [app EXCEPT !.step = @ + 1]
    BY <1>2 DEF RtcGetTimeReads, AppFields, RtcReg
  <2>2. Len(app.got) = app.step
    BY <1>2, <2>1, NoneOpen DEF RtcGetTimeReads, AppReady, ReadsBegun
  <2>3. call'["app"] = [pc |-> "idle", write |-> FALSE, reg |-> RtcReg[app.step + 1], data |-> 0]
    BY <1>2, BeginsRead DEF RtcGetTimeReads, RtcOrder
  <2>4. app'.fn = app.fn /\ app'.step = app.step + 1 /\ app'.got = app.got /\ AppFields'
    BY <2>1 DEF AppFields, Steps, RtcReg, LdoFunctions, BuckFunctions, Setters
  <2>5. AppCall'
    BY <2>1, <2>2, <2>3, <2>4 DEF AppCall, Reading, Writing, ReadsBegun, Functions
  <2> QED BY <1>0, <2>4, <2>5
<1>3. CASE FirstReads
  <2>1. /\ app.fn \in {"LdoStatus", "LdoGetVoltage", "LdoSetVoltage",
                       "BuckGetMicroVoltage", "BuckSetMicroVoltage"}
        /\ app.step = 0 /\ app' = [app EXCEPT !.step = 1]
    BY <1>3 DEF FirstReads
  <2>2. Len(app.got) = 0
    BY <1>3, <2>1, NoneOpen DEF FirstReads, AppReady, ReadsBegun
  <2>3. call'["app"] = [pc |-> "idle", write |-> FALSE, reg |-> RegOf(app.fn, app.id), data |-> 0]
    BY <1>3, BeginsRead DEF FirstReads
  <2>4. app'.fn = app.fn /\ app'.id = app.id /\ app'.step = 1 /\ app'.got = app.got /\ AppFields'
    BY <2>1 DEF AppFields, Steps
  <2>5. AppCall'
    BY <2>1, <2>2, <2>3, <2>4 DEF AppCall, Reading, Writing, ReadsBegun, Functions
  <2> QED BY <1>0, <2>4, <2>5
<1>4. CASE AppGets
  <2>1. Reading /\ call'["app"] = NoCall /\ call["app"].data \in Datum
    BY <1>4, EndsRead DEF AppGets
  <2>2. app' = [app EXCEPT !.got = Append(@, call["app"].data)]
    BY <1>4 DEF AppGets
  <2>3. /\ app'.fn = app.fn /\ app'.id = app.id /\ app'.step = app.step
        /\ app'.got \in Seq(Datum) /\ Len(app'.got) = Len(app.got) + 1 /\ AppFields'
    <3> DEFINE got == Append(app.got, call["app"].data)
    <3>1. got \in Seq(Datum) /\ Len(got) = Len(app.got) + 1
      BY <2>1 DEF AppFields
    <3> HIDE DEF got
    <3>2. app' = [app EXCEPT !.got = got]
      BY <2>2 DEF got
    <3> QED BY <3>1, <3>2 DEF AppFields
  <2>4. Len(app.got) = ReadsBegun(app.fn, app.step) - 1 /\ ReadsBegun(app.fn, app.step) \in Nat
    BY <2>1 DEF AppCall, ReadsBegun, AppFields
  <2>5. AppCall'
    BY <2>1, <2>3, <2>4 DEF AppCall, Reading, Writing, NoCall
  <2> QED BY <1>0, <2>3, <2>5
<1>5. CASE ThenWrites
  <2>1. app.fn \in Setters /\ app.step = 1 /\ app' = [app EXCEPT !.step = 2]
    BY <1>5 DEF ThenWrites, Setters
  <2>2. Len(app.got) = 1
    BY <1>5, <2>1, NoneOpen DEF ThenWrites, AppReady, ReadsBegun, Setters
  <2>3. PICK d \in NewContents : WacsWrite16("app", RegOf(app.fn, app.id), d)
    BY <1>5 DEF ThenWrites
  <2>4. call'["app"] = [pc |-> "idle", write |-> TRUE, reg |-> RegOf(app.fn, app.id), data |-> d]
    BY <2>3, BeginsWrite
  <2>5. app'.fn = app.fn /\ app'.id = app.id /\ app'.step = 2 /\ app'.got = app.got /\ AppFields'
    BY <2>1 DEF AppFields, Steps, Setters
  <2>6. AppCall'
    <3>1. ~Reading' /\ Writing'
      BY <2>4 DEF Reading, Writing
    <3>2. Steps(app.fn) = 2 /\ ReadsBegun(app.fn, 2) = 1
      BY <2>1 DEF Setters, Steps, ReadsBegun
    <3>3. RegOf(app'.fn, app'.id) = RegOf(app.fn, app.id) /\ app'.fn \in Setters
      BY <2>1, <2>5
    <3>4. Len(app'.got) = ReadsBegun(app'.fn, app'.step) /\ app'.step = Steps(app'.fn)
      BY <2>2, <2>5, <3>2
    <3>5. call'["app"].reg = RegOf(app'.fn, app'.id)
      BY <2>4, <3>3
    <3> QED BY <3>1, <3>3, <3>4, <3>5 DEF AppCall
  <2> QED BY <1>0, <2>5, <2>6
<1>6. CASE LdoControlWrites
  <2>1. app.fn = "LdoControl" /\ app.step = 0 /\ app' = [app EXCEPT !.step = 1]
    BY <1>6 DEF LdoControlWrites
  <2>2. Len(app.got) = 0
    BY <1>6, <2>1, NoneOpen DEF LdoControlWrites, AppReady, ReadsBegun
  <2>3. call'["app"] = [pc |-> "idle", write |-> TRUE, reg |-> RegOf(app.fn, app.id),
                        data |-> app.arg]
    BY <1>6, BeginsWrite DEF LdoControlWrites
  <2>4. app'.fn = app.fn /\ app'.id = app.id /\ app'.step = 1 /\ app'.got = app.got /\ AppFields'
    BY <2>1 DEF AppFields, Steps
  <2>5. AppCall'
    BY <2>1, <2>2, <2>3, <2>4 DEF AppCall, Reading, Writing, ReadsBegun, Steps
  <2> QED BY <1>0, <2>4, <2>5
<1>7. CASE PmicReturns
  <2>1. app' = NoJob /\ call' = call /\ call["app"] = NoCall
    BY <1>7 DEF PmicReturns, Done, AppReady, wrapperVars
  <2>2. AppFields'
    BY <2>1 DEF AppFields, NoJob, Functions, LdoFunctions, BuckFunctions, Setters
  <2>3. AppCall'
    BY <2>1 DEF AppCall, NoJob, ReadsBegun, Reading, Writing, NoCall
  <2> QED BY <1>0, <2>2, <2>3
<1>8. CASE WacsStep("app") /\ UNCHANGED <<app, wanted>>
  <2>1. AppFields'
    BY <1>8 DEF AppFields
  <2>2. AppCall'
    <3>1. CASE /\ call["app"].pc # "none" /\ call'["app"].pc # "none"
               /\ call'["app"].write = call["app"].write
               /\ call'["app"].reg = call["app"].reg
      <4>1. (Reading' <=> Reading) /\ (Writing' <=> Writing)
        BY <3>1 DEF Reading, Writing
      <4> QED BY <1>8, <3>1, <4>1 DEF AppCall, Reading, Writing
    <3>2. CASE call["app"].pc # "none" /\ call["app"].write /\ call'["app"] = NoCall
      <4>1. Writing /\ ~Reading /\ ~Reading' /\ ~Writing'
        BY <3>2 DEF Reading, Writing, NoCall
      <4> QED BY <1>8, <3>2, <4>1 DEF AppCall
    <3> QED BY <1>8, <3>1, <3>2, TransactionGoesOn
  <2> QED BY <1>0, <2>1, <2>2
<1> QED BY <1>1, <1>2, <1>3, <1>4, <1>5, <1>6, <1>7, <1>8 DEF PmicStep, PmicActs

LEMMA AppOKStep ==
    ASSUME IInv, AppOK, [BoardNext]_boardVars
    PROVE  AppOK'
<1>1. AppPhase' \/ ApplicationRuns
  <2>1. CASE UNCHANGED <<phase, driver, app>>
    BY <2>1 DEF AppOK, AppPhase
  <2>2. CASE CardActs
    <3>1. phase \in {"card", "drivers"} => app.fn = "none" \/ phase = "apps"
      BY DEF AppOK, AppPhase
    <3>2. CASE ConfigureMSDCGpios
      <4>1. phase = "card" /\ UNCHANGED <<phase, driver>> /\ app' = [app EXCEPT !.step = @ + 1]
        BY <3>2 DEF ConfigureMSDCGpios, watchdogVars
      <4>2. app'.fn = "none"
        BY <3>1, <4>1 DEF AppOK, AppFields
      <4> QED BY <4>1, <4>2 DEF AppOK, AppPhase
    <3>3. CASE SdCardHackDxeReturns
      <4>1. phase' = "drivers" /\ UNCHANGED driver /\ app' = NoJob
        BY <3>3 DEF SdCardHackDxeReturns, watchdogVars
      <4> QED BY <4>1 DEF AppOK, AppPhase, NoJob
    <3> QED BY <2>2, <3>2, <3>3 DEF CardActs
  <2>3. CASE OtherDriverCalls
    BY <2>3 DEF OtherDriverCalls, watchdogVars, pmicVars, AppOK, AppPhase
  <2>4. CASE WatchdogIsLoaded
    BY <2>4 DEF WatchdogIsLoaded, WatchdogDxeEntry, pmicVars, AppOK, AppPhase, EntryFailures
  <2>5. CASE OsStarts
    <3>1. driver' = [driver EXCEPT !.timer = FALSE] /\ UNCHANGED <<phase, app>>
      BY <2>5 DEF OsStarts, ExitBootServices, pmicVars
    <3>2. /\ driver' \in [loaded : BOOLEAN, timer : BOOLEAN, exitEvent : BOOLEAN]
          /\ driver'.loaded = driver.loaded /\ driver'.exitEvent = driver.exitEvent
      BY <3>1 DEF AppOK, AppPhase
    <3> QED BY <3>1, <3>2 DEF AppOK, AppPhase
  <2>6. ASSUME PollBegins \/ PollStep PROVE UNCHANGED <<phase, driver, app>>
    BY <2>6 DEF PollBegins, PollStep, PollGetsDir, PollGetsLevel, PollReads, PollWaits,
       PollGetsButton, PollReturns, watchdogVars, pmicVars
  <2>7. ASSUME GpioGoesOn \/ Hardware \/ ClockRuns \/ ButtonMoves \/ KeyMoves \/ UNCHANGED boardVars
        PROVE  UNCHANGED <<phase, driver, app>>
    BY <2>7 DEF GpioGoesOn, Hardware, ClockRuns, ClockTicks, ButtonMoves, KeyMoves,
       watchdogVars, pmicVars, boardVars
  <2>8. ASSUME WatchdogPings \/ TimePasses PROVE UNCHANGED <<phase, driver, app>>
    BY <2>8 DEF WatchdogPings, TimePasses, TimerPings, PeriodPasses, pmicVars
  <2> QED
    BY <2>1, <2>2, <2>3, <2>4, <2>5, <2>6, <2>7, <2>8 DEF BoardNext, CardActs
<1>2. CASE ApplicationRuns
  BY <1>2, PmicKeepsApp DEF ApplicationRuns, AppsTurn, watchdogVars, PmicActs
<1>3. CASE UNCHANGED <<app, call["app"]>> /\ AppPhase'
  BY <1>3 DEF AppOK, AppFields, AppCall, Reading, Writing
<1>4. CASE CardActs /\ UNCHANGED <<wrapperVars, wanted>> /\ AppPhase'
  <2>1. app.fn = "none" /\ app'.fn = "none" /\ app'.got = app.got /\ AppFields'
    <3>1. app.fn = "none"
      BY <1>4 DEF CardActs, ConfigureMSDCGpios, SdCardHackDxeReturns, AppOK, AppPhase
    <3>2. app.got = <<>>
      BY <3>1 DEF AppOK, AppFields, AppCall, ReadsBegun, Reading, Functions
    <3>3. CASE ConfigureMSDCGpios
      BY <3>1, <3>3 DEF ConfigureMSDCGpios, AppOK, AppFields, LdoFunctions, BuckFunctions, Setters
    <3>4. CASE SdCardHackDxeReturns
      BY <3>1, <3>2, <3>4 DEF SdCardHackDxeReturns, NoJob, AppFields, LdoFunctions, BuckFunctions,
         Setters, Functions
    <3> QED BY <1>4, <3>3, <3>4 DEF CardActs
  <2>2. call' = call
    BY <1>4 DEF wrapperVars
  <2>3. AppCall'
    BY <2>1, <2>2 DEF AppOK, AppCall, Reading, Writing, ReadsBegun, Setters
  <2> QED BY <1>4, <2>1, <2>3 DEF AppOK
<1> QED
  BY <1>1, <1>2, <1>3, <1>4, OthersLeaveApp, PollLeavesApp, HardwareLeavesApp
     DEF pmicVars, wrapperVars

\* A poll that hangs goes on hanging: it waits for idle hardware, and the
\* hardware waits for the read it interrupted.
LEMMA HungLasts ==
    ASSUME IInv, Hung, [BoardNext]_boardVars
    PROVE  Hung'
<1>1. running = "poll" /\ call["poll"].pc = "idle" /\ InFlight("app") /\ fsm # "IDLE"
  BY DEF Hung, IInv, Answered, Caller
<1>2. call["poll"] # NoCall
  BY <1>1 DEF NoCall
<1>3. UNCHANGED <<running, call>>
  <2>1. ASSUME ConfigureMSDCGpios \/ SdCardHackDxeReturns \/ OtherDriverCalls \/ GpioGoesOn
               \/ WatchdogIsLoaded \/ ApplicationRuns \/ OsStarts \/ WatchdogPings
        PROVE  FALSE
    BY <1>1, <2>1 DEF ConfigureMSDCGpios, SdCardHackDxeReturns, OtherDriverCalls, GpioGoesOn,
       WatchdogIsLoaded, ApplicationRuns, OsStarts, WatchdogPings, AppsTurn
  <2>2. ASSUME PollBegins \/ PollReads \/ PollWaits \/ PollGetsButton \/ PollReturns
        PROVE  FALSE
    BY <1>1, <1>2, <2>2 DEF PollBegins, PollStarts, PollReads, PollWaits, PollGetsButton,
       PollReturns, PollEnds, WacsStep, WacsWaitForIdle, WacsCommandData, WacsCommand,
       WacsWaitForValid, WacsReadData, WacsReadReturns, At
  <2>3. ASSUME PollGetsDir \/ PollGetsLevel \/ KeyMoves \/ TimePasses \/ UNCHANGED boardVars
        PROVE  UNCHANGED <<running, call>>
    BY <2>3 DEF PollGetsDir, PollGetsLevel, KeyMoves, TimePasses, boardVars, pmicVars, wrapperVars
  <2>4. ASSUME Hardware \/ ClockRuns \/ ButtonMoves
        PROVE  UNCHANGED <<running, call>>
    BY <2>4 DEF Hardware, ClockRuns, ButtonMoves, ClockTicks, HwExecutes, HwChanges
  <2> QED BY <2>1, <2>2, <2>3, <2>4 DEF BoardNext, PollStep
<1> QED BY <1>1, <1>3 DEF Hung, InFlight
-----------------------------------------------------------------------------
(* Every step of the board is a step of the wrapper's specification.         *)

LEMMA CoreStart == BoardInit => IInv /\ AppOK
BY InitIsGood, AppOKStart DEF BoardInit, PmicInit

LEMMA CoreStep == IInv /\ AppOK /\ [BoardNext]_boardVars => (IInv /\ AppOK)'
BY BoardIsWrapper, StepKeeps, AppOKStep

LEMMA CoreHolds == BoardSpec => [](IInv /\ AppOK)
BY CoreStart, CoreStep, PTL DEF BoardSpec

\* The application, the keypad's poll and the hardware together use the wrapper
\* as its specification has it, whatever the application calls.
THEOREM BoardImplementsWrapper == BoardSpec => WrapperSpec
<1>1. BoardInit => WrapperInit
  BY DEF BoardInit, PmicInit
<1>2. IInv /\ AppOK /\ [BoardNext]_boardVars => [WrapperNext]_wrapperVars
  BY BoardIsWrapper
<1> QED BY <1>1, <1>2, CoreHolds, PTL DEF BoardSpec, WrapperSpec
-----------------------------------------------------------------------------
(* The watchdog.                                                             *)

\* Counting down, the watchdog is behind by one period at most, with the ping
\* that makes up for it due, unless the firmware hangs; and what the ping timer
\* and the mode register are follows from the platform's working timer.
PingKeepsUp ==
    /\ stage = "boot" => left > 0
    /\ driver.exitEvent /\ stage = "boot" =>
         \/ left = Timeout
         \/ left = Timeout - 1 /\ pingDue
         \/ Hung
    /\ stage = "reset" /\ driver.exitEvent => Hung

TimerFollowsPlatform ==
    /\ driver.timer \/ pingDue => working
    /\ driver.exitEvent /\ stage = "boot" /\ working => driver.timer
    /\ working => enabled = backup
    /\ stage = "boot" /\ driver.loaded /\ ~working => ~enabled /\ left = Timeout

WatchInv == WatchdogTypeOK /\ PingKeepsUp /\ TimerFollowsPlatform

LEMMA WatchStart == BoardInit => WatchInv
<1> SUFFICES ASSUME BoardInit PROVE WatchInv
  OBVIOUS
<1>1. /\ working \in BOOLEAN /\ backup \in BOOLEAN /\ enabled = backup /\ left = Timeout
      /\ driver = [loaded |-> FALSE, timer |-> FALSE, exitEvent |-> FALSE]
      /\ pingDue = FALSE /\ stage = "boot"
  BY DEF BoardInit, WatchdogInit, NotLoaded
<1>2. WatchdogTypeOK
  <2>1. enabled \in BOOLEAN BY <1>1, Zenon
  <2>2. left \in 0 .. Timeout BY <1>1, TimeoutAssumption
  <2>3. driver \in [loaded : BOOLEAN, timer : BOOLEAN, exitEvent : BOOLEAN] BY <1>1
  <2>4. pingDue \in BOOLEAN BY <1>1, Zenon
  <2> QED BY <1>1, <2>1, <2>2, <2>3, <2>4 DEF WatchdogTypeOK
<1>3. PingKeepsUp BY <1>1, TimeoutAssumption DEF PingKeepsUp
<1>4. TimerFollowsPlatform BY <1>1 DEF TimerFollowsPlatform
<1> QED BY <1>2, <1>3, <1>4 DEF WatchInv

LEMMA WatchdogSteps ==
    ASSUME [BoardNext]_boardVars
    PROVE  WatchdogIsLoaded \/ OsStarts \/ WatchdogPings \/ TimePasses \/ UNCHANGED watchdogVars
BY DEF BoardNext, ConfigureMSDCGpios, SdCardHackDxeReturns, OtherDriverCalls, GpioGoesOn,
   ApplicationRuns, PollBegins, PollStep, PollGetsDir, PollGetsLevel, PollReads, PollWaits,
   PollGetsButton, PollReturns, Hardware, ClockRuns, ButtonMoves, KeyMoves, boardVars

LEMMA WatchStep ==
    ASSUME IInv, AppOK, WatchInv, [BoardNext]_boardVars
    PROVE  WatchInv'
<1> USE TimeoutAssumption
<1> USE DEF WatchInv, WatchdogTypeOK
<1>1. CASE WatchdogIsLoaded
  <2>1. PICK failure \in EntryFailures : WatchdogDxeEntry(failure)
    BY <1>1 DEF WatchdogIsLoaded
  <2>2. WatchdogTypeOK'
    BY <2>1 DEF WatchdogDxeEntry, SetTimeout
  <2>3. TimerFollowsPlatform'
    BY <2>1 DEF WatchdogDxeEntry, SetTimeout, TimerFollowsPlatform, EntryFailures
  <2>4. PingKeepsUp'
    BY <2>1 DEF WatchdogDxeEntry, SetTimeout, PingKeepsUp
  <2> QED BY <2>2, <2>3, <2>4
<1>2. CASE OsStarts
  <2>1. /\ stage' = "os" /\ ~pingDue' /\ driver' = [driver EXCEPT !.timer = FALSE]
        /\ UNCHANGED <<working, backup>> /\ driver.loaded /\ stage = "boot"
        /\ \/ working /\ left' = Timeout /\ enabled' = enabled
           \/ ~working /\ enabled' = backup /\ left' = left
           \/ UNCHANGED <<enabled, left>>
    BY <1>2 DEF OsStarts, ExitBootServices, PingWatchdogEvent
  <2>2. ~driver'.timer
    BY <2>1
  <2>3. WatchdogTypeOK'
    <3>1. enabled' \in BOOLEAN BY <2>1
    <3>2. left' \in 0 .. Timeout BY <2>1
    <3>3. driver' \in [loaded : BOOLEAN, timer : BOOLEAN, exitEvent : BOOLEAN] BY <2>1
    <3>4. pingDue' \in BOOLEAN BY <1>2 DEF OsStarts, ExitBootServices
    <3> QED BY <2>1, <3>1, <3>2, <3>3, <3>4
  <2>4. PingKeepsUp'
    BY <2>1 DEF PingKeepsUp
  <2>5. TimerFollowsPlatform'
    BY <2>1, <2>2 DEF TimerFollowsPlatform
  <2> QED BY <2>3, <2>4, <2>5
<1>3. CASE WatchdogPings
  <2>1. /\ stage = "boot" /\ pingDue /\ pingDue' = FALSE /\ working
        /\ left' \in {left, Timeout} /\ (driver.exitEvent => left' = Timeout)
        /\ UNCHANGED <<working, backup, driver, stage, enabled>>
    BY <1>3 DEF WatchdogPings, TimerPings, PingWatchdogEvent, TimerFollowsPlatform
  <2>2. WatchdogTypeOK'
    <3>1. pingDue' \in BOOLEAN BY <2>1, Zenon
    <3>2. left' \in 0 .. Timeout BY <2>1
    <3> QED BY <2>1, <3>1, <3>2
  <2>3. TimerFollowsPlatform'
    BY <2>1 DEF TimerFollowsPlatform
  <2>4. PingKeepsUp'
    BY <2>1 DEF PingKeepsUp
  <2> QED BY <2>2, <2>3, <2>4
<1>4. CASE TimePasses
  <2>1. /\ stage = "boot" /\ left' = IF enabled THEN left - 1 ELSE left
        /\ stage' = IF left' = 0 THEN "reset" ELSE stage
        /\ pingDue' = (pingDue \/ driver.timer)
        /\ UNCHANGED <<working, backup, enabled, driver>>
        /\ Hung \/ ~pingDue
    BY <1>4 DEF TimePasses, PeriodPasses, AppsTurn
  <2>2. left > 0 /\ (Hung => Hung')
    BY <2>1, HungLasts DEF PingKeepsUp
  <2>3. WatchdogTypeOK'
    BY <2>1, <2>2
  <2>4. TimerFollowsPlatform'
    BY <2>1 DEF TimerFollowsPlatform
  <2>5. stage' = "boot" => left' > 0
    BY <2>1, <2>2, <2>3
  <2>6. CASE Hung
    <3>1. PingKeepsUp'
      BY <2>2, <2>5, <2>6 DEF PingKeepsUp
    <3> QED BY <2>3, <2>4, <3>1
  <2>7. CASE ~Hung /\ driver.exitEvent
    <3>1. left = Timeout
      BY <2>1, <2>7 DEF PingKeepsUp
    <3>2. enabled => pingDue'
      BY <2>1, <2>7 DEF TimerFollowsPlatform, AppOK, AppPhase
    <3>3. stage' = "boot"
      BY <2>1, <3>1
    <3>4. left' = Timeout \/ (left' = Timeout - 1 /\ pingDue')
      BY <2>1, <3>1, <3>2
    <3>5. PingKeepsUp'
      BY <2>5, <3>3, <3>4 DEF PingKeepsUp
    <3> QED BY <2>3, <2>4, <3>5
  <2>8. CASE ~Hung /\ ~driver.exitEvent
    <3>1. PingKeepsUp'
      BY <2>1, <2>5, <2>8 DEF PingKeepsUp
    <3> QED BY <2>3, <2>4, <3>1
  <2> QED BY <2>3, <2>4, <2>6, <2>7, <2>8
<1>5. CASE UNCHANGED watchdogVars
  <2>1. WatchdogTypeOK' BY <1>5 DEF watchdogVars
  <2>2. PingKeepsUp' BY <1>5, HungLasts DEF watchdogVars, PingKeepsUp
  <2>3. TimerFollowsPlatform' BY <1>5 DEF watchdogVars, TimerFollowsPlatform
  <2> QED BY <2>1, <2>2, <2>3
<1> QED BY <1>1, <1>2, <1>3, <1>4, <1>5, WatchdogSteps

LEMMA WatchHolds == BoardSpec => [](IInv /\ AppOK /\ WatchInv)
BY CoreStart, CoreStep, WatchStart, WatchStep, PTL DEF BoardSpec

\* The watchdog of a driver that was loaded resets the board for a hang only: a
\* ping that is due comes before the counter has run out (WatchDogDxe.c:51-63).
THEOREM ResetsOnlyForHang == BoardSpec => []ResetOnlyOnHang
<1>1. WatchInv => ResetOnlyOnHang
  BY DEF WatchInv, PingKeepsUp, ResetOnlyOnHang
<1> QED BY <1>1, WatchHolds, PTL

\* The operating system gets the boot loader's mode and the whole timeout.
THEOREM WholeTimeoutHandedOver == BoardSpec => HandsOverWholeTimeout
<1> DEFINE Handed == stage = "boot" /\ stage' = "os" /\ driver.exitEvent
                       => enabled' = backup /\ left' = Timeout
<1>1. IInv /\ AppOK /\ WatchInv /\ [BoardNext]_boardVars => [Handed]_watchdogVars
  <2> SUFFICES ASSUME WatchInv, [BoardNext]_boardVars, stage = "boot", stage' = "os",
                      driver.exitEvent
               PROVE  enabled' = backup /\ left' = Timeout
    OBVIOUS
  <2>1. OsStarts
    BY WatchdogSteps DEF WatchdogIsLoaded, WatchdogDxeEntry, WatchdogPings, TimerPings,
       TimePasses, PeriodPasses, watchdogVars
  <2> QED BY <2>1 DEF OsStarts, ExitBootServices, PingWatchdogEvent, WatchInv, TimerFollowsPlatform
<1> QED BY <1>1, WatchHolds, PTL DEF BoardSpec, HandsOverWholeTimeout
-----------------------------------------------------------------------------
(* The GPIO driver.                                                          *)

\* The accesses a function for pin p may make: of bits that belong to the pin.
AccessesOf(p) ==
    {a \in [alias : BOOLEAN, reg : Registers, set : SUBSET Bits, clear : SUBSET Bits] :
        /\ a.reg[1] # "din"
        /\ \A b \in a.set \cup a.clear : <<a.reg, b>> \in Owned(p)}

\* What a read-modify-write cycle has read is still in the register.
GpioInv ==
    /\ gpio \in [Registers -> SUBSET Bits]
    /\ pinBusy \in Nat
    /\ accesses \in Seq(AccessesOf(pinBusy))
    /\ Len(accesses) <= 2
    /\ \/ contents = <<>>
       \/ /\ accesses # <<>> /\ ~Head(accesses).alias
          /\ contents = <<gpio[Head(accesses).reg]>>

LEMMA PinsAreNat == Pins \subseteq Nat /\ CardPins \subseteq Pins /\ KeyPin \in Pins /\ OtherPins \subseteq Pins
BY PinAssumption DEF Pins, CardPins

\* The bits of a pin in a mode register, whatever becomes of the shift for pin 8.
LEMMA ModeBitsAre ==
    ASSUME NEW p \in Nat, NEW m \in Number, NEW wraps \in BOOLEAN
    PROVE  /\ ModeBits(p, m, wraps) \subseteq Bits
           /\ ModeBits(p, m, wraps) \subseteq (p % 8) * 4 .. (p % 8) * 4 + 3
           /\ ModeBits(p, m, TRUE) = {(p % 8) * 4 + i : i \in m}
<1>1. ASSUME NEW i \in 0 .. 2
      PROVE  /\ Shifted(ModeBit(p) + i, TRUE) = {(p % 8) * 4 + i}
             /\ Shifted(ModeBit(p) + i, wraps) \subseteq {(p % 8) * 4 + i}
             /\ (p % 8) * 4 + i \in Bits
             /\ (p % 8) * 4 + i \in (p % 8) * 4 .. (p % 8) * 4 + 3
  <2> DEFINE n == ModeBit(p) + i
  <2>1. p % 8 \in 0 .. 7
    OBVIOUS
  <2>2. (p % 8) * 4 + i \in Nat /\ (p % 8) * 4 + i < 32
    BY <2>1
  <2>3. n \in Nat /\ (p # 8 => n = (p % 8) * 4 + i) /\ (p = 8 => n = 32 + i /\ p % 8 = 0)
    BY DEF ModeBit
  <2>4. n % 32 = (p % 8) * 4 + i
    BY <2>2, <2>3
  <2>5. n < 32 => n = (p % 8) * 4 + i
    BY <2>3
  <2> HIDE DEF n
  <2>6. Shifted(n, TRUE) = {(p % 8) * 4 + i} /\ Shifted(n, wraps) \subseteq {(p % 8) * 4 + i}
    BY <2>4, <2>5 DEF Shifted
  <2>7. Shifted(ModeBit(p) + i, TRUE) = {(p % 8) * 4 + i}
        /\ Shifted(ModeBit(p) + i, wraps) \subseteq {(p % 8) * 4 + i}
    BY <2>6 DEF n
  <2>8. (p % 8) * 4 + i \in Bits
    BY <2>2 DEF Bits
  <2>9. (p % 8) * 4 + i \in (p % 8) * 4 .. (p % 8) * 4 + 3
    BY <2>1
  <2> QED BY <2>7, <2>8, <2>9
<1>2. \A i \in m : i \in 0 .. 2
  BY DEF Number
<1>3. \A w, x : x \in ModeBits(p, m, w) <=> \E i \in m : x \in Shifted(ModeBit(p) + i, w)
  BY DEF ModeBits
<1>4. \A x \in ModeBits(p, m, wraps) : x \in Bits /\ x \in (p % 8) * 4 .. (p % 8) * 4 + 3
  <2> SUFFICES ASSUME NEW x \in ModeBits(p, m, wraps)
               PROVE  x \in Bits /\ x \in (p % 8) * 4 .. (p % 8) * 4 + 3
    OBVIOUS
  <2>1. PICK i \in m : x \in Shifted(ModeBit(p) + i, wraps)
    BY <1>3
  <2>2. x = (p % 8) * 4 + i
    BY <1>1, <1>2, <2>1
  <2> QED BY <1>1, <1>2, <2>2
<1>5. \A x : x \in ModeBits(p, m, TRUE) <=> \E i \in m : x = (p % 8) * 4 + i
  <2>1. \A i \in m : \A x : x \in Shifted(ModeBit(p) + i, TRUE) <=> x = (p % 8) * 4 + i
    BY <1>1, <1>2
  <2> QED BY <1>3, <2>1
<1> QED BY <1>4, <1>5

LEMMA RegistersAre ==
    ASSUME NEW p \in Pins
    PROVE  /\ ModeReg(p) \in Registers /\ ModeReg(p)[1] = "mode"
           /\ \A k \in {"dir", "dout", "din"} : OfPin(k, p) \in Registers /\ OfPin(k, p)[1] = k
           /\ \A k \in {"drv", "r0", "r1", "pupd"} : Shared(k) \in Registers /\ Shared(k)[1] = k
BY DEF Registers, ModeReg, OfPin, Shared

LEMMA OneOrTwo ==
    ASSUME NEW S, NEW a \in S, NEW b \in S
    PROVE  /\ <<a>> \in Seq(S) /\ Len(<<a>>) = 1
           /\ <<a, b>> \in Seq(S) /\ Len(<<a, b>>) = 2
OBVIOUS

LEMMA SetModeAccesses ==
    ASSUME NEW p \in Pins, NEW m \in Number, NEW wraps \in BOOLEAN
    PROVE  SetMode(p, m, wraps) \in Seq(AccessesOf(p)) /\ Len(SetMode(p, m, wraps)) <= 2
<1> DEFINE off == (0 .. 2) \ m
<1>1. p \in Nat /\ off \in Number
  BY PinsAreNat DEF Number
<1>2. ASSUME NEW n \in Number, NEW b \in ModeBits(p, n, wraps)
      PROVE  b \in Bits /\ <<ModeReg(p), b>> \in Owned(p)
  BY <1>1, ModeBitsAre DEF Owned
<1>3. SetAlias(ModeReg(p), ModeBits(p, m, wraps)) \in AccessesOf(p)
  BY <1>2, RegistersAre DEF AccessesOf, SetAlias, Access
<1>4. ResetAlias(ModeReg(p), ModeBits(p, off, wraps)) \in AccessesOf(p)
  <2> HIDE DEF off
  <2> QED BY <1>1, <1>2, RegistersAre DEF AccessesOf, ResetAlias, Access
<1> HIDE DEF off
<1>5. SetMode(p, m, wraps) = <<SetAlias(ModeReg(p), ModeBits(p, m, wraps)),
                               ResetAlias(ModeReg(p), ModeBits(p, off, wraps))>>
  BY DEF SetMode, off
<1> QED BY <1>3, <1>4, <1>5, OneOrTwo

LEMMA LevelAccesses ==
    ASSUME NEW p \in Pins, NEW on \in BOOLEAN
    PROVE  \A todo \in {SetDir(p, on), Set(p, on)} :
              todo \in Seq(AccessesOf(p)) /\ Len(todo) <= 2
<1>1. p \in Nat /\ BitOf(p) \in Bits
  BY PinsAreNat DEF BitOf, Bits
<1>2. ASSUME NEW k \in {"dir", "dout"}
      PROVE  /\ SetAlias(OfPin(k, p), {BitOf(p)}) \in AccessesOf(p)
             /\ ResetAlias(OfPin(k, p), {BitOf(p)}) \in AccessesOf(p)
  <2>1. <<OfPin(k, p), BitOf(p)>> \in Owned(p)
    BY DEF Owned
  <2> QED BY <1>1, <2>1, RegistersAre DEF AccessesOf, SetAlias, ResetAlias, Access
<1>3. SetDir(p, on) \in Seq(AccessesOf(p)) /\ Len(SetDir(p, on)) <= 2
  <2>1. CASE on BY <1>2, <2>1, OneOrTwo DEF SetDir
  <2>2. CASE ~on BY <1>2, <2>2, OneOrTwo DEF SetDir
  <2> QED BY <2>1, <2>2
<1>4. Set(p, on) \in Seq(AccessesOf(p)) /\ Len(Set(p, on)) <= 2
  <2>1. CASE on BY <1>2, <2>1, OneOrTwo DEF Set
  <2>2. CASE ~on BY <1>2, <2>2, OneOrTwo DEF Set
  <2> QED BY <2>1, <2>2
<1> QED BY <1>3, <1>4

LEMMA TableAccesses ==
    ASSUME NEW p \in Pins \cap InTables, NEW m \in Number, NEW on \in BOOLEAN
    PROVE  \A todo \in {SetDrv(p, m), SetR0(p), SetR1(p), SetPupd(p, on)} :
              todo \in Seq(AccessesOf(p)) /\ Len(todo) <= 2
<1>1. Rmw(Shared("drv"), {Drv[p] + i : i \in m}, DrvBits(p)) \in AccessesOf(p)
  <2>1. DrvBits(p) \subseteq Bits /\ {Drv[p] + i : i \in m} \subseteq DrvBits(p)
    BY GpioAssumption DEF InTables, Bits, DrvBits, Number
  <2>2. \A b \in DrvBits(p) : <<Shared("drv"), b>> \in Owned(p)
    BY DEF Owned, InTables
  <2> DEFINE S == {Drv[p] + i : i \in m}
  <2> HIDE DEF S
  <2>3. \A T : T \subseteq DrvBits(p) => Rmw(Shared("drv"), T, DrvBits(p)) \in AccessesOf(p)
    BY <2>1, <2>2, RegistersAre DEF AccessesOf, Rmw, Access
  <2> QED BY <2>1, <2>3
<1>2. ASSUME NEW k \in {"r0", "r1", "pupd"}
      PROVE  /\ Rmw(Shared(k), {RPins[p]}, {}) \in AccessesOf(p)
             /\ Rmw(Shared(k), {}, {RPins[p]}) \in AccessesOf(p)
  <2>1. RPins[p] \in Bits
    BY GpioAssumption DEF InTables
  <2>2. <<Shared(k), RPins[p]>> \in Owned(p)
    BY DEF Owned, InTables
  <2> QED BY <2>1, <2>2, RegistersAre DEF AccessesOf, Rmw, Access
<1>3. SetDrv(p, m) \in Seq(AccessesOf(p)) /\ Len(SetDrv(p, m)) <= 2
  BY <1>1, OneOrTwo DEF SetDrv
<1>4. SetR0(p) \in Seq(AccessesOf(p)) /\ Len(SetR0(p)) <= 2
  BY <1>2, OneOrTwo DEF SetR0
<1>5. SetR1(p) \in Seq(AccessesOf(p)) /\ Len(SetR1(p)) <= 2
  BY <1>2, OneOrTwo DEF SetR1
<1>6. SetPupd(p, on) \in Seq(AccessesOf(p)) /\ Len(SetPupd(p, on)) <= 2
  <2>1. CASE on BY <1>2, <2>1, OneOrTwo DEF SetPupd
  <2>2. CASE ~on BY <1>2, <2>2, OneOrTwo DEF SetPupd
  <2> QED BY <2>1, <2>2
<1> QED BY <1>3, <1>4, <1>5, <1>6

LEMMA CardPinOf ==
    ASSUME NEW k \in Nat, k < CardCalls
    PROVE  CardPin(k) \in CardPins /\ CardPin(k) \in Pins \cap InTables /\ k % 4 \in 0 .. 3
BY PinAssumption, PinsAreNat DEF CardPin, CardCalls, CardPins

LEMMA CardCallIs ==
    ASSUME NEW k \in Nat
    PROVE  /\ k % 4 = 0 => CardCall(k) = SetMode(CardPin(k), {0}, TRUE)
           /\ k % 4 = 1 => CardCall(k) = SetDrv(CardPin(k), {0, 1})
           /\ k % 4 = 2 => CardCall(k) = SetR0(CardPin(k))
           /\ k % 4 = 3 => \E down \in BOOLEAN : /\ down <=> CardPin(k) = FirstCardPin
                                                 /\ CardCall(k) = SetPupd(CardPin(k), down)
<1> DEFINE p == CardPin(k)
           A == SetMode(p, {0}, TRUE)
           B == SetDrv(p, {0, 1})
           C == SetR0(p)
           D == SetPupd(p, p = FirstCardPin)
<1>1. CardCall(k) = <<A, B, C, D>>[1 + (k % 4)]
  BY Zenon DEF CardCall, CallsFor
<1>2. \E down \in BOOLEAN : (down <=> p = FirstCardPin) /\ D = SetPupd(p, down)
  BY Zenon
<1> HIDE DEF A, B, C, D
<1>3. /\ k % 4 = 0 => CardCall(k) = A
      /\ k % 4 = 1 => CardCall(k) = B
      /\ k % 4 = 2 => CardCall(k) = C
      /\ k % 4 = 3 => CardCall(k) = D
  BY <1>1
<1> QED BY <1>2, <1>3, Zenon DEF A, B, C, D

LEMMA GpioSteps ==
    ASSUME [BoardNext]_boardVars
    PROVE  ConfigureMSDCGpios \/ OtherDriverCalls \/ GpioGoesOn \/ KeyMoves \/ UNCHANGED gpioVars
BY DEF BoardNext, SdCardHackDxeReturns, WatchdogIsLoaded, OsStarts, WatchdogPings, TimePasses,
   ApplicationRuns, PollBegins, PollStep, PollGetsDir, PollGetsLevel, PollReads, PollWaits,
   PollGetsButton, PollReturns, Hardware, ClockRuns, ButtonMoves, boardVars

LEMMA CallsKeepGpio ==
    ASSUME GpioInv, NEW p \in Pins, NEW todo \in Seq(AccessesOf(p)), Len(todo) <= 2,
           GpioCalls(p, todo)
    PROVE  GpioInv'
BY PinsAreNat DEF GpioInv, GpioCalls, AccessesOf, Owned, Registers

LEMMA GpioStart == BoardInit => GpioInv
<1> SUFFICES ASSUME BoardInit PROVE GpioInv
  OBVIOUS
<1>1. gpio \in [Registers -> SUBSET Bits]
  BY DEF BoardInit, GpioInit
<1>2. accesses = <<>> /\ pinBusy = 0 /\ contents = <<>>
  BY DEF BoardInit, GpioInit
<1> QED BY <1>1, <1>2 DEF GpioInv

\* An access changes bits of the pin it is for, in the register it is made to.
LEMMA AccessEffect ==
    ASSUME GpioInv, GpioAccess
    PROVE  /\ accesses # <<>> /\ Head(accesses) \in AccessesOf(pinBusy) /\ pinBusy' = pinBusy
           /\ \/ UNCHANGED <<gpio, accesses>> /\ ~Head(accesses).alias
                 /\ contents' = <<gpio[Head(accesses).reg]>>
              \/ /\ accesses' = Tail(accesses) /\ contents' = <<>>
                 /\ gpio' = [gpio EXCEPT ![Head(accesses).reg] =
                                Updated(gpio[Head(accesses).reg], Head(accesses))]
<1>1. accesses # <<>> /\ accesses \in Seq(AccessesOf(pinBusy))
  BY DEF GpioInv, GpioAccess
<1>2. Head(accesses) \in AccessesOf(pinBusy)
  BY <1>1
<1>3. CASE ~Head(accesses).alias /\ contents = <<>>
  BY <1>1, <1>2, <1>3 DEF GpioAccess
<1>4. CASE Head(accesses).alias
  BY <1>1, <1>2, <1>4 DEF GpioAccess
<1>5. CASE ~Head(accesses).alias /\ contents # <<>>
  <2>1. contents[1] = gpio[Head(accesses).reg]
    BY <1>5 DEF GpioInv
  <2> QED BY <1>1, <1>2, <1>5, <2>1 DEF GpioAccess
<1> QED BY <1>3, <1>4, <1>5

LEMMA AccessKeepsGpio ==
    ASSUME GpioInv, GpioAccess
    PROVE  GpioInv'
<1> DEFINE a == Head(accesses)
<1>1. accesses \in Seq(AccessesOf(pinBusy)) /\ accesses # <<>> /\ pinBusy' = pinBusy
      /\ a \in AccessesOf(pinBusy)
  BY AccessEffect DEF GpioInv
<1>2. a.reg \in Registers /\ a.set \subseteq Bits /\ a.clear \subseteq Bits
  BY <1>1 DEF AccessesOf
<1>3. CASE UNCHANGED <<gpio, accesses>> /\ ~a.alias /\ contents' = <<gpio[a.reg]>>
  BY <1>1, <1>3 DEF GpioInv, AccessesOf
<1>4. CASE /\ accesses' = Tail(accesses) /\ contents' = <<>>
           /\ gpio' = [gpio EXCEPT ![a.reg] = Updated(gpio[a.reg], a)]
  <2>1. Tail(accesses) \in Seq(AccessesOf(pinBusy)) /\ Len(Tail(accesses)) <= 2
    BY <1>1 DEF GpioInv
  <2>2. gpio[a.reg] \subseteq Bits
    BY <1>2 DEF GpioInv
  <2>3. Updated(gpio[a.reg], a) \subseteq Bits
    BY <1>2, <2>2 DEF Updated
  <2>4. gpio' \in [Registers -> SUBSET Bits]
    BY <1>2, <1>4, <2>3 DEF GpioInv
  <2>5. AccessesOf(pinBusy)' = AccessesOf(pinBusy)
    BY <1>1 DEF AccessesOf, Registers, Owned
  <2> QED BY <1>1, <1>4, <2>1, <2>4, <2>5 DEF GpioInv
<1> QED BY <1>3, <1>4, AccessEffect

LEMMA KeyKeepsGpio ==
    ASSUME GpioInv, KeyMoves
    PROVE  /\ GpioInv' /\ UNCHANGED <<accesses, pinBusy, contents>>
           /\ \A r \in Registers : r[1] # "din" => gpio'[r] = gpio[r]
<1> DEFINE r0 == OfPin("din", KeyPin)
<1>1. r0 \in Registers /\ r0[1] = "din" /\ BitOf(KeyPin) \in Bits
  BY PinsAreNat, RegistersAre, PinAssumption DEF BitOf, Bits
<1>2. UNCHANGED <<accesses, pinBusy, contents>>
  BY DEF KeyMoves, PinChanges
<1> HIDE DEF r0
<1>3. PICK s \in SUBSET Bits : gpio' = [gpio EXCEPT ![r0] = s]
  <2>1. gpio[r0] \subseteq Bits BY <1>1 DEF GpioInv
  <2> QED BY <1>1, <2>1 DEF KeyMoves, PinChanges, r0
<1>4. gpio' \in [Registers -> SUBSET Bits] /\ \A r \in Registers : r[1] # "din" => gpio'[r] = gpio[r]
  BY <1>1, <1>3 DEF GpioInv
<1>5. contents # <<>> => gpio'[Head(accesses).reg] = gpio[Head(accesses).reg]
  <2>1. contents # <<>> => Head(accesses) \in AccessesOf(pinBusy)
    BY DEF GpioInv
  <2> QED BY <1>4, <2>1 DEF AccessesOf
<1>6. AccessesOf(pinBusy)' = AccessesOf(pinBusy)
  BY <1>2 DEF AccessesOf, Registers, Owned
<1> QED BY <1>2, <1>4, <1>5, <1>6 DEF GpioInv

LEMMA GpioStep ==
    ASSUME AppOK, GpioInv, [BoardNext]_boardVars
    PROVE  GpioInv'
<1>1. CASE ConfigureMSDCGpios
  <2> DEFINE k == app.step
             p == CardPin(k)
  <2>1. k \in Nat /\ k < CardCalls /\ GpioCalls(p, CardCall(k))
    BY <1>1 DEF ConfigureMSDCGpios, AppOK, AppFields
  <2>2. p \in Pins \cap InTables /\ k % 4 \in 0 .. 3
    BY <2>1, CardPinOf
  <2>3. CardCall(k) \in Seq(AccessesOf(p)) /\ Len(CardCall(k)) <= 2
    <3> HIDE DEF k
    <3>1. {0} \in Number /\ {0, 1} \in Number
      BY DEF Number
    <3>2. CASE k % 4 = 0
      BY <2>1, <2>2, <3>1, <3>2, CardCallIs, SetModeAccesses
    <3>3. CASE k % 4 = 1
      BY <2>1, <2>2, <3>1, <3>3, CardCallIs, TableAccesses
    <3>4. CASE k % 4 = 2
      BY <2>1, <2>2, <3>1, <3>4, CardCallIs, TableAccesses
    <3>5. CASE k % 4 = 3
      BY <2>1, <2>2, <3>1, <3>5, CardCallIs, TableAccesses
    <3> QED BY <2>2, <3>2, <3>3, <3>4, <3>5
  <2> QED BY <2>1, <2>2, <2>3, CallsKeepGpio
<1>2. CASE OtherDriverCalls
  <2>1. PICK p \in OtherPins, on \in BOOLEAN, wraps \in BOOLEAN, m \in {{0}, {1, 2}} :
          \E todo \in {SetMode(p, m, wraps), SetDir(p, on), Set(p, on)}
                      \cup (IF p \in InTables THEN {SetR1(p), SetDrv(p, m), SetPupd(p, on)} ELSE {}) :
             GpioCalls(p, todo)
    BY <1>2 DEF OtherDriverCalls
  <2>2. PICK todo \in {SetMode(p, m, wraps), SetDir(p, on), Set(p, on)}
                      \cup (IF p \in InTables THEN {SetR1(p), SetDrv(p, m), SetPupd(p, on)} ELSE {}) :
             GpioCalls(p, todo)
    BY <2>1
  <2>3. p \in Pins /\ m \in Number
    BY PinsAreNat DEF Number
  <2>4. todo \in Seq(AccessesOf(p)) /\ Len(todo) <= 2
    <3>1. CASE todo = SetMode(p, m, wraps) BY <2>3, <3>1, SetModeAccesses
    <3>2. CASE todo \in {SetDir(p, on), Set(p, on)} BY <2>3, <3>2, LevelAccesses
    <3>3. CASE p \in InTables /\ todo \in {SetR1(p), SetDrv(p, m), SetPupd(p, on)}
      BY <2>3, <3>3, TableAccesses
    <3> QED BY <2>2, <3>1, <3>2, <3>3
  <2> QED BY <2>2, <2>3, <2>4, CallsKeepGpio
<1>3. CASE GpioGoesOn
  BY <1>3, AccessKeepsGpio DEF GpioGoesOn
<1>4. CASE KeyMoves
  BY <1>4, KeyKeepsGpio
<1>5. CASE UNCHANGED gpioVars
  BY <1>5 DEF gpioVars, GpioInv, AccessesOf, Registers, Owned
<1> QED BY <1>1, <1>2, <1>3, <1>4, <1>5, GpioSteps

LEMMA GpioHolds == BoardSpec => [](AppOK /\ GpioInv)
BY CoreStart, CoreStep, GpioStart, GpioStep, PTL DEF BoardSpec

\* The SD card driver's and another driver's calls change bits of the pin they
\* are for only, whichever pins, tables and layout of fields the assumptions
\* allow, with the key moving and the poll reading it between any two accesses.
THEOREM OtherPinsUntouched == BoardSpec => OnlyItsPin
<1> DEFINE Own == accesses # <<>> =>
          \A r \in DOMAIN gpio : \A b \in (gpio[r] \ gpio'[r]) \cup (gpio'[r] \ gpio[r]) :
             r[1] = "din" \/ <<r, b>> \in Owned(pinBusy)
<1>1. AppOK /\ GpioInv /\ [BoardNext]_boardVars => [Own]_gpioVars
  <2> SUFFICES ASSUME AppOK, GpioInv, [BoardNext]_boardVars, accesses # <<>>,
                      NEW r \in Registers, r[1] # "din", NEW b,
                      b \in (gpio[r] \ gpio'[r]) \cup (gpio'[r] \ gpio[r])
               PROVE  <<r, b>> \in Owned(pinBusy)
    BY DEF GpioInv
  <2>1. CASE ConfigureMSDCGpios \/ OtherDriverCalls
    BY <2>1 DEF ConfigureMSDCGpios, OtherDriverCalls, GpioCalls
  <2>2. CASE GpioGoesOn
    <3> DEFINE a == Head(accesses)
    <3>1. a \in AccessesOf(pinBusy)
      BY <2>2, AccessEffect DEF GpioGoesOn
    <3>2. gpio' = [gpio EXCEPT ![a.reg] = Updated(gpio[a.reg], a)] \/ gpio' = gpio
      BY <2>2, AccessEffect DEF GpioGoesOn
    <3> HIDE DEF a
    <3>3. r = a.reg /\ gpio'[r] = Updated(gpio[r], a)
      BY <3>2 DEF GpioInv
    <3>4. b \in a.set \cup a.clear
      BY <3>3 DEF Updated
    <3> QED BY <3>1, <3>3, <3>4 DEF AccessesOf
  <2>3. CASE KeyMoves
    BY <2>3, KeyKeepsGpio
  <2>4. CASE UNCHANGED gpioVars
    BY <2>4 DEF gpioVars
  <2> QED BY <2>1, <2>2, <2>3, <2>4, GpioSteps
<1> QED BY <1>1, GpioHolds, PTL DEF BoardSpec, OnlyItsPin
-----------------------------------------------------------------------------
(* The clock.                                                                *)

\* What has been read of a time so far, with the clock's own fields for the rest.
Padded(got, t) == [i \in Fields |-> IF i <= Len(got) THEN got[i] ELSE Digits(t)[i]]

\* Each field carries into the next.
LEMMA Carries ==
    ASSUME NEW t \in Nat
    PROVE  /\ Minutes(t) \in Nat /\ Hours(t) \in Nat /\ Days(t) \in Nat /\ Months(t) \in Nat
           /\ Years(t) \in Nat
           /\ \A i \in Fields : Digits(t)[i] \in Nat
           /\ t = Digits(t)[1] + Radix[1] * Minutes(t)
           /\ Minutes(t) = Digits(t)[2] + Radix[2] * Hours(t)
           /\ Hours(t) = Digits(t)[3] + Radix[3] * Days(t)
           /\ Days(t) = Digits(t)[4] + Radix[4] * Months(t)
           /\ Months(t) = Digits(t)[5] + Radix[5] * Digits(t)[6]
           /\ Digits(t)[6] = Years(t)
<1>0. /\ Radix[1] \in Nat \ {0} /\ Radix[2] \in Nat \ {0} /\ Radix[3] \in Nat \ {0}
      /\ Radix[4] \in Nat \ {0} /\ Radix[5] \in Nat \ {0}
  BY ClockAssumption
<1>1. \A a \in Nat, n \in Nat \ {0} :
         a \div n \in Nat /\ a % n \in Nat /\ a = (a % n) + n * (a \div n)
  BY DivMod
<1>2. Minutes(t) \in Nat /\ t % Radix[1] \in Nat
      /\ t = (t % Radix[1]) + Radix[1] * Minutes(t)
  BY <1>0, <1>1, Zenon DEF Minutes
<1>3. Hours(t) \in Nat /\ Minutes(t) % Radix[2] \in Nat
      /\ Minutes(t) = (Minutes(t) % Radix[2]) + Radix[2] * Hours(t)
  BY <1>0, <1>1, <1>2, Zenon DEF Hours
<1>4. Days(t) \in Nat /\ Hours(t) % Radix[3] \in Nat
      /\ Hours(t) = (Hours(t) % Radix[3]) + Radix[3] * Days(t)
  BY <1>0, <1>1, <1>3, Zenon DEF Days
<1>5. Months(t) \in Nat /\ Days(t) % Radix[4] \in Nat
      /\ Days(t) = (Days(t) % Radix[4]) + Radix[4] * Months(t)
  BY <1>0, <1>1, <1>4, Zenon DEF Months
<1>6. Years(t) \in Nat /\ Months(t) % Radix[5] \in Nat
      /\ Months(t) = (Months(t) % Radix[5]) + Radix[5] * Years(t)
  BY <1>0, <1>1, <1>5, Zenon DEF Years
<1>7. /\ Digits(t)[1] = t % Radix[1] /\ Digits(t)[2] = Minutes(t) % Radix[2]
      /\ Digits(t)[3] = Hours(t) % Radix[3] /\ Digits(t)[4] = Days(t) % Radix[4]
      /\ Digits(t)[5] = Months(t) % Radix[5] /\ Digits(t)[6] = Years(t)
  BY DEF Digits
<1>8. \A i \in Fields : i \in {1, 2, 3, 4, 5, 6}
  BY DEF Fields, RtcReg
<1>9. \A i \in Fields : Digits(t)[i] \in Nat
  BY <1>2, <1>3, <1>4, <1>5, <1>6, <1>7, <1>8
<1> QED BY <1>2, <1>3, <1>4, <1>5, <1>6, <1>7, <1>9

\* The time that the fields of Padded make, by how many of them were read.
LEMMA PaddedTimes ==
    ASSUME NEW g, NEW t \in Nat
    PROVE  /\ Len(g) = 0 => TimeOf(Padded(g, t)) = t
           /\ Len(g) = 1 => TimeOf(Padded(g, t)) = g[1] + Radix[1] * Minutes(t)
           /\ Len(g) = 2 => TimeOf(Padded(g, t)) = g[1] + Radix[1] * (g[2] + Radix[2] * Hours(t))
           /\ Len(g) = 3 => TimeOf(Padded(g, t)) =
                 g[1] + Radix[1] * (g[2] + Radix[2] * (g[3] + Radix[3] * Days(t)))
           /\ Len(g) = 4 => TimeOf(Padded(g, t)) =
                 g[1] + Radix[1] * (g[2] + Radix[2] * (g[3] + Radix[3] * (g[4] + Radix[4] * Months(t))))
           /\ Len(g) = 5 => TimeOf(Padded(g, t)) =
                 g[1] + Radix[1] * (g[2] + Radix[2] * (g[3] + Radix[3] *
                    (g[4] + Radix[4] * (g[5] + Radix[5] * Years(t)))))
           /\ Len(g) = 6 => TimeOf(Padded(g, t)) = TimeOf(g)
<1> DEFINE p == Padded(g, t)
           v5 == p[5] + Radix[5] * p[6]
           v4 == p[4] + Radix[4] * v5
           v3 == p[3] + Radix[3] * v4
           v2 == p[2] + Radix[2] * v3
<1>1. \A i \in 1 .. 6 : p[i] = IF i <= Len(g) THEN g[i] ELSE Digits(t)[i]
  BY DEF Padded, Fields, RtcReg
<1>2. TimeOf(p) = p[1] + Radix[1] * v2
  BY DEF TimeOf
<1> HIDE DEF p
<1>3. Len(g) < 5 /\ Len(g) \in Nat => v5 = Months(t)
  <2>1. Len(g) < 5 /\ Len(g) \in Nat => p[5] = Digits(t)[5] /\ p[6] = Digits(t)[6]
    BY <1>1
  <2> QED BY <2>1, Carries, Zenon
<1>4. Len(g) < 4 /\ Len(g) \in Nat => v4 = Days(t)
  <2> HIDE DEF v5
  <2>1. Len(g) < 4 /\ Len(g) \in Nat => p[4] = Digits(t)[4] /\ v5 = Months(t)
    BY <1>1, <1>3
  <2> QED BY <2>1, Carries, Zenon
<1>5. Len(g) < 3 /\ Len(g) \in Nat => v3 = Hours(t)
  <2> HIDE DEF v4
  <2>1. Len(g) < 3 /\ Len(g) \in Nat => p[3] = Digits(t)[3] /\ v4 = Days(t)
    BY <1>1, <1>4
  <2> QED BY <2>1, Carries, Zenon
<1>6. Len(g) < 2 /\ Len(g) \in Nat => v2 = Minutes(t)
  <2> HIDE DEF v3
  <2>1. Len(g) < 2 /\ Len(g) \in Nat => p[2] = Digits(t)[2] /\ v3 = Hours(t)
    BY <1>1, <1>5
  <2> QED BY <2>1, Carries, Zenon
<1>7. Len(g) = 0 => TimeOf(p) = t
  <2> HIDE DEF v2
  <2>1. Len(g) = 0 => p[1] = Digits(t)[1] /\ v2 = Minutes(t)
    BY <1>1, <1>6
  <2> QED BY <1>2, <2>1, Carries, Zenon
<1>8. Len(g) = 1 => TimeOf(p) = g[1] + Radix[1] * Minutes(t)
  BY <1>1, <1>2, <1>6
<1>9. Len(g) = 2 => TimeOf(p) = g[1] + Radix[1] * (g[2] + Radix[2] * Hours(t))
  BY <1>1, <1>2, <1>5
<1>10. Len(g) = 3 => TimeOf(p) =
                        g[1] + Radix[1] * (g[2] + Radix[2] * (g[3] + Radix[3] * Days(t)))
  BY <1>1, <1>2, <1>4
<1>11. Len(g) = 4 => TimeOf(p) =
          g[1] + Radix[1] * (g[2] + Radix[2] * (g[3] + Radix[3] * (g[4] + Radix[4] * Months(t))))
  BY <1>1, <1>2, <1>3
<1>12. Len(g) = 5 => TimeOf(p) =
          g[1] + Radix[1] * (g[2] + Radix[2] * (g[3] + Radix[3] *
             (g[4] + Radix[4] * (g[5] + Radix[5] * Years(t)))))
  <2>1. Len(g) = 5 => /\ p[1] = g[1] /\ p[2] = g[2] /\ p[3] = g[3] /\ p[4] = g[4]
                      /\ p[5] = g[5] /\ p[6] = Digits(t)[6]
    BY <1>1
  <2>2. Digits(t)[6] = Years(t)
    BY Carries
  <2> QED BY <1>2, <2>1, <2>2
<1>13. Len(g) = 6 => TimeOf(p) = TimeOf(g)
  BY <1>1, <1>2 DEF TimeOf
<1> QED BY <1>7, <1>8, <1>9, <1>10, <1>11, <1>12, <1>13 DEF p
\* A clock that has gone on makes the time of the same readings later, or leaves it.
LEMMA PaddedLater ==
    ASSUME NEW g \in Seq(Nat), Len(g) <= 6, NEW t \in Nat, NEW u \in Nat, t <= u
    PROVE  TimeOf(Padded(g, t)) <= TimeOf(Padded(g, u))
<1>1. \A a \in Nat, n \in Nat \ {0}, x, y \in Nat :
         x <= y => a + n * x <= a + n * y /\ a + n * x \in Nat /\ a + n * y \in Nat
  BY Scaled
<1>2. \A a, b \in Nat, n \in Nat \ {0} : a <= b => a \div n <= b \div n
  BY DivMonotone
<1>3. /\ Radix[1] \in Nat \ {0} /\ Radix[2] \in Nat \ {0} /\ Radix[3] \in Nat \ {0}
      /\ Radix[4] \in Nat \ {0} /\ Radix[5] \in Nat \ {0}
  BY ClockAssumption
<1>4. /\ Minutes(t) \in Nat /\ Hours(t) \in Nat /\ Days(t) \in Nat /\ Months(t) \in Nat /\ Years(t) \in Nat
      /\ Minutes(u) \in Nat /\ Hours(u) \in Nat /\ Days(u) \in Nat /\ Months(u) \in Nat /\ Years(u) \in Nat
  BY Carries
<1>5. Minutes(t) <= Minutes(u) BY <1>2, <1>3, Zenon DEF Minutes
<1>6. Hours(t) <= Hours(u) BY <1>2, <1>3, <1>4, <1>5, Zenon DEF Hours
<1>7. Days(t) <= Days(u) BY <1>2, <1>3, <1>4, <1>6, Zenon DEF Days
<1>8. Months(t) <= Months(u) BY <1>2, <1>3, <1>4, <1>7, Zenon DEF Months
<1>9. Years(t) <= Years(u) BY <1>2, <1>3, <1>4, <1>8, Zenon DEF Years
<1>10. \A i \in 1 .. 6 : i <= Len(g) => g[i] \in Nat
  OBVIOUS
<1>11. CASE Len(g) = 0
  BY <1>11, PaddedTimes
<1>12. CASE Len(g) = 1
  <2>1. g[1] \in Nat BY <1>10, <1>12
  <2>2. g[1] + Radix[1] * Minutes(t) <= g[1] + Radix[1] * Minutes(u)
    BY <1>1, <1>3, <1>4, <1>5, <2>1
  <2> QED BY <1>12, <2>2, PaddedTimes, Zenon
<1>13. CASE Len(g) = 2
  <2>1. g[1] \in Nat /\ g[2] \in Nat BY <1>10, <1>13
  <2> DEFINE a == g[2] + Radix[2] * Hours(t)
             b == g[2] + Radix[2] * Hours(u)
  <2>2. a <= b /\ a \in Nat /\ b \in Nat BY <1>1, <1>3, <1>4, <1>6, <2>1, Zenon
  <2> HIDE DEF a, b
  <2>3. g[1] + Radix[1] * a <= g[1] + Radix[1] * b BY <1>1, <1>3, <2>1, <2>2, Zenon
  <2> QED BY <1>13, <2>3, PaddedTimes, Zenon DEF a, b
<1>14. CASE Len(g) = 3
  <2>1. g[1] \in Nat /\ g[2] \in Nat /\ g[3] \in Nat BY <1>10, <1>14
  <2> DEFINE a == g[3] + Radix[3] * Days(t)
             b == g[3] + Radix[3] * Days(u)
             c == g[2] + Radix[2] * a
             d == g[2] + Radix[2] * b
  <2>2. a <= b /\ a \in Nat /\ b \in Nat BY <1>1, <1>3, <1>4, <1>7, <2>1, Zenon
  <2> HIDE DEF a, b
  <2>3. c <= d /\ c \in Nat /\ d \in Nat BY <1>1, <1>3, <2>1, <2>2, Zenon
  <2> HIDE DEF c, d
  <2>4. g[1] + Radix[1] * c <= g[1] + Radix[1] * d BY <1>1, <1>3, <2>1, <2>3, Zenon
  <2> QED BY <1>14, <2>4, PaddedTimes, Zenon DEF a, b, c, d
<1>15. CASE Len(g) = 4
  <2>1. g[1] \in Nat /\ g[2] \in Nat /\ g[3] \in Nat /\ g[4] \in Nat BY <1>10, <1>15
  <2> DEFINE a == g[4] + Radix[4] * Months(t)
             b == g[4] + Radix[4] * Months(u)
             c == g[3] + Radix[3] * a
             d == g[3] + Radix[3] * b
             e == g[2] + Radix[2] * c
             f == g[2] + Radix[2] * d
  <2>2. a <= b /\ a \in Nat /\ b \in Nat BY <1>1, <1>3, <1>4, <1>8, <2>1, Zenon
  <2> HIDE DEF a, b
  <2>3. c <= d /\ c \in Nat /\ d \in Nat BY <1>1, <1>3, <2>1, <2>2, Zenon
  <2> HIDE DEF c, d
  <2>4. e <= f /\ e \in Nat /\ f \in Nat BY <1>1, <1>3, <2>1, <2>3, Zenon
  <2> HIDE DEF e, f
  <2>5. g[1] + Radix[1] * e <= g[1] + Radix[1] * f BY <1>1, <1>3, <2>1, <2>4, Zenon
  <2> QED BY <1>15, <2>5, PaddedTimes, Zenon DEF a, b, c, d, e, f
<1>16. CASE Len(g) = 5
  <2>1. g[1] \in Nat /\ g[2] \in Nat /\ g[3] \in Nat /\ g[4] \in Nat /\ g[5] \in Nat BY <1>10, <1>16
  <2> DEFINE a == g[5] + Radix[5] * Years(t)
             b == g[5] + Radix[5] * Years(u)
             c == g[4] + Radix[4] * a
             d == g[4] + Radix[4] * b
             e == g[3] + Radix[3] * c
             f == g[3] + Radix[3] * d
             h == g[2] + Radix[2] * e
             k == g[2] + Radix[2] * f
  <2>2. a <= b /\ a \in Nat /\ b \in Nat BY <1>1, <1>3, <1>4, <1>9, <2>1, Zenon
  <2> HIDE DEF a, b
  <2>3. c <= d /\ c \in Nat /\ d \in Nat BY <1>1, <1>3, <2>1, <2>2, Zenon
  <2> HIDE DEF c, d
  <2>4. e <= f /\ e \in Nat /\ f \in Nat BY <1>1, <1>3, <2>1, <2>3, Zenon
  <2> HIDE DEF e, f
  <2>5. h <= k /\ h \in Nat /\ k \in Nat BY <1>1, <1>3, <2>1, <2>4, Zenon
  <2> HIDE DEF h, k
  <2>6. g[1] + Radix[1] * h <= g[1] + Radix[1] * k BY <1>1, <1>3, <2>1, <2>5, Zenon
  <2> QED BY <1>16, <2>6, PaddedTimes, Zenon DEF a, b, c, d, e, f, h, k
<1>17. CASE Len(g) = 6
  <2>1. TimeOf(g) \in Nat
    <3>1. \A i \in 1 .. 6 : g[i] \in Nat BY <1>10, <1>17
    <3> QED BY <3>1, TimeIsNat
  <2> QED BY <1>17, <2>1, PaddedTimes
<1>18. Len(g) \in {0, 1, 2, 3, 4, 5, 6}
  <2>1. \A n \in Nat : n <= 6 => n \in {0, 1, 2, 3, 4, 5, 6} OBVIOUS
  <2>2. Len(g) \in Nat OBVIOUS
  <2> QED BY <2>1, <2>2, Zenon
<1> QED BY <1>11, <1>12, <1>13, <1>14, <1>15, <1>16, <1>17, <1>18

\* To read a field of the clock's present time changes nothing.
LEMMA PaddedNext ==
    ASSUME NEW g \in Seq(Nat), Len(g) < 6, NEW t \in Nat
    PROVE  Padded(Append(g, Digits(t)[Len(g) + 1]), t) = Padded(g, t)
<1> DEFINE d == Digits(t)
           n == Append(g, d[Len(g) + 1])
<1>1. Len(n) = Len(g) + 1 /\ n[Len(g) + 1] = d[Len(g) + 1] /\ \A i \in 1 .. Len(g) : n[i] = g[i]
  OBVIOUS
<1> HIDE DEF n, d
<1>2. \A i \in Fields : (IF i <= Len(n) THEN n[i] ELSE d[i]) = (IF i <= Len(g) THEN g[i] ELSE d[i])
  BY <1>1 DEF Fields, RtcReg
<1>3. Padded(n, t) = [i \in Fields |-> IF i <= Len(n) THEN n[i] ELSE d[i]]
      /\ Padded(g, t) = [i \in Fields |-> IF i <= Len(g) THEN g[i] ELSE d[i]]
  BY DEF Padded, d
<1> QED BY <1>2, <1>3 DEF n, d

LEMMA PaddedIsNat ==
    ASSUME NEW g \in Seq(Nat), NEW t \in Nat
    PROVE  TimeOf(Padded(g, t)) \in Nat
<1> DEFINE d == Digits(t)
<1>1. \A i \in Fields : d[i] \in Nat
  BY Carries
<1> HIDE DEF d
<1>2. \A i \in Fields : i <= Len(g) => g[i] \in Nat
  BY DEF Fields, RtcReg
<1>3. \A i \in Fields : Padded(g, t)[i] = IF i <= Len(g) THEN g[i] ELSE d[i]
  BY DEF Padded, d
<1>4. \A i \in 1 .. 6 : i \in Fields
  BY DEF Fields, RtcReg
<1> QED BY <1>1, <1>2, <1>3, <1>4, TimeIsNat
\* The registers of the clock show one time, which the clock can reach.
ClockOK == \E t \in 0 .. LastTick : \A i \in Fields : reg[RtcReg[i]] = Digits(t)[i]

\* What RtcGetTime has read makes, with the clock's own fields for the rest, no
\* time before the call; and so it will with the answer that is on its way.
NotEarly ==
    app.fn = "RtcGetTime" =>
      /\ app.since <= TimeOf(Padded(app.got, Now))
      /\ InFlight("app") =>
            \A h \in held["app"] : app.since <= TimeOf(Padded(Append(app.got, h), Now))

LEMMA FieldsDiffer ==
    /\ \A i \in Fields : i \in {1, 2, 3, 4, 5, 6}
    /\ \A i, j \in Fields : RtcReg[i] = RtcReg[j] => i = j
    /\ \A i \in Fields : RtcReg[i] # "TOPSTATUS"
BY DEF Fields, RtcReg

LEMMA ClockedIs ==
    ASSUME NEW old, NEW t, NEW i \in Fields
    PROVE  Clocked(old, t)[RtcReg[i]] = Digits(t)[i]
<1>1. RtcReg[i] \in Reg
  BY ClockAssumption, WrapperAssumption
<1>2. \A j \in Fields : RtcReg[j] = RtcReg[i] <=> j = i
  BY FieldsDiffer
<1>3. FieldWith(RtcReg[i]) = i
  BY <1>2 DEF FieldWith
<1> QED BY <1>1, <1>3 DEF Clocked

LEMMA NowIs ==
    ASSUME NEW t \in Nat, \A i \in Fields : reg[RtcReg[i]] = Digits(t)[i]
    PROVE  Now = t
<1>1. \A i \in Fields : ~(i <= Len(<<>>))
  BY DEF Fields, RtcReg
<1>2. Padded(<<>>, t) = [i \in Fields |-> Digits(t)[i]]
  BY <1>1 DEF Padded
<1>3. [i \in Fields |-> reg[RtcReg[i]]] = [i \in Fields |-> Digits(t)[i]]
  OBVIOUS
<1>4. TimeOf(Padded(<<>>, t)) = t
  BY PaddedTimes
<1> QED BY <1>2, <1>3, <1>4 DEF Now

LEMMA AppLeavesReg ==
    ASSUME IInv, PmicActs
    PROVE  reg' = reg
BY TransactionGoesOn DEF PmicActs, PmicCalls, Calls, PmicStep, RtcGetTimeReads, FirstReads, AppGets, ThenWrites,
   LdoControlWrites, PmicReturns, wrapperVars, WacsRead16, WacsWrite16, Begin, WacsReadReturns

\* The clock's registers change by its ticks only, and so it never goes back.
LEMMA ClockMoves ==
    ASSUME IInv, ClockOK, [BoardNext]_boardVars
    PROVE  /\ ClockOK' /\ Now \in Nat /\ Now' \in Nat /\ Now <= Now'
           /\ \A i \in Fields : reg[RtcReg[i]] = Digits(Now)[i] /\ reg'[RtcReg[i]] = Digits(Now')[i]
<1>1. PICK t \in 0 .. LastTick : \A i \in Fields : reg[RtcReg[i]] = Digits(t)[i]
  BY DEF ClockOK
<1>2. t \in Nat /\ Now = t
  BY <1>1, NowIs, ClockAssumption
<1>3. CASE \A i \in Fields : reg'[RtcReg[i]] = reg[RtcReg[i]]
  <2>1. \A i \in Fields : reg'[RtcReg[i]] = Digits(t)[i]
    BY <1>1, <1>3
  <2>2. [i \in Fields |-> reg'[RtcReg[i]]] = [i \in Fields |-> reg[RtcReg[i]]]
    BY <1>3
  <2>3. Now' = t
    BY <1>2, <2>2 DEF Now
  <2>4. ClockOK'
    BY <2>1 DEF ClockOK
  <2> QED BY <1>1, <1>2, <2>1, <2>3, <2>4
<1>4. CASE ClockRuns
  <2>1. t < LastTick /\ reg' = Clocked(reg, t + 1)
    BY <1>2, <1>4 DEF ClockRuns, ClockTicks
  <2>2. t + 1 \in 0 .. LastTick /\ t + 1 \in Nat
    BY <2>1, <1>1, ClockAssumption
  <2>3. \A i \in Fields : reg'[RtcReg[i]] = Digits(t + 1)[i]
    BY <2>1, ClockedIs
  <2>4. ClockOK'
    BY <2>2, <2>3 DEF ClockOK
  <2>5. Now' = t + 1
    <3> DEFINE d == [i \in Fields |-> Digits(t + 1)[i]]
    <3>1. [i \in Fields |-> reg'[RtcReg[i]]] = d
      BY <2>3
    <3>2. Padded(<<>>, t + 1) = d
      <4>1. \A i \in Fields : ~(i <= Len(<<>>))
        BY DEF Fields, RtcReg
      <4> QED BY <4>1 DEF Padded
    <3>3. TimeOf(d) = t + 1
      BY <2>2, <3>2, PaddedTimes
    <3> QED BY <3>1, <3>3 DEF Now
  <2> QED BY <1>1, <1>2, <2>2, <2>3, <2>4, <2>5
<1>5. CASE Hardware
  <2>1. cmd.write => cmd.reg \in Reg \ Volatile
    BY <1>5 DEF Hardware, HwExecutes, IInv, Written
  <2>2. \A i \in Fields : RtcReg[i] \in Reg /\ (cmd.write => RtcReg[i] # cmd.reg)
    BY <2>1, ClockAssumption, WrapperAssumption
  <2>3. reg' = reg \/ (cmd.write /\ reg' = [reg EXCEPT ![cmd.reg] = wdata])
    BY <1>5 DEF Hardware, HwExecutes
  <2> QED BY <1>3, <2>2, <2>3 DEF IInv, WrapperTypeOK
<1>6. CASE ButtonMoves
  <2>1. \A i \in Fields : RtcReg[i] \in Reg
    BY ClockAssumption, WrapperAssumption
  <2>2. PICK d \in Buttons : reg' = [reg EXCEPT !["TOPSTATUS"] = d]
    BY <1>6 DEF ButtonMoves
  <2> QED BY <1>3, <2>1, <2>2, FieldsDiffer DEF IInv, WrapperTypeOK
<1>7. CASE reg' = reg
  BY <1>3, <1>7
<1>8. ASSUME ApplicationRuns PROVE reg' = reg
  BY <1>8, AppLeavesReg DEF ApplicationRuns, PmicActs
<1> QED
  BY <1>4, <1>5, <1>6, <1>7, <1>8, OthersLeaveApp, PollLeavesApp DEF pmicVars, wrapperVars
\* What the hardware does while a read waits adds the register's new contents to
\* what the register held during the call, and nothing else.
LEMMA HardwareHolds ==
    ASSUME IInv, Hardware \/ ClockRuns \/ ButtonMoves
    PROVE  \A h \in held'["app"] :
              h \in held["app"] \/ (InFlight("app") /\ h = reg'[call["app"].reg])
<1>1. held' = held \/ held' = Holding(reg')
  BY DEF Hardware, ClockRuns, ClockTicks, ButtonMoves, HwExecutes, HwChanges
<1> QED BY <1>1 DEF Holding, Caller

LEMMA CommandHolds ==
    ASSUME IInv, WacsStep("app")
    PROVE  \/ held'["app"] = held["app"] /\ (InFlight("app")' => InFlight("app"))
           \/ held'["app"] = {reg[call["app"].reg]} /\ call["app"].pc = "cmd" /\ ~call["app"].write
<1> USE DEF IInv, WrapperTypeOK, Caller, At, Goto, InFlight
<1>1. CASE WacsWaitForIdle("app") BY <1>1 DEF WacsWaitForIdle
<1>2. CASE WacsCommandData("app") BY <1>2 DEF WacsCommandData
<1>3. CASE WacsCommand("app") BY <1>3 DEF WacsCommand, NoCall
<1>4. CASE WacsWaitForValid("app") BY <1>4 DEF WacsWaitForValid
<1>5. CASE WacsReadData("app") BY <1>5 DEF WacsReadData
<1> QED BY <1>1, <1>2, <1>3, <1>4, <1>5 DEF WacsStep

LEMMA GotIsNat ==
    ASSUME AppOK
    PROVE  app.got \in Seq(Nat) /\ app.since \in Nat
<1>1. \A s \in Seq(Datum) : s \in Seq(Nat)
  BY DataAssumption, SeqMonotonic
<1> QED BY <1>1 DEF AppOK, AppFields

\* A read in flight is the application's newest, for the field after those it has.
LEMMA FlightReads ==
    ASSUME IInv, AppOK, app.fn = "RtcGetTime", call["app"].pc # "none", ~call["app"].write
    PROVE  /\ app.got \in Seq(Nat) /\ Len(app.got) < 6 /\ Len(app.got) + 1 \in Fields
           /\ call["app"].reg = RtcReg[Len(app.got) + 1]
<1>1. Reading /\ app.step \in 1 .. 6 /\ Len(app.got) = app.step - 1
      /\ call["app"].reg = RtcReg[app.step]
  BY DEF AppOK, AppFields, AppCall, Reading, ReadsBegun, Steps, RtcReg
<1>2. app.got \in Seq(Nat)
  BY GotIsNat
<1> QED BY <1>1, <1>2 DEF Fields, RtcReg

LEMMA InFlightReads ==
    ASSUME IInv, InFlight("app")
    PROVE  call["app"].pc # "none" /\ ~call["app"].write /\ held["app"] \subseteq Nat
BY DataAssumption DEF InFlight, IInv, Answered, WrapperTypeOK, Caller

LEMMA NotEarlyStart == BoardInit => ClockOK /\ NotEarly
<1> SUFFICES ASSUME BoardInit PROVE ClockOK /\ NotEarly
  OBVIOUS
<1>1. PICK t \in Starts, d \in BootData : reg = Clocked([r \in Reg |-> d], t)
  BY DEF BoardInit, PmicInit
<1>2. ClockOK
  BY <1>1, ClockedIs, ClockAssumption DEF ClockOK
<1>3. NotEarly
  BY DEF NotEarly, BoardInit, PmicInit, NoJob
<1> QED BY <1>2, <1>3

\* Time and the hardware change what a waiting function finds to later times only.
LEMMA WaitingStaysLate ==
    ASSUME IInv, AppOK, ClockOK, NotEarly, [BoardNext]_boardVars,
           app' = app, call'["app"] = call["app"],
           \A h \in held'["app"] :
              h \in held["app"] \/ (InFlight("app") /\ h = reg'[call["app"].reg])
    PROVE  NotEarly'
<1> SUFFICES ASSUME app.fn = "RtcGetTime" PROVE NotEarly'
  BY DEF NotEarly
<1>1. /\ Now \in Nat /\ Now' \in Nat /\ Now <= Now'
      /\ \A i \in Fields : reg'[RtcReg[i]] = Digits(Now')[i]
  BY ClockMoves
<1>2. app.got \in Seq(Nat) /\ Len(app.got) <= 6 /\ app.since \in Nat
  BY GotIsNat DEF AppOK, AppFields, AppCall, ReadsBegun, Steps, RtcReg
<1>0. \A g \in Seq(Nat) : Len(g) <= 6 /\ app.since <= TimeOf(Padded(g, Now))
                              => app.since <= TimeOf(Padded(g, Now'))
  <2> DEFINE t == Now
             u == Now'
  <2> SUFFICES ASSUME NEW g \in Seq(Nat), Len(g) <= 6, app.since <= TimeOf(Padded(g, t))
               PROVE  app.since <= TimeOf(Padded(g, u))
    OBVIOUS
  <2>1. t \in Nat /\ u \in Nat /\ t <= u BY <1>1
  <2> HIDE DEF t, u
  <2>2. TimeOf(Padded(g, t)) <= TimeOf(Padded(g, u)) BY <2>1, PaddedLater
  <2>3. TimeOf(Padded(g, t)) \in Nat /\ TimeOf(Padded(g, u)) \in Nat BY <2>1, PaddedIsNat
  <2> QED BY <1>2, <2>2, <2>3
<1>3. app.since <= TimeOf(Padded(app.got, Now'))
  BY <1>0, <1>2 DEF NotEarly
<1>4. ASSUME InFlight("app"), NEW h \in held'["app"]
      PROVE  app.since <= TimeOf(Padded(Append(app.got, h), Now'))
  <2>1. Len(app.got) < 6 /\ Len(app.got) + 1 \in Fields
        /\ call["app"].reg = RtcReg[Len(app.got) + 1]
    BY <1>4, InFlightReads, FlightReads
  <2>2. CASE h \in held["app"]
    <3> DEFINE g == Append(app.got, h)
    <3>1. h \in Nat BY <1>4, <2>2, InFlightReads
    <3>2. g \in Seq(Nat) /\ Len(g) <= 6 BY <1>2, <2>1, <3>1
    <3>3. app.since <= TimeOf(Padded(g, Now)) BY <1>4, <2>2 DEF NotEarly
    <3> HIDE DEF g
    <3>4. app.since <= TimeOf(Padded(g, Now'))
      BY <1>0, <3>2, <3>3
    <3> QED BY <3>4 DEF g
  <2>3. CASE h = reg'[call["app"].reg]
    <3>1. h = Digits(Now')[Len(app.got) + 1]
      BY <1>1, <2>1, <2>3
    <3> QED BY <1>1, <1>2, <1>3, <2>1, <3>1, PaddedNext
  <2> QED BY <1>4, <2>2, <2>3
<1>5. InFlight("app")' <=> InFlight("app")
  BY DEF InFlight
<1> QED BY <1>3, <1>4, <1>5 DEF NotEarly
LEMMA ApplicationNotEarly ==
    ASSUME IInv, AppOK, ClockOK, NotEarly, [BoardNext]_boardVars, PmicActs, AppOK'
    PROVE  NotEarly'
<1>1. /\ reg' = reg /\ Now' = Now /\ Now \in Nat
      /\ \A i \in Fields : reg[RtcReg[i]] = Digits(Now)[i]
  BY AppLeavesReg, ClockMoves DEF Now
<1>2. CASE app'.fn # "RtcGetTime"
  BY <1>2 DEF NotEarly
<1>3. CASE PmicCalls /\ app'.fn = "RtcGetTime"
  <2>1. app'.got = <<>> /\ app'.since = Now /\ call' = call /\ call["app"] = NoCall
    <3>1. PICK fn, id, arg : Calls(fn, id, arg)
      BY <1>3 DEF PmicCalls
    <3> QED BY <1>3, <3>1 DEF Calls, NoJob, AppReady, wrapperVars
  <2>2. TimeOf(Padded(<<>>, Now)) = Now
    BY <1>1, PaddedTimes
  <2>3. ~InFlight("app")'
    BY <2>1 DEF InFlight, NoCall
  <2> QED BY <1>1, <2>1, <2>2, <2>3 DEF NotEarly
<1>4. CASE RtcGetTimeReads
  <2>1. app'.fn = app.fn /\ app'.got = app.got /\ app'.since = app.since
    BY <1>4 DEF RtcGetTimeReads, AppOK, AppFields
  <2>2. ~InFlight("app")'
    <3>1. call'["app"] = [pc |-> "idle", write |-> FALSE, reg |-> RtcReg[app.step + 1], data |-> 0]
      BY <1>4, BeginsRead DEF RtcGetTimeReads, RtcOrder
    <3> QED BY <3>1 DEF InFlight
  <2> QED BY <1>1, <2>1, <2>2 DEF NotEarly
<1>5. CASE AppGets /\ app'.fn = "RtcGetTime"
  <2>1. app'.fn = app.fn /\ app'.got = Append(app.got, call["app"].data) /\ app'.since = app.since
    BY <1>5 DEF AppGets, AppOK, AppFields
  <2>2. InFlight("app") /\ call["app"].data \in held["app"]
    BY <1>5, EndsRead DEF AppGets, WacsReadReturns, At, InFlight
  <2>3. ~InFlight("app")'
    <3>1. call'["app"] = NoCall BY <1>5, EndsRead DEF AppGets
    <3> QED BY <3>1 DEF InFlight, NoCall
  <2> QED BY <1>1, <1>5, <2>1, <2>2, <2>3 DEF NotEarly
<1>6. CASE WacsStep("app") /\ UNCHANGED app
  <2>1. CASE held'["app"] = held["app"] /\ (InFlight("app")' => InFlight("app"))
    BY <1>1, <1>6, <2>1 DEF NotEarly
  <2>2. CASE /\ held'["app"] = {reg[call["app"].reg]} /\ call["app"].pc = "cmd"
             /\ ~call["app"].write /\ app.fn = "RtcGetTime"
    <3>1. app.got \in Seq(Nat) /\ Len(app.got) < 6 /\ Len(app.got) + 1 \in Fields
          /\ call["app"].reg = RtcReg[Len(app.got) + 1]
      BY <2>2, FlightReads
    <3>2. held'["app"] = {Digits(Now)[Len(app.got) + 1]}
      BY <1>1, <2>2, <3>1
    <3> QED BY <1>1, <1>6, <3>1, <3>2, PaddedNext DEF NotEarly
  <2> QED BY <1>2, <1>6, <2>1, <2>2, CommandHolds
<1>7. ASSUME FirstReads \/ ThenWrites \/ LdoControlWrites \/ PmicReturns
      PROVE  app'.fn # "RtcGetTime"
  BY <1>7 DEF FirstReads, ThenWrites, LdoControlWrites, PmicReturns, NoJob, AppOK, AppFields
<1> QED BY <1>2, <1>3, <1>4, <1>5, <1>6, <1>7 DEF PmicActs, PmicStep

LEMMA NotEarlyStep ==
    ASSUME IInv, AppOK, ClockOK, NotEarly, [BoardNext]_boardVars
    PROVE  ClockOK' /\ NotEarly'
<1>1. ASSUME ApplicationRuns PROVE NotEarly'
  BY <1>1, ApplicationNotEarly, AppOKStep DEF ApplicationRuns, PmicActs
<1>2. ASSUME CardActs /\ UNCHANGED <<wrapperVars, wanted>> PROVE NotEarly'
  <2>1. app'.fn # "RtcGetTime"
    <3>1. app.fn = "none"
      BY <1>2 DEF CardActs, ConfigureMSDCGpios, SdCardHackDxeReturns, AppOK, AppPhase
    <3> QED BY <1>2, <3>1 DEF CardActs, ConfigureMSDCGpios, SdCardHackDxeReturns, NoJob, AppOK, AppFields
  <2> QED BY <2>1 DEF NotEarly
<1>3. ASSUME PollBegins \/ PollStep PROVE NotEarly'
  BY <1>3, PollLeavesApp, WaitingStaysLate
<1>4. ASSUME Hardware \/ ClockRuns \/ ButtonMoves PROVE NotEarly'
  BY <1>4, HardwareLeavesApp, HardwareHolds, WaitingStaysLate
<1>5. ASSUME UNCHANGED pmicVars PROVE NotEarly'
  BY <1>5, WaitingStaysLate DEF pmicVars, wrapperVars
<1>6. NotEarly'
  BY <1>1, <1>2, <1>3, <1>4, <1>5, OthersLeaveApp
<1> QED BY <1>6, ClockMoves

\* RtcGetTime never returns a time before its call, for any clock, whatever the
\* clock, the buttons and the keypad's polls do between and within its six reads
\* (MT6358PmicDxe.c:246-251).
THEOREM TimesAreNotEarly == BoardSpec => []TimeNeverEarly
<1>1. IInv /\ AppOK /\ ClockOK /\ NotEarly => TimeNeverEarly
  <2> SUFFICES ASSUME IInv, AppOK, ClockOK, NotEarly, Done("RtcGetTime")
               PROVE  TimeOf(app.got) >= app.since
    BY DEF TimeNeverEarly
  <2>1. app.fn = "RtcGetTime" /\ Len(app.got) = 6
    BY NoneOpen DEF Done, AppReady, Steps, RtcReg, ReadsBegun
  <2>2. Now \in Nat
    BY NowIs, ClockAssumption DEF ClockOK
  <2>3. app.since <= TimeOf(Padded(app.got, Now)) /\ app.since \in Nat
    BY <2>1, GotIsNat DEF NotEarly
  <2>4. TimeOf(Padded(app.got, Now)) = TimeOf(app.got)
    BY <2>1, <2>2, PaddedTimes
  <2>5. TimeOf(Padded(app.got, Now)) \in Nat
    BY <2>2, GotIsNat, PaddedIsNat
  <2> QED BY <2>3, <2>4, <2>5
<1>2. BoardSpec => [](IInv /\ AppOK /\ ClockOK /\ NotEarly)
  BY CoreStart, CoreStep, NotEarlyStart, NotEarlyStep, PTL DEF BoardSpec
<1> QED BY <1>1, <1>2, PTL
-----------------------------------------------------------------------------
(* The SD card's pins.                                                       *)

\* The registers once the accesses of the function in progress are carried out.
With(old, n, r) == IF n <= Len(accesses) /\ accesses[n].reg = r THEN Updated(old, accesses[n]) ELSE old
After == [r \in Registers |-> With(With(gpio[r], 1, r), 2, r)]

\* What of a pin's set-up is in the registers f when the first s calls are made.
ModeDone(f, p) == \A i \in 0 .. 2 : (((p % 8) * 4 + i) \in f[ModeReg(p)]) <=> (i = 0)
DrvDone(f, p) == \A i \in 0 .. 2 : ((Drv[p] + i) \in f[Shared("drv")]) <=> (i < 2)
PullsDone(f, p) == RPins[p] \in f[Shared("r0")] /\ RPins[p] \notin f[Shared("r1")]
PupdDone(f, p) == (RPins[p] \in f[Shared("pupd")]) <=> (p = FirstCardPin)
CallOf(p, j) == 4 * (p - FirstCardPin) + j
CardDone(f, s) ==
    \A p \in CardPins :
       /\ CallOf(p, 0) < s => ModeDone(f, p)
       /\ CallOf(p, 1) < s => DrvDone(f, p)
       /\ CallOf(p, 2) < s => PullsDone(f, p)
       /\ CallOf(p, 3) < s => PupdDone(f, p)

CardInv ==
    /\ phase = "card" => app.step \in 0 .. CardCalls /\ CardDone(After, app.step)
    /\ phase = "drivers" => accesses = <<>> /\ CardDone(gpio, CardCalls)

LEMMA AfterNothing ==
    ASSUME GpioInv, accesses = <<>>
    PROVE  After = gpio
<1>1. \A r \in Registers : With(With(gpio[r], 1, r), 2, r) = gpio[r]
  BY DEF With
<1> QED BY <1>1 DEF After, GpioInv

LEMMA AfterAccess ==
    ASSUME GpioInv, GpioAccess
    PROVE  After' = After
<1> DEFINE a == Head(accesses)
<1>1. accesses \in Seq(AccessesOf(pinBusy)) /\ accesses # <<>> /\ Len(accesses) <= 2
      /\ gpio \in [Registers -> SUBSET Bits] /\ a.reg \in Registers
  BY AccessEffect DEF GpioInv, AccessesOf
<1>2. CASE UNCHANGED <<gpio, accesses>>
  BY <1>2 DEF After, With
<1>3. CASE accesses' = Tail(accesses)
           /\ gpio' = [gpio EXCEPT ![a.reg] = Updated(gpio[a.reg], a)]
  <2>1. Len(accesses) \in {1, 2} /\ a = accesses[1]
    <3>1. Len(accesses) \in Nat /\ Len(accesses) # 0 BY <1>1
    <3>2. \A n \in Nat : n # 0 /\ n <= 2 => n \in {1, 2} OBVIOUS
    <3>3. a = accesses[1] BY <1>1
    <3> QED BY <1>1, <3>1, <3>2, <3>3, Zenon
  <2>2. Len(accesses') = Len(accesses) - 1 /\ (Len(accesses) = 2 => accesses'[1] = accesses[2])
    BY <1>1, <1>3, <2>1
  <2>3. ASSUME NEW r \in Registers
        PROVE  With(With(gpio[r], 1, r), 2, r)' = With(With(gpio[r], 1, r), 2, r)
    <3>1. gpio'[r] = IF accesses[1].reg = r THEN Updated(gpio[r], accesses[1]) ELSE gpio[r]
      BY <1>1, <1>3, <2>1
    <3>2. gpio'[r] = With(gpio[r], 1, r)
      BY <2>1, <3>1 DEF With
    <3> DEFINE g == gpio'[r]
    <3> HIDE DEF g
    <3>3. CASE Len(accesses) = 1
      <4>1. Len(accesses') = 0 BY <2>2, <3>3
      <4> QED BY <3>2, <3>3, <4>1 DEF With
    <3>4. CASE Len(accesses) = 2
      <4>1. Len(accesses') = 1 /\ accesses'[1] = accesses[2] BY <2>2, <3>4
      <4> QED BY <3>2, <3>4, <4>1 DEF With, Updated
    <3> QED BY <2>1, <3>3, <3>4
  <2> QED BY <2>3 DEF After
<1> QED BY <1>2, <1>3, AccessEffect

\* What the accesses of a call that has just been made will have done.
LEMMA AfterOne ==
    ASSUME NEW p, NEW a, GpioCalls(p, <<a>>)
    PROVE  \A r \in Registers : After'[r] = IF r = a.reg THEN Updated(gpio[r], a) ELSE gpio[r]
<1>1. gpio' = gpio /\ accesses' = <<a>>
  BY DEF GpioCalls
<1>2. \A r \in Registers : After'[r] = With(With(gpio[r], 1, r), 2, r)'
  BY DEF After
<1>3. Len(accesses') = 1 /\ accesses'[1] = a
  BY <1>1
<1> QED BY <1>1, <1>2, <1>3 DEF With

LEMMA AfterTwo ==
    ASSUME NEW p, NEW a, NEW b, GpioCalls(p, <<a, b>>)
    PROVE  \A r \in Registers :
              After'[r] = IF r = a.reg
                            THEN IF r = b.reg THEN Updated(Updated(gpio[r], a), b)
                                              ELSE Updated(gpio[r], a)
                            ELSE IF r = b.reg THEN Updated(gpio[r], b) ELSE gpio[r]
<1>1. gpio' = gpio /\ accesses' = <<a, b>>
  BY DEF GpioCalls
<1>2. \A r \in Registers : After'[r] = With(With(gpio[r], 1, r), 2, r)'
  BY DEF After
<1>3. Len(accesses') = 2 /\ accesses'[1] = a /\ accesses'[2] = b
  BY <1>1
<1> QED BY <1>1, <1>2, <1>3 DEF With

LEMMA CallsInOrder ==
    ASSUME NEW k \in Nat, k < CardCalls, NEW q \in CardPins, NEW j \in 0 .. 3
    PROVE  /\ CallOf(q, j) < k + 1 => CallOf(q, j) < k \/ (q = CardPin(k) /\ j = k % 4)
           /\ CallOf(q, j) < CardCalls
<1>1. FirstCardPin \in Nat /\ LastCardPin \in Nat /\ q \in FirstCardPin .. LastCardPin
  BY PinAssumption DEF CardPins
<1>2. CallOf(q, j) = k => q = CardPin(k) /\ j = k % 4
  <2> DEFINE d == q - FirstCardPin
  <2>1. d \in Nat /\ q = FirstCardPin + d BY <1>1
  <2> HIDE DEF d
  <2>2. (4 * d + j) \div 4 = d /\ (4 * d + j) % 4 = j BY <2>1
  <2> QED BY <1>1, <2>1, <2>2 DEF CallOf, CardPin, d
<1>3. CallOf(q, j) \in Nat /\ CallOf(q, j) < CardCalls
  BY <1>1 DEF CallOf, CardCalls
<1> QED BY <1>2, <1>3

LEMMA ModeBitsDiffer ==
    ASSUME NEW p \in Nat, NEW q \in Nat, p # q, ModeReg(p) = ModeReg(q),
           NEW i \in 0 .. 2, NEW j \in 0 .. 2
    PROVE  (p % 8) * 4 + i # (q % 8) * 4 + j
<1>1. p \div 8 = q \div 8
  BY DEF ModeReg
<1>2. p % 8 # q % 8 /\ p % 8 \in 0 .. 7 /\ q % 8 \in 0 .. 7
  BY <1>1
<1>3. \A x, y \in 0 .. 7 : x # y => x * 4 + i # y * 4 + j
  OBVIOUS
<1> QED BY <1>2, <1>3

\* The set-up of other pins and the other settings of a pin are not touched by a
\* call that leaves their bits as they are.
LEMMA SettingsKept ==
    ASSUME NEW f, NEW g, NEW p
    PROVE  /\ /\ ModeDone(g, p)
              /\ \A i \in 0 .. 2 : ((p % 8) * 4 + i) \in f[ModeReg(p)] <=> ((p % 8) * 4 + i) \in g[ModeReg(p)]
              => ModeDone(f, p)
           /\ /\ DrvDone(g, p)
              /\ \A i \in 0 .. 2 : (Drv[p] + i) \in f[Shared("drv")] <=> (Drv[p] + i) \in g[Shared("drv")]
              => DrvDone(f, p)
           /\ /\ PullsDone(g, p)
              /\ \A r \in {"r0", "r1"} : RPins[p] \in f[Shared(r)] <=> RPins[p] \in g[Shared(r)]
              => PullsDone(f, p)
           /\ /\ PupdDone(g, p)
              /\ RPins[p] \in f[Shared("pupd")] <=> RPins[p] \in g[Shared("pupd")]
              => PupdDone(f, p)
BY DEF ModeDone, DrvDone, PullsDone, PupdDone

LEMMA SharedDiffer ==
    /\ Shared("drv") # Shared("r0") /\ Shared("drv") # Shared("r1") /\ Shared("drv") # Shared("pupd")
    /\ Shared("r0") # Shared("r1") /\ Shared("r0") # Shared("pupd") /\ Shared("r1") # Shared("pupd")
    /\ \A p, k : k \in {"drv", "r0", "r1", "pupd"} => ModeReg(p) # Shared(k)
BY DEF Shared, ModeReg

\* After the call of each kind: that setting of its pin, and what there was.
LEMMA ModeCallDoes ==
    ASSUME GpioInv, NEW p \in CardPins, GpioCalls(p, SetMode(p, {0}, TRUE)), NEW q \in CardPins
    PROVE  /\ ModeDone(After', p)
           /\ q # p => \A i \in 0 .. 2 : ((q % 8) * 4 + i) \in After'[ModeReg(q)]
                                           <=> ((q % 8) * 4 + i) \in gpio[ModeReg(q)]
           /\ \A k \in {"drv", "r0", "r1", "pupd"} : After'[Shared(k)] = gpio[Shared(k)]
<1> DEFINE off == (0 .. 2) \ {0}
           a == SetAlias(ModeReg(p), ModeBits(p, {0}, TRUE))
           b == ResetAlias(ModeReg(p), ModeBits(p, off, TRUE))
<1>1. p \in Nat /\ q \in Nat /\ p \in Pins /\ q \in Pins
  BY PinsAreNat
<1>2. SetMode(p, {0}, TRUE) = <<a, b>> /\ a.reg = ModeReg(p) /\ b.reg = ModeReg(p)
  BY DEF SetMode, SetAlias, ResetAlias, Access
<1>3. ModeBits(p, {0}, TRUE) = {(p % 8) * 4 + i : i \in {0}} /\ ModeBits(p, off, TRUE) = {(p % 8) * 4 + i : i \in off}
  <2>1. {0} \in Number /\ off \in Number BY DEF Number
  <2> HIDE DEF off
  <2> QED BY <1>1, <2>1, ModeBitsAre
<1>4. /\ a.set = {(p % 8) * 4 + i : i \in {0}} /\ a.clear = {}
      /\ b.set = {} /\ b.clear = {(p % 8) * 4 + i : i \in off}
  BY <1>3 DEF SetAlias, ResetAlias, Access
<1> HIDE DEF a, b
<1>5. \A r \in Registers : After'[r] = IF r = ModeReg(p) THEN Updated(Updated(gpio[r], a), b) ELSE gpio[r]
  <2>1. GpioCalls(p, <<a, b>>)
    BY <1>2
  <2> QED BY <1>2, <2>1, AfterTwo
<1>6. \A r \in Registers : \A x : r = ModeReg(p) =>
         (x \in After'[r] <=> /\ \A i \in off : x # (p % 8) * 4 + i
                              /\ x \in gpio[r] \/ x = (p % 8) * 4 + 0)
  <2>1. \A x : x \in a.set <=> x = (p % 8) * 4 + 0
    BY <1>4
  <2>2. \A x : x \in b.clear <=> \E i \in off : x = (p % 8) * 4 + i
    BY <1>4
  <2>3. \A S, x : x \in Updated(Updated(S, a), b) <=> (x \in S \/ x \in a.set) /\ x \notin b.clear
    BY <1>4 DEF Updated
  <2> HIDE DEF off
  <2> QED BY <1>5, <2>1, <2>2, <2>3
<1>7. ModeReg(p) \in Registers /\ ModeReg(q) \in Registers
  BY <1>1, RegistersAre
<1>8. ModeDone(After', p)
  <2> SUFFICES ASSUME NEW i \in 0 .. 2
               PROVE  (((p % 8) * 4 + i) \in After'[ModeReg(p)]) <=> (i = 0)
    BY DEF ModeDone
  <2>1. p % 8 \in 0 .. 7 BY <1>1
  <2>2. CASE i = 0
    <3>1. \A j \in off : (p % 8) * 4 + 0 # (p % 8) * 4 + j BY <2>1
    <3> QED BY <1>6, <1>7, <2>2, <3>1
  <2>3. CASE i # 0
    BY <1>6, <1>7, <2>3
  <2> QED BY <2>2, <2>3
<1>9. ASSUME q # p, NEW i \in 0 .. 2
      PROVE  ((q % 8) * 4 + i) \in After'[ModeReg(q)] <=> ((q % 8) * 4 + i) \in gpio[ModeReg(q)]
  <2>1. CASE ModeReg(q) # ModeReg(p)
    BY <1>5, <1>7, <2>1
  <2>2. CASE ModeReg(q) = ModeReg(p)
    <3>1. \A j \in 0 .. 2 : (q % 8) * 4 + i # (p % 8) * 4 + j
      BY <1>1, <1>9, <2>2, ModeBitsDiffer
    <3> QED BY <1>6, <1>7, <2>2, <3>1
  <2> QED BY <2>1, <2>2
<1>10. \A k \in {"drv", "r0", "r1", "pupd"} : After'[Shared(k)] = gpio[Shared(k)]
  BY <1>1, <1>5, RegistersAre, SharedDiffer
<1> QED BY <1>8, <1>9, <1>10
LEMMA DrvCallDoes ==
    ASSUME GpioInv, NEW p \in CardPins, GpioCalls(p, SetDrv(p, {0, 1})), NEW q \in CardPins
    PROVE  /\ DrvDone(After', p)
           /\ q # p => \A i \in 0 .. 2 : (Drv[q] + i) \in After'[Shared("drv")]
                                           <=> (Drv[q] + i) \in gpio[Shared("drv")]
           /\ \A r \in Registers : r # Shared("drv") => After'[r] = gpio[r]
<1> DEFINE S == {Drv[p] + i : i \in {0, 1}}
           a == Rmw(Shared("drv"), S, DrvBits(p))
           R == Shared("drv")
<1>1. p \in Pins /\ R \in Registers /\ Drv[p] \in Nat /\ Drv[q] \in Nat
  BY PinsAreNat, RegistersAre, PinAssumption, GpioAssumption DEF InTables, Bits
<1>2. GpioCalls(p, <<a>>) /\ a.reg = R /\ a.set = S /\ a.clear = DrvBits(p)
  BY DEF SetDrv, Rmw, Access
<1> HIDE DEF a
<1>3. \A r \in Registers : After'[r] = IF r = R THEN Updated(gpio[r], a) ELSE gpio[r]
  BY <1>2, AfterOne
<1>4. \A x : x \in After'[R] <=> \/ x = Drv[p] + 0 \/ x = Drv[p] + 1
                                 \/ x \in gpio[R] /\ x \notin DrvBits(p)
  <2>1. \A x : x \in S <=> x = Drv[p] + 0 \/ x = Drv[p] + 1
    OBVIOUS
  <2> HIDE DEF S
  <2> QED BY <1>1, <1>2, <1>3, <2>1 DEF Updated
<1>5. \A i \in 0 .. 2 : Drv[p] + i \in DrvBits(p) /\ Drv[q] + i \in DrvBits(q)
  BY <1>1 DEF DrvBits
<1>6. DrvDone(After', p)
  BY <1>1, <1>4, <1>5 DEF DrvDone
<1>7. ASSUME q # p, NEW i \in 0 .. 2
      PROVE  (Drv[q] + i) \in After'[R] <=> (Drv[q] + i) \in gpio[R]
  <2>1. Drv[q] + i \notin DrvBits(p)
    BY <1>5, <1>7, PinAssumption
  <2>2. Drv[p] + 0 \in DrvBits(p) /\ Drv[p] + 1 \in DrvBits(p)
    BY <1>5
  <2> QED BY <1>4, <2>1, <2>2
<1> QED BY <1>3, <1>6, <1>7

LEMMA PullsCallDoes ==
    ASSUME GpioInv, NEW p \in CardPins, GpioCalls(p, SetR0(p)), NEW q \in CardPins
    PROVE  /\ PullsDone(After', p)
           /\ q # p => \A k \in {"r0", "r1"} : RPins[q] \in After'[Shared(k)] <=> RPins[q] \in gpio[Shared(k)]
           /\ \A r \in Registers : r # Shared("r0") /\ r # Shared("r1") => After'[r] = gpio[r]
<1> DEFINE a == Rmw(Shared("r0"), {RPins[p]}, {})
           b == Rmw(Shared("r1"), {}, {RPins[p]})
<1>1. Shared("r0") \in Registers /\ Shared("r1") \in Registers /\ Shared("r0") # Shared("r1")
  BY RegistersAre, PinsAreNat, SharedDiffer
<1>2. GpioCalls(p, <<a, b>>)
  BY DEF SetR0
<1>3. /\ a.reg = Shared("r0") /\ a.set = {RPins[p]} /\ a.clear = {}
      /\ b.reg = Shared("r1") /\ b.set = {} /\ b.clear = {RPins[p]}
  BY DEF Rmw, Access
<1> HIDE DEF a, b
<1>4. \A r \in Registers : /\ r = Shared("r0") => After'[r] = Updated(gpio[r], a)
                           /\ r = Shared("r1") => After'[r] = Updated(gpio[r], b)
                           /\ r # Shared("r0") /\ r # Shared("r1") => After'[r] = gpio[r]
  BY <1>1, <1>2, <1>3, AfterTwo
<1>5. \A x : /\ x \in After'[Shared("r0")] <=> x \in gpio[Shared("r0")] \/ x = RPins[p]
             /\ x \in After'[Shared("r1")] <=> x \in gpio[Shared("r1")] /\ x # RPins[p]
  BY <1>1, <1>3, <1>4 DEF Updated
<1>6. PullsDone(After', p)
  BY <1>5 DEF PullsDone
<1>7. q # p => RPins[q] # RPins[p]
  BY PinAssumption
<1> QED BY <1>4, <1>5, <1>6, <1>7

LEMMA PupdCallDoes ==
    ASSUME GpioInv, NEW p \in CardPins, NEW down \in BOOLEAN, down <=> p = FirstCardPin,
           GpioCalls(p, SetPupd(p, down)), NEW q \in CardPins
    PROVE  /\ PupdDone(After', p)
           /\ q # p => (RPins[q] \in After'[Shared("pupd")] <=> RPins[q] \in gpio[Shared("pupd")])
           /\ \A r \in Registers : r # Shared("pupd") => After'[r] = gpio[r]
<1> DEFINE a == Rmw(Shared("pupd"), IF down THEN {RPins[p]} ELSE {}, IF down THEN {} ELSE {RPins[p]})
<1>1. Shared("pupd") \in Registers
  BY RegistersAre, PinsAreNat
<1>2. GpioCalls(p, <<a>>)
  <2>1. CASE down BY <2>1 DEF SetPupd
  <2>2. CASE ~down BY <2>2 DEF SetPupd
  <2> QED BY <2>1, <2>2
<1>3. /\ a.reg = Shared("pupd")
      /\ a.set = (IF down THEN {RPins[p]} ELSE {}) /\ a.clear = (IF down THEN {} ELSE {RPins[p]})
  BY DEF Rmw, Access
<1> HIDE DEF a
<1>4. \A r \in Registers : After'[r] = IF r = Shared("pupd") THEN Updated(gpio[r], a) ELSE gpio[r]
  BY <1>2, <1>3, AfterOne
<1>5. \A x : x \in After'[Shared("pupd")] <=> IF x = RPins[p] THEN down ELSE x \in gpio[Shared("pupd")]
  BY <1>1, <1>3, <1>4 DEF Updated
<1>6. PupdDone(After', p)
  BY <1>5 DEF PupdDone
<1>7. q # p => RPins[q] # RPins[p]
  BY PinAssumption
<1> QED BY <1>4, <1>5, <1>6, <1>7

LEMMA CardCallDoes ==
    ASSUME GpioInv, NEW k \in Nat, k < CardCalls, CardDone(gpio, k),
           GpioCalls(CardPin(k), CardCall(k))
    PROVE  CardDone(After', k + 1)
<1> DEFINE p == CardPin(k)
           f == After'
<1>1. p \in CardPins /\ k % 4 \in 0 .. 3 /\ GpioCalls(p, CardCall(k))
  BY CardPinOf
<1>2. \A q \in CardPins, j \in 0 .. 3 : CallOf(q, j) < k + 1 => CallOf(q, j) < k \/ (q = p /\ j = k % 4)
  BY CallsInOrder
<1>3. \A q \in CardPins : /\ ModeReg(q) \in Registers
                          /\ \A s \in {"drv", "r0", "r1", "pupd"} : Shared(s) \in Registers
  BY PinsAreNat, RegistersAre
<1> SUFFICES ASSUME NEW q \in CardPins
             PROVE  /\ CallOf(q, 0) < k + 1 => ModeDone(f, q)
                    /\ CallOf(q, 1) < k + 1 => DrvDone(f, q)
                    /\ CallOf(q, 2) < k + 1 => PullsDone(f, q)
                    /\ CallOf(q, 3) < k + 1 => PupdDone(f, q)
  BY DEF CardDone
<1>5. /\ CallOf(q, 0) < k => ModeDone(gpio, q)
      /\ CallOf(q, 1) < k => DrvDone(gpio, q)
      /\ CallOf(q, 2) < k => PullsDone(gpio, q)
      /\ CallOf(q, 3) < k => PupdDone(gpio, q)
  BY DEF CardDone
<1> HIDE DEF p, f
<1>6. CASE k % 4 = 0
  <2>1. GpioCalls(p, SetMode(p, {0}, TRUE)) BY <1>1, <1>6, CardCallIs DEF p
  <2>2. /\ ModeDone(f, p)
        /\ q # p => \A i \in 0 .. 2 : ((q % 8) * 4 + i) \in f[ModeReg(q)]
                                        <=> ((q % 8) * 4 + i) \in gpio[ModeReg(q)]
        /\ \A s \in {"drv", "r0", "r1", "pupd"} : f[Shared(s)] = gpio[Shared(s)]
    BY <1>1, <2>1, ModeCallDoes DEF f
  <2>3. CallOf(q, 0) < k + 1 => ModeDone(f, q)
    BY <1>2, <1>5, <2>2, SettingsKept
  <2>4. CallOf(q, 1) < k + 1 => DrvDone(f, q)
    <3>1. CallOf(q, 1) < k + 1 => DrvDone(gpio, q) BY <1>2, <1>5, <1>6
    <3>2. f[Shared("drv")] = gpio[Shared("drv")] BY <2>2
    <3> QED BY <3>1, <3>2 DEF DrvDone
  <2>5. CallOf(q, 2) < k + 1 => PullsDone(f, q)
    BY <1>2, <1>5, <1>6, <2>2, SettingsKept
  <2>6. CallOf(q, 3) < k + 1 => PupdDone(f, q)
    <3>1. CallOf(q, 3) < k + 1 => PupdDone(gpio, q) BY <1>2, <1>5, <1>6
    <3>2. f[Shared("pupd")] = gpio[Shared("pupd")] BY <2>2
    <3> QED BY <3>1, <3>2 DEF PupdDone
  <2> QED BY <2>3, <2>4, <2>5, <2>6
<1>7. CASE k % 4 = 1
  <2>1. GpioCalls(p, SetDrv(p, {0, 1})) BY <1>1, <1>7, CardCallIs DEF p
  <2>2. /\ DrvDone(f, p)
        /\ q # p => \A i \in 0 .. 2 : (Drv[q] + i) \in f[Shared("drv")]
                                        <=> (Drv[q] + i) \in gpio[Shared("drv")]
        /\ \A r \in Registers : r # Shared("drv") => f[r] = gpio[r]
    BY <1>1, <2>1, DrvCallDoes DEF f
  <2>3. f[ModeReg(q)] = gpio[ModeReg(q)] /\ \A s \in {"r0", "r1", "pupd"} : f[Shared(s)] = gpio[Shared(s)]
    BY <1>3, <2>2, SharedDiffer
  <2>4. CallOf(q, 0) < k + 1 => ModeDone(f, q)
    BY <1>2, <1>5, <1>7, <2>3, SettingsKept
  <2>5. CallOf(q, 1) < k + 1 => DrvDone(f, q)
    BY <1>2, <1>5, <2>2, SettingsKept
  <2>6. CallOf(q, 2) < k + 1 => PullsDone(f, q)
    BY <1>2, <1>5, <1>7, <2>3, SettingsKept
  <2>7. CallOf(q, 3) < k + 1 => PupdDone(f, q)
    BY <1>2, <1>5, <1>7, <2>3, SettingsKept
  <2> QED BY <2>4, <2>5, <2>6, <2>7
<1>8. CASE k % 4 = 2
  <2>1. GpioCalls(p, SetR0(p)) BY <1>1, <1>8, CardCallIs DEF p
  <2>2. /\ PullsDone(f, p)
        /\ q # p => \A s \in {"r0", "r1"} : RPins[q] \in f[Shared(s)] <=> RPins[q] \in gpio[Shared(s)]
        /\ \A r \in Registers : r # Shared("r0") /\ r # Shared("r1") => f[r] = gpio[r]
    BY <1>1, <2>1, PullsCallDoes DEF f
  <2>3. f[ModeReg(q)] = gpio[ModeReg(q)] /\ \A s \in {"drv", "pupd"} : f[Shared(s)] = gpio[Shared(s)]
    BY <1>3, <2>2, SharedDiffer
  <2>4. CallOf(q, 0) < k + 1 => ModeDone(f, q)
    BY <1>2, <1>5, <1>8, <2>3, SettingsKept
  <2>5. CallOf(q, 1) < k + 1 => DrvDone(f, q)
    BY <1>2, <1>5, <1>8, <2>3, SettingsKept
  <2>6. CallOf(q, 2) < k + 1 => PullsDone(f, q)
    BY <1>2, <1>5, <2>2, SettingsKept
  <2>7. CallOf(q, 3) < k + 1 => PupdDone(f, q)
    BY <1>2, <1>5, <1>8, <2>3, SettingsKept
  <2> QED BY <2>4, <2>5, <2>6, <2>7
<1>9. CASE k % 4 = 3
  <2>1. PICK down \in BOOLEAN : (down <=> p = FirstCardPin) /\ CardCall(k) = SetPupd(p, down)
    BY <1>9, CardCallIs DEF p
  <2>2. GpioCalls(p, SetPupd(p, down)) BY <1>1, <2>1
  <2>3. /\ PupdDone(f, p)
        /\ q # p => (RPins[q] \in f[Shared("pupd")] <=> RPins[q] \in gpio[Shared("pupd")])
        /\ \A r \in Registers : r # Shared("pupd") => f[r] = gpio[r]
    BY <1>1, <2>1, <2>2, PupdCallDoes DEF f
  <2>4. f[ModeReg(q)] = gpio[ModeReg(q)] /\ \A s \in {"drv", "r0", "r1"} : f[Shared(s)] = gpio[Shared(s)]
    BY <1>3, <2>3, SharedDiffer
  <2>5. CallOf(q, 0) < k + 1 => ModeDone(f, q)
    BY <1>2, <1>5, <1>9, <2>4, SettingsKept
  <2>6. CallOf(q, 1) < k + 1 => DrvDone(f, q)
    BY <1>2, <1>5, <1>9, <2>4, SettingsKept
  <2>7. CallOf(q, 2) < k + 1 => PullsDone(f, q)
    BY <1>2, <1>5, <1>9, <2>4, SettingsKept
  <2>8. CallOf(q, 3) < k + 1 => PupdDone(f, q)
    BY <1>2, <1>5, <2>3, SettingsKept
  <2> QED BY <2>5, <2>6, <2>7, <2>8
<1> QED BY <1>1, <1>6, <1>7, <1>8, <1>9
LEMMA CardSteps ==
    ASSUME AppOK, [BoardNext]_boardVars, phase \in {"card", "drivers"} \/ phase' \in {"card", "drivers"}
    PROVE  \/ ConfigureMSDCGpios \/ SdCardHackDxeReturns \/ OtherDriverCalls
           \/ /\ UNCHANGED <<phase, app>>
              /\ GpioGoesOn \/ KeyMoves \/ UNCHANGED gpioVars
<1>1. ASSUME WatchdogIsLoaded \/ ApplicationRuns \/ OsStarts \/ ClockRuns
      PROVE  FALSE
  BY <1>1 DEF WatchdogIsLoaded, ApplicationRuns, OsStarts, ClockRuns
<1>2. ASSUME PollBegins \/ PollStep \/ Hardware \/ ButtonMoves
      PROVE  UNCHANGED <<phase, app>> /\ UNCHANGED gpioVars
  BY <1>2 DEF PollBegins, PollStep, PollGetsDir, PollGetsLevel, PollReads, PollWaits, PollGetsButton,
     PollReturns, Hardware, ButtonMoves, pmicVars
<1>3. ASSUME GpioGoesOn \/ KeyMoves
      PROVE  UNCHANGED <<phase, app>>
  BY <1>3 DEF GpioGoesOn, KeyMoves, pmicVars
<1>4. CASE WatchdogPings
  BY <1>4 DEF WatchdogPings, pmicVars
<1>5. CASE TimePasses
  BY <1>5 DEF TimePasses, pmicVars
<1>6. CASE UNCHANGED boardVars
  BY <1>6 DEF boardVars, pmicVars
<1> QED BY <1>1, <1>2, <1>3, <1>4, <1>5, <1>6 DEF BoardNext

LEMMA CardStart == BoardInit => CardInv
<1> SUFFICES ASSUME BoardInit PROVE CardInv
  OBVIOUS
<1>1. app.step = 0 /\ phase \in {"card", "apps"}
  BY DEF BoardInit, PmicInit, NoJob
<1>2. \A p \in CardPins, j \in 0 .. 3 : ~(CallOf(p, j) < 0)
  BY PinAssumption DEF CardPins, CallOf
<1>3. 0 \in 0 .. CardCalls
  BY PinAssumption DEF CardCalls
<1> QED BY <1>1, <1>2, <1>3 DEF CardInv, CardDone

LEMMA CardStep ==
    ASSUME AppOK, GpioInv, CardInv, [BoardNext]_boardVars
    PROVE  CardInv'
<1> SUFFICES ASSUME phase \in {"card", "drivers"} \/ phase' \in {"card", "drivers"}
             PROVE  CardInv'
  BY DEF CardInv
<1>1. CASE ConfigureMSDCGpios
  <2> DEFINE k == app.step
  <2>1. /\ phase = "card" /\ phase' = "card" /\ k \in Nat /\ k < CardCalls /\ app'.step = k + 1
        /\ GpioCalls(CardPin(k), CardCall(k)) /\ accesses = <<>>
    BY <1>1 DEF ConfigureMSDCGpios, GpioCalls, AppOK, AppFields
  <2>2. CardDone(gpio, k)
    BY <2>1, AfterNothing DEF CardInv
  <2>3. CardDone(After', k + 1)
    <3> HIDE DEF k
    <3> QED BY <2>1, <2>2, CardCallDoes
  <2>4. k + 1 \in 0 .. CardCalls
    BY <2>1, PinAssumption DEF CardCalls
  <2>5. CardDone(After, app.step)' <=> CardDone(After', k + 1)
    BY <2>1 DEF CardDone, ModeDone, DrvDone, PullsDone, PupdDone
  <2> QED BY <2>1, <2>3, <2>4, <2>5 DEF CardInv
<1>2. CASE SdCardHackDxeReturns
  <2>1. /\ phase = "card" /\ phase' = "drivers" /\ app.step = CardCalls /\ accesses = <<>>
        /\ gpio' = gpio /\ accesses' = <<>>
    BY <1>2 DEF SdCardHackDxeReturns, gpioVars
  <2>2. CardDone(gpio, CardCalls)
    BY <2>1, AfterNothing DEF CardInv
  <2>3. CardDone(gpio, CardCalls)'
    BY <2>1, <2>2 DEF CardDone, ModeDone, DrvDone, PullsDone, PupdDone
  <2> QED BY <2>1, <2>3 DEF CardInv
<1>3. CASE OtherDriverCalls
  BY <1>3 DEF OtherDriverCalls, CardInv
<1>4. CASE UNCHANGED <<phase, app>> /\ GpioGoesOn
  <2>1. GpioAccess /\ accesses # <<>>
    BY <1>4 DEF GpioGoesOn, GpioAccess
  <2>2. After' = After
    BY <2>1, AfterAccess
  <2>3. CardDone(After, app.step)' <=> CardDone(After, app.step)
    BY <1>4, <2>2 DEF CardDone, ModeDone, DrvDone, PullsDone, PupdDone
  <2> QED BY <1>4, <2>1, <2>3 DEF CardInv
<1>5. CASE UNCHANGED <<phase, app>> /\ KeyMoves
  <2>1. accesses' = accesses /\ \A r \in Registers : r[1] # "din" => gpio'[r] = gpio[r]
    BY <1>5, KeyKeepsGpio
  <2>2. \A r \in Registers : r[1] # "din" => After'[r] = After[r]
    BY <2>1 DEF After, With
  <2>3. \A p \in CardPins : /\ ModeReg(p) \in Registers /\ ModeReg(p)[1] # "din"
                            /\ \A k \in {"drv", "r0", "r1", "pupd"} :
                                  Shared(k) \in Registers /\ Shared(k)[1] # "din"
    BY PinsAreNat, RegistersAre
  <2>4. \A p \in CardPins :
           /\ After'[ModeReg(p)] = After[ModeReg(p)] /\ gpio'[ModeReg(p)] = gpio[ModeReg(p)]
           /\ \A k \in {"drv", "r0", "r1", "pupd"} :
                 After'[Shared(k)] = After[Shared(k)] /\ gpio'[Shared(k)] = gpio[Shared(k)]
    BY <2>1, <2>2, <2>3
  <2>5. CardDone(After, app.step)' <=> CardDone(After, app.step)
    BY <1>5, <2>4 DEF CardDone, ModeDone, DrvDone, PullsDone, PupdDone
  <2>6. CardDone(gpio, CardCalls)' <=> CardDone(gpio, CardCalls)
    BY <2>4 DEF CardDone, ModeDone, DrvDone, PullsDone, PupdDone
  <2> QED BY <1>5, <2>1, <2>5, <2>6 DEF CardInv
<1>6. CASE UNCHANGED <<phase, app>> /\ UNCHANGED gpioVars
  <2>1. gpio' = gpio /\ accesses' = accesses
    BY <1>6 DEF gpioVars
  <2>2. After' = After
    BY <2>1 DEF After, With
  <2>3. CardDone(After, app.step)' <=> CardDone(After, app.step)
    BY <1>6, <2>2 DEF CardDone, ModeDone, DrvDone, PullsDone, PupdDone
  <2>4. CardDone(gpio, CardCalls)' <=> CardDone(gpio, CardCalls)
    BY <2>1 DEF CardDone, ModeDone, DrvDone, PullsDone, PupdDone
  <2> QED BY <1>6, <2>1, <2>3, <2>4 DEF CardInv
<1> QED BY <1>1, <1>2, <1>3, <1>4, <1>5, <1>6, CardSteps

\* When the SD card driver has returned, each pin of the card has its mode, drive
\* and pulls, for any run of pins and any tables that keep the pins' fields apart,
\* whatever the registers held before (SdCardHack.c:15-30).
THEOREM CardPinsAreReady == BoardSpec => []CardPinsReady
<1>1. CardInv => CardPinsReady
  <2> SUFFICES ASSUME CardInv, phase = "drivers", NEW p \in CardPins
               PROVE  ModeDone(gpio, p) /\ DrvDone(gpio, p) /\ PullsDone(gpio, p) /\ PupdDone(gpio, p)
    BY DEF CardPinsReady, ModeDone, DrvDone, PullsDone, PupdDone
  <2>1. 0 < CardCalls
    BY PinAssumption DEF CardCalls
  <2>2. \A j \in 0 .. 3 : CallOf(p, j) < CardCalls
    BY <2>1, CallsInOrder
  <2> QED BY <2>2 DEF CardInv, CardDone
<1>2. BoardSpec => [](AppOK /\ GpioInv /\ CardInv)
  <2>1. BoardInit => CardInv BY CardStart
  <2>2. AppOK /\ GpioInv /\ CardInv /\ [BoardNext]_boardVars => CardInv' BY CardStep
  <2> QED BY <2>1, <2>2, GpioHolds, PTL DEF BoardSpec
<1> QED BY <1>1, <1>2, PTL
-----------------------------------------------------------------------------
(* The voltages.                                                             *)

\* A field that was written is read back, and only the field is changed.
LEMMA FieldWritten ==
    ASSUME NEW r \in Nat, NEW u \in Nat \ {0}, NEW n \in Nat \ {0}, NEW x \in 0 .. n - 1
    PROVE  FieldOf(WithField(r, u, n, x), u, n) = x
<1> DEFINE q == r \div u
           s == r % u
           h == q \div n
           f == q % n
<1>1. q \in Nat /\ s \in Nat /\ s < u /\ r = u * q + s
  BY DivMod
<1> HIDE DEF q, s
<1>2. h \in Nat /\ f \in Nat /\ f < n /\ q = n * h + f
  BY <1>1, DivMod
<1>3. FieldOf(r, u, n) = f
  BY DEF FieldOf, q, f
<1> HIDE DEF h, f
<1>4. n * h + x \in Nat /\ n * h \in Nat
  BY <1>2
<1>5. WithField(r, u, n, x) = u * (n * h + x) + s
  <2> DEFINE m == n * h
  <2>1. m \in Nat /\ q = m + f BY <1>2, <1>4
  <2> HIDE DEF m
  <2>2. u * (m + f) = u * m + u * f /\ u * (m + x) = u * m + u * x
    BY <1>2, <2>1
  <2>3. f * u = u * f /\ x * u = u * x
    BY <1>2
  <2>4. r - f * u + x * u = u * (m + x) + s
    BY <1>1, <1>2, <2>1, <2>2, <2>3
  <2> QED BY <1>3, <2>4 DEF WithField, m
<1>6. WithField(r, u, n, x) \div u = n * h + x
  BY <1>1, <1>4, <1>5, DivModUnique
<1>7. (n * h + x) % n = x
  BY <1>2, DivModUnique
<1> QED BY <1>6, <1>7 DEF FieldOf

ReadsAs(i, d, v) ==
    IF i \in LdoId THEN VoltagesFor(i, FieldOf(d, Ldos[i].unit, Ldos[i].size)) = {v}
    ELSE BuckVoltage(i, d) <= v /\ v < BuckVoltage(i, d) + Bucks[i].UVStep

\* What a setter writes is read as what it was asked for, if the table has it.
LEMMA LdoReadsBack ==
    ASSUME NEW l \in LdoId, NEW r \in Datum, NEW v, VoselsFor(l, v) # {},
           NEW d \in LdoWithVoltage(l, r, v)
    PROVE  ReadsAs(l, d, v)
<1> DEFINE L == Ldos[l]
           t == L.range
<1>1. PICK x \in VoselsFor(l, v) : d = WithField(r, L.unit, L.size, x)
  BY DEF LdoWithVoltage
<1>2. PICK i \in DOMAIN t : t[i].Mask = x /\ t[i].Voltage = v
  BY <1>1 DEF VoselsFor, First
<1>3. x \in 0 .. L.size - 1 /\ L.unit \in Nat \ {0} /\ L.size \in Nat \ {0} /\ r \in Nat
  BY <1>2, TableAssumption, DataAssumption
<1>4. FieldOf(d, L.unit, L.size) = x
  BY <1>1, <1>3, FieldWritten
<1>5. \A j \in DOMAIN t : t[j].Mask = x <=> j = i
  BY <1>2, TableAssumption
<1>6. i \in Nat
  BY <1>2, TableAssumption
<1>7. First({j \in DOMAIN t : t[j].Mask = x}) = {i}
  <2>1. {j \in DOMAIN t : t[j].Mask = x} = {i}
    BY <1>2, <1>5
  <2>2. First({i}) = {i}
    BY <1>6 DEF First
  <2> QED BY <2>1, <2>2
<1>8. VoltagesFor(l, x) = {v}
  BY <1>2, <1>7 DEF VoltagesFor
<1> QED BY <1>4, <1>8 DEF ReadsAs

LEMMA BuckReadsBack ==
    ASSUME NEW b \in BuckId, NEW r \in Datum, NEW v \in Voltages, BuckInRange(b, v),
           NEW d \in BuckWithVoltage(b, r, v)
    PROVE  ReadsAs(b, d, v)
<1> DEFINE B == Bucks[b]
           o == v - B.UVMin
           c == o \div B.UVStep
<1>1. /\ B.size \in Nat \ {0} /\ B.UVStep \in Nat \ {0} /\ B.UVMin \in Nat /\ r \in Nat
      /\ v \in Nat /\ v < Word /\ Word \in Nat \ {0} /\ b \notin LdoId
  BY TableAssumption, DataAssumption
<1>2. o \in Nat /\ o < B.size * B.UVStep /\ o < Word /\ v = B.UVMin + o
  <2>1. B.size * B.UVStep \in Nat BY <1>1
  <2> QED BY <1>1, <2>1 DEF BuckInRange
<1>3. ((v + Word) - B.UVMin) % Word = o
  <2>1. (v + Word) - B.UVMin = Word * 1 + o BY <1>1, <1>2
  <2> HIDE DEF o
  <2>2. (Word * 1 + o) % Word = o BY <1>1, <1>2, DivModUnique
  <2> QED BY <2>1, <2>2
<1>4. c \in Nat /\ c < B.size /\ o = B.UVStep * c + (o % B.UVStep) /\ o % B.UVStep \in Nat
      /\ o % B.UVStep < B.UVStep
  <2> HIDE DEF o
  <2> QED BY <1>1, <1>2, DivMod, DivBelow
<1>5. c % B.size = c
  <2> HIDE DEF c
  <2>1. (B.size * 0 + c) % B.size = c BY <1>1, <1>4, DivModUnique
  <2>2. B.size * 0 + c = c BY <1>1, <1>4
  <2> QED BY <2>1, <2>2
<1>6. BuckCode(b, v) = c
  BY <1>3, <1>5 DEF BuckCode
<1>7. d = WithField(r, 1, B.size, c)
  BY <1>6 DEF BuckWithVoltage
<1> HIDE DEF c
<1>8. FieldOf(d, 1, B.size) = c
  BY <1>1, <1>4, <1>7, FieldWritten
<1>9. BuckVoltage(b, d) = B.UVMin + c * B.UVStep
  BY <1>8 DEF BuckVoltage
<1>10. c * B.UVStep = B.UVStep * c /\ B.UVStep * c \in Nat
  BY <1>1, <1>4
<1> HIDE DEF o
<1>11. BuckVoltage(b, d) <= v /\ v < BuckVoltage(b, d) + B.UVStep
  BY <1>1, <1>2, <1>4, <1>9, <1>10
<1> QED BY <1>1, <1>11 DEF ReadsAs
Getters == {"LdoGetVoltage", "BuckGetMicroVoltage"}
Setting(i) == app.fn \in Setters /\ app.id = i /\ app.step = 2

\* What the writes so far say of a regulator's register reads as the voltage last
\* set, but while the next one is being written.
Remembered ==
    /\ wanted \in [Regulator -> Nat]
    /\ \A i \in Regulator :
          wanted[i] # 0 /\ ~Setting(i) => ReadsAs(i, meant[SetReg(i)], wanted[i])

\* A setter's datum is waiting to be written, and then is what its register should hold.
OnItsWay ==
    app.fn \in Setters /\ app.step = 2 =>
      IF Writing THEN call["app"].data \in NewContents ELSE meant[SetReg(app.id)] \in NewContents

\* A register that only the driver writes holds what it should while it is read,
\* and a getter has read that.
Undisturbed ==
    InFlight("app") /\ call["app"].reg \in Reg \ Volatile => held["app"] \subseteq {meant[call["app"].reg]}
HasRead ==
    app.fn \in Getters /\ Len(app.got) = 1 => app.got[1] = meant[SetReg(app.id)]

VoltageInv == Remembered /\ OnItsWay /\ Undisturbed /\ HasRead

LEMMA VoltageStart == BoardInit => VoltageInv
<1> SUFFICES ASSUME BoardInit PROVE VoltageInv
  OBVIOUS
<1>1. app.fn = "none" /\ wanted = [i \in Regulator |-> 0] /\ call["app"].pc = "none"
  BY DEF BoardInit, PmicInit, NoJob, Regulator, WrapperInit, Caller, NoCall
<1> QED
  BY <1>1 DEF VoltageInv, Remembered, OnItsWay, Undisturbed, HasRead, Setters, Getters, InFlight

LEMMA SameContents ==
    ASSUME app'.fn = app.fn, app'.id = app.id, app'.arg = app.arg, app'.got = app.got
    PROVE  NewContents' = NewContents
BY DEF NewContents

\* Steps of everything but the application's functions.
LEMMA OthersKeepVoltages ==
    ASSUME IInv, VoltageInv, UNCHANGED <<app, wanted, meant>>, call'["app"] = call["app"],
           held'["app"] = held["app"] \/ Undisturbed'
    PROVE  VoltageInv'
<1>1. NewContents' = NewContents
  BY SameContents
<1>2. (Writing' <=> Writing) /\ (InFlight("app")' <=> InFlight("app"))
  BY DEF Writing, InFlight
<1>3. Remembered' BY DEF VoltageInv, Remembered, Setting
<1>4. OnItsWay' BY <1>1, <1>2 DEF VoltageInv, OnItsWay
<1>5. Undisturbed' BY <1>2 DEF VoltageInv, Undisturbed
<1>6. HasRead' BY DEF VoltageInv, HasRead
<1> QED BY <1>3, <1>4, <1>5, <1>6 DEF VoltageInv

LEMMA CardKeepsVoltages ==
    ASSUME IInv, AppOK, VoltageInv, CardActs, UNCHANGED <<wrapperVars, wanted>>
    PROVE  VoltageInv'
<1>1. app.fn = "none"
  BY DEF CardActs, ConfigureMSDCGpios, SdCardHackDxeReturns, AppOK, AppPhase
<1>2. app'.fn = "none"
  BY <1>1 DEF CardActs, ConfigureMSDCGpios, SdCardHackDxeReturns, NoJob, AppOK, AppFields
<1>3. UNCHANGED <<meant, wanted, call, held>>
  BY DEF wrapperVars
<1>4. Remembered' BY <1>1, <1>2, <1>3 DEF VoltageInv, Remembered, Setting, Setters
<1>5. OnItsWay' BY <1>2 DEF OnItsWay, Setters
<1>6. Undisturbed' BY <1>3 DEF VoltageInv, Undisturbed, InFlight
<1>7. HasRead' BY <1>2 DEF HasRead, Getters
<1> QED BY <1>4, <1>5, <1>6, <1>7 DEF VoltageInv

\* The hardware changes nothing that is being read but volatile registers.
LEMMA HardwareUndisturbed ==
    ASSUME IInv, Undisturbed, Hardware \/ ClockRuns \/ ButtonMoves
    PROVE  Undisturbed'
<1>1. call' = call /\ meant' = meant
  BY HardwareLeavesApp
<1> SUFFICES ASSUME InFlight("app"), call["app"].reg \in Reg \ Volatile, NEW h \in held'["app"]
             PROVE  h = meant[call["app"].reg]
  BY <1>1 DEF Undisturbed, InFlight
<1>2. h \in held["app"] \/ h = reg'[call["app"].reg]
  BY HardwareHolds
<1>3. ~(fsm = "REQ" /\ cmd.write)
  BY DEF IInv, Answered, Caller
<1>4. reg[call["app"].reg] = meant[call["app"].reg]
  BY <1>3 DEF IInv, WritesLand
<1>5. reg'[call["app"].reg] = reg[call["app"].reg]
  BY <1>3 DEF Hardware, ClockRuns, ClockTicks, ButtonMoves, HwExecutes, HwChanges
<1> QED BY <1>2, <1>4, <1>5 DEF Undisturbed

\* A read that begins, and one that goes on, of a register that only the driver
\* writes: it finds what was written, for no write is on its way then.
LEMMA AppUndisturbed ==
    ASSUME IInv, Undisturbed, WacsStep("app")
    PROVE  Undisturbed'
<1>1. CASE /\ call["app"].pc # "none" /\ call'["app"].pc # "none"
           /\ call'["app"].reg = call["app"].reg /\ meant' = meant
  <2>1. CASE held'["app"] = held["app"] /\ (InFlight("app")' => InFlight("app"))
    BY <1>1, <2>1 DEF Undisturbed
  <2>2. CASE held'["app"] = {reg[call["app"].reg]} /\ call["app"].pc = "cmd"
    <3>1. fsm = "IDLE"
      BY <2>2, IdleAtCommand DEF WacsStep, WacsWaitForIdle, WacsCommandData, WacsCommand,
         WacsWaitForValid, WacsReadData, At, Caller
    <3>2. call["app"].reg \in Reg \ Volatile => reg[call["app"].reg] = meant[call["app"].reg]
      BY <3>1 DEF IInv, WritesLand
    <3> QED BY <1>1, <2>2, <3>2 DEF Undisturbed
  <2> QED BY <2>1, <2>2, CommandHolds
<1>2. CASE call'["app"] = NoCall
  BY <1>2 DEF Undisturbed, InFlight, NoCall
<1> QED BY <1>1, <1>2, TransactionGoesOn
\* A function is called, or goes on to its next transaction.
LEMMA BeginsKeepVoltages ==
    ASSUME IInv, AppOK, VoltageInv,
           PmicCalls \/ RtcGetTimeReads \/ FirstReads \/ ThenWrites \/ LdoControlWrites
    PROVE  VoltageInv'
<1>1. /\ UNCHANGED <<wanted, meant>> /\ ~InFlight("app")'
      /\ call["app"] = NoCall /\ Len(app.got) = ReadsBegun(app.fn, app.step)
      /\ \A i \in Regulator : ~Setting(i)
  <2>1. call["app"] = NoCall /\ UNCHANGED wanted
    BY DEF PmicCalls, Calls, RtcGetTimeReads, FirstReads, ThenWrites, LdoControlWrites, AppReady
  <2>2. Len(app.got) = ReadsBegun(app.fn, app.step)
    BY <2>1, NoneOpen
  <2>3. \A i \in Regulator : ~Setting(i)
    <3>1. ASSUME PmicCalls PROVE app.fn \notin Setters
      <4>1. app = NoJob BY <3>1 DEF PmicCalls, Calls
      <4> QED BY <4>1 DEF NoJob, Setters
    <3>2. ASSUME RtcGetTimeReads \/ FirstReads \/ ThenWrites \/ LdoControlWrites
          PROVE  app.fn \notin Setters \/ app.step # 2
      BY <3>2 DEF RtcGetTimeReads, FirstReads, ThenWrites, LdoControlWrites, Setters
    <3> QED BY <3>1, <3>2 DEF Setting
  <2>4. CASE PmicCalls
    <3>1. UNCHANGED wrapperVars BY <2>4 DEF PmicCalls, Calls
    <3> QED BY <2>1, <2>2, <2>3, <3>1 DEF wrapperVars, InFlight, NoCall
  <2>5. CASE RtcGetTimeReads \/ FirstReads
    <3>1. PICK r : WacsRead16("app", r)
      BY <2>5 DEF RtcGetTimeReads, FirstReads
    <3>2. meant' = meant /\ call'["app"] = [pc |-> "idle", write |-> FALSE, reg |-> r, data |-> 0]
      BY <3>1, BeginsRead
    <3> QED BY <2>1, <2>2, <2>3, <3>2 DEF InFlight
  <2>6. CASE ThenWrites \/ LdoControlWrites
    <3>1. PICK r, d : WacsWrite16("app", r, d)
      BY <2>6 DEF ThenWrites, LdoControlWrites
    <3>2. meant' = meant /\ call'["app"] = [pc |-> "idle", write |-> TRUE, reg |-> r, data |-> d]
      BY <3>1, BeginsWrite
    <3> QED BY <2>1, <2>2, <2>3, <3>2 DEF InFlight
  <2> QED BY <2>4, <2>5, <2>6
<1>2. Undisturbed' BY <1>1 DEF Undisturbed
<1>3. Remembered' BY <1>1 DEF VoltageInv, Remembered
<1>4. CASE app'.step # 2 /\ (app'.fn \in Getters => Len(app'.got) # 1)
  <2>1. OnItsWay' BY <1>4 DEF OnItsWay
  <2>2. HasRead' BY <1>4 DEF HasRead
  <2> QED BY <1>2, <1>3, <2>1, <2>2 DEF VoltageInv
<1>5. CASE PmicCalls
  <2>1. PICK fn, id, arg : Calls(fn, id, arg)
    BY <1>5 DEF PmicCalls
  <2>2. app'.step = 0 /\ app'.got = <<>>
    BY <2>1 DEF Calls, NoJob
  <2> QED BY <1>4, <2>2
<1>6. CASE RtcGetTimeReads
  <2>1. app'.fn = "RtcGetTime"
    BY <1>6 DEF RtcGetTimeReads, AppOK, AppFields
  <2> QED BY <1>2, <1>3, <2>1 DEF VoltageInv, OnItsWay, HasRead, Setters, Getters
<1>7. CASE FirstReads
  <2>1. app'.step = 1 /\ app'.got = app.got /\ app.step = 0 /\ app.fn # "RtcGetTime"
    BY <1>7 DEF FirstReads, AppOK, AppFields
  <2>2. Len(app.got) = 0
    BY <1>1, <2>1 DEF ReadsBegun
  <2> QED BY <1>4, <2>1, <2>2
<1>8. CASE ThenWrites
  <2>1. PICK d \in NewContents : WacsWrite16("app", RegOf(app.fn, app.id), d)
    BY <1>8 DEF ThenWrites
  <2>2. call'["app"] = [pc |-> "idle", write |-> TRUE, reg |-> RegOf(app.fn, app.id), data |-> d]
    BY <2>1, BeginsWrite
  <2>3. /\ app'.fn = app.fn /\ app'.id = app.id /\ app'.arg = app.arg /\ app'.got = app.got
        /\ app.fn \in Setters
    BY <1>8 DEF ThenWrites, AppOK, AppFields, Setters
  <2>4. NewContents' = NewContents
    BY <2>3, SameContents
  <2>5. Writing' /\ call'["app"].data \in NewContents'
    BY <2>2, <2>4 DEF Writing
  <2>6. OnItsWay' BY <2>5 DEF OnItsWay
  <2>7. HasRead' BY <2>3 DEF HasRead, Setters, Getters
  <2> QED BY <1>2, <1>3, <2>6, <2>7 DEF VoltageInv
<1>9. CASE LdoControlWrites
  <2>1. app'.fn = "LdoControl"
    BY <1>9 DEF LdoControlWrites, AppOK, AppFields
  <2> QED BY <1>2, <1>3, <2>1 DEF VoltageInv, OnItsWay, HasRead, Setters, Getters
<1> QED BY <1>5, <1>6, <1>7, <1>8, <1>9

LEMMA GetsKeepVoltages ==
    ASSUME IInv, AppOK, VoltageInv, AppGets
    PROVE  VoltageInv'
<1>1. Reading /\ call'["app"] = NoCall /\ meant' = meant /\ wanted' = wanted
      /\ call["app"].data \in held["app"] /\ InFlight("app")
  BY EndsRead DEF AppGets, WacsReadReturns, At, InFlight
<1>2. /\ app.fn = "RtcGetTime" \/ (app.step = 1 /\ call["app"].reg = RegOf(app.fn, app.id))
      /\ Len(app.got) = ReadsBegun(app.fn, app.step) - 1
  BY <1>1 DEF AppOK, AppCall
<1>3. /\ app'.fn = app.fn /\ app'.id = app.id /\ app'.step = app.step
      /\ app'.got = Append(app.got, call["app"].data) /\ app.got \in Seq(Datum)
  BY DEF AppGets, AppOK, AppFields
<1>4. ~(app.fn \in Setters /\ app.step = 2)
  BY <1>2 DEF Setters
<1>5. Remembered'
  BY <1>1, <1>3, <1>4 DEF VoltageInv, Remembered, Setting
<1>6. OnItsWay'
  BY <1>3, <1>4 DEF OnItsWay
<1>7. Undisturbed'
  BY <1>1 DEF Undisturbed, InFlight, NoCall
<1>8. HasRead'
  <2> SUFFICES ASSUME app.fn \in Getters
               PROVE  app'.got[1] = meant[SetReg(app.id)]
    BY <1>1, <1>3 DEF HasRead
  <2>1. Len(app.got) = 0
    BY <1>2 DEF Getters, ReadsBegun
  <2>2. app'.got[1] = call["app"].data
    BY <1>3, <2>1
  <2>3. app.id \in Regulator /\ RegOf(app.fn, app.id) = SetReg(app.id)
    BY RegistersOf DEF Getters, LdoFunctions, BuckFunctions, AppOK, AppFields, Regulator
  <2>4. call["app"].reg = SetReg(app.id) /\ SetReg(app.id) \in Reg \ Volatile
    BY <1>2, <2>3, TableAssumption DEF Getters
  <2> QED BY <1>1, <2>2, <2>4 DEF VoltageInv, Undisturbed
<1> QED BY <1>5, <1>6, <1>7, <1>8 DEF VoltageInv

LEMMA ReturnKeepsVoltages ==
    ASSUME IInv, AppOK, VoltageInv, PmicReturns
    PROVE  VoltageInv'
<1>1. /\ app' = NoJob /\ call["app"] = NoCall /\ app.step = Steps(app.fn) /\ app.fn # "none"
      /\ UNCHANGED <<meant, call, held>>
  BY DEF PmicReturns, Done, AppReady, wrapperVars
<1>2. ~Writing /\ Len(app.got) = ReadsBegun(app.fn, app.step)
  BY <1>1, NoneOpen
<1>3. OnItsWay' /\ HasRead'
  BY <1>1 DEF OnItsWay, HasRead, NoJob, Setters, Getters
<1>4. Undisturbed'
  BY <1>1 DEF Undisturbed, InFlight, NoCall
<1>5. \A i : ~Setting(i)'
  BY <1>1 DEF Setting, NoJob, Setters
<1>6. CASE app.fn \notin Setters
  <2>1. wanted' = wanted
    BY <1>6 DEF PmicReturns, Setters
  <2>2. Remembered'
    BY <1>1, <1>5, <1>6, <2>1 DEF VoltageInv, Remembered, Setting
  <2> QED BY <1>3, <1>4, <2>2 DEF VoltageInv
<1>7. CASE app.fn \in Setters
  <2>1. app.step = 2 /\ Len(app.got) = 1 /\ meant[SetReg(app.id)] \in NewContents
    BY <1>1, <1>2, <1>7 DEF Steps, Setters, ReadsBegun, VoltageInv, OnItsWay
  <2>2. app.got[1] \in Datum /\ app.arg \in Voltages /\ app.arg \in Nat
    BY <1>7, <2>1, DataAssumption DEF AppOK, AppFields
  <2>3. PICK w \in Nat : /\ wanted' = [wanted EXCEPT ![app.id] = w] /\ app.id \in Regulator
                         /\ w # 0 => ReadsAs(app.id, meant[SetReg(app.id)], w)
    <3>1. CASE app.fn = "LdoSetVoltage"
      <4> DEFINE w == IF VoselsFor(app.id, app.arg) = {} THEN 0 ELSE app.arg
      <4>1. wanted' = [wanted EXCEPT ![app.id] = w]
        BY <3>1 DEF PmicReturns
      <4>2. app.id \in LdoId /\ meant[SetReg(app.id)] \in LdoWithVoltage(app.id, app.got[1], app.arg)
        BY <2>1, <3>1 DEF NewContents, AppOK, AppFields, LdoFunctions
      <4>3. w # 0 => ReadsAs(app.id, meant[SetReg(app.id)], w)
        BY <2>2, <4>2, LdoReadsBack
      <4> QED BY <2>2, <4>1, <4>2, <4>3 DEF Regulator
    <3>2. CASE app.fn = "BuckSetMicroVoltage"
      <4> DEFINE w == IF BuckInRange(app.id, app.arg) THEN app.arg ELSE 0
      <4>1. wanted' = [wanted EXCEPT ![app.id] = w]
        BY <3>2 DEF PmicReturns
      <4>2. app.id \in BuckId /\ meant[SetReg(app.id)] \in BuckWithVoltage(app.id, app.got[1], app.arg)
        BY <2>1, <3>2 DEF NewContents, AppOK, AppFields, BuckFunctions
      <4>3. w # 0 => ReadsAs(app.id, meant[SetReg(app.id)], w)
        BY <2>2, <4>2, BuckReadsBack
      <4> QED BY <2>2, <4>1, <4>2, <4>3 DEF Regulator
    <3> QED BY <1>7, <3>1, <3>2 DEF Setters
  <2>4. Remembered'
    <3>1. wanted' \in [Regulator -> Nat]
      BY <2>3 DEF VoltageInv, Remembered
    <3>2. ASSUME NEW i \in Regulator, wanted'[i] # 0
          PROVE  ReadsAs(i, meant[SetReg(i)], wanted'[i])
      <4>1. CASE i = app.id
        BY <2>3, <3>2, <4>1 DEF VoltageInv, Remembered
      <4>2. CASE i # app.id
        <5>1. wanted'[i] = wanted[i] /\ ~Setting(i)
          BY <2>3, <4>2 DEF VoltageInv, Remembered, Setting
        <5> QED BY <3>2, <5>1 DEF VoltageInv, Remembered
      <4> QED BY <4>1, <4>2
    <3>3. meant' = meant BY <1>1
    <3> QED BY <3>1, <3>2, <3>3 DEF Remembered
  <2> QED BY <1>3, <1>4, <2>4 DEF VoltageInv
<1> QED BY <1>6, <1>7
LEMMA TransactionKeepsVoltages ==
    ASSUME IInv, AppOK, VoltageInv, WacsStep("app"), UNCHANGED <<app, wanted>>
    PROVE  VoltageInv'
<1>1. Undisturbed'
  BY AppUndisturbed DEF VoltageInv
<1>2. NewContents' = NewContents
  BY SameContents
<1>3. CASE /\ call["app"].pc # "none" /\ call'["app"].pc # "none"
           /\ call'["app"].write = call["app"].write
           /\ call["app"].write => call'["app"].data = call["app"].data
           /\ meant' = meant
  <2>1. (Writing' <=> Writing) /\ (Writing => call'["app"].data = call["app"].data)
    BY <1>3 DEF Writing
  <2>2. Remembered' BY <1>3 DEF VoltageInv, Remembered, Setting
  <2>3. OnItsWay' BY <1>2, <1>3, <2>1 DEF VoltageInv, OnItsWay
  <2>4. HasRead' BY <1>3 DEF VoltageInv, HasRead
  <2> QED BY <1>1, <2>2, <2>3, <2>4 DEF VoltageInv
<1>4. CASE /\ call["app"].pc # "none" /\ call["app"].write /\ call'["app"] = NoCall
           /\ meant' = [meant EXCEPT ![call["app"].reg] = call["app"].data]
  <2>1. /\ Writing /\ ~Writing' /\ app.fn \in Setters \cup {"LdoControl"}
        /\ app.step = Steps(app.fn) /\ call["app"].reg = RegOf(app.fn, app.id)
    BY <1>4 DEF Writing, NoCall, AppOK, AppCall
  <2>2. call["app"].reg \in Reg /\ meant \in [Reg -> Datum]
    BY <2>1, RegistersOf DEF Setters, LdoFunctions, BuckFunctions, AppOK, IInv, WrapperTypeOK
  <2>3. ASSUME app.fn \in Setters
        PROVE  /\ app.id \in Regulator /\ call["app"].reg = SetReg(app.id) /\ app.step = 2
    BY <2>1, <2>3, RegistersOf DEF Setters, LdoFunctions, BuckFunctions, Steps, AppOK, AppFields, Regulator
  <2>4. ASSUME app.fn = "LdoControl", NEW i \in Regulator
        PROVE  call["app"].reg # SetReg(i)
    BY <2>1, <2>4, TableAssumption DEF RegOf, AppOK, AppFields, LdoFunctions
  <2>5. ASSUME NEW i \in Regulator, ~Setting(i)
        PROVE  meant'[SetReg(i)] = meant[SetReg(i)]
    <3>1. SetReg(i) \in Reg /\ SetReg(i) # call["app"].reg
      BY <2>1, <2>3, <2>4, <2>5, TableAssumption DEF Setting
    <3> QED BY <1>4, <2>2, <3>1
  <2>6. Remembered'
    BY <2>5 DEF VoltageInv, Remembered, Setting
  <2>7. OnItsWay'
    BY <1>2, <1>4, <2>1, <2>2, <2>3 DEF VoltageInv, OnItsWay
  <2>8. HasRead'
    BY <2>1 DEF HasRead, Setters, Getters
  <2> QED BY <1>1, <2>6, <2>7, <2>8 DEF VoltageInv
<1> QED BY <1>3, <1>4, TransactionGoesOn

LEMMA VoltageStep ==
    ASSUME IInv, AppOK, VoltageInv, [BoardNext]_boardVars
    PROVE  VoltageInv'
<1>1. ASSUME ApplicationRuns PROVE VoltageInv'
  BY <1>1, BeginsKeepVoltages, GetsKeepVoltages, ReturnKeepsVoltages, TransactionKeepsVoltages
     DEF ApplicationRuns, PmicStep
<1>2. ASSUME CardActs, UNCHANGED <<wrapperVars, wanted>> PROVE VoltageInv'
  BY <1>2, CardKeepsVoltages
<1>3. ASSUME PollBegins \/ PollStep PROVE VoltageInv'
  BY <1>3, PollLeavesApp, OthersKeepVoltages
<1>4. ASSUME Hardware \/ ClockRuns \/ ButtonMoves PROVE VoltageInv'
  BY <1>4, HardwareLeavesApp, HardwareUndisturbed, OthersKeepVoltages DEF VoltageInv
<1>5. ASSUME UNCHANGED pmicVars PROVE VoltageInv'
  BY <1>5, OthersKeepVoltages DEF pmicVars, wrapperVars
<1> QED BY <1>1, <1>2, <1>3, <1>4, <1>5, OthersLeaveApp

\* A voltage that was set and that the regulator's table has is read back, for any
\* tables and registers the assumptions allow, although the setter returns before
\* its write is carried out and the keypad's polls use the wrapper in between
\* (MT6358PmicDxe.c:116-125,147-167,181-184,203-209).
THEOREM VoltagesReadBack == BoardSpec => []VoltageReadsBack
<1>1. IInv /\ AppOK /\ VoltageInv => VoltageReadsBack
  <2> SUFFICES ASSUME IInv, AppOK, VoltageInv, NEW fn \in Getters, Done(fn), wanted[app.id] # 0
               PROVE  app.id \in Regulator /\ app.fn = fn /\ ReadsAs(app.id, app.got[1], wanted[app.id])
    <3>1. AppOK /\ Done("BuckGetMicroVoltage") => app.id \notin LdoId
      BY TableAssumption DEF AppOK, AppFields, Done, BuckFunctions
    <3>2. AppOK /\ Done("LdoGetVoltage") => app.id \in LdoId
      BY DEF AppOK, AppFields, Done, LdoFunctions
    <3> QED BY <3>1, <3>2 DEF VoltageReadsBack, ReadsAs, Getters
  <2>1. app.fn = fn /\ app.step = 1 /\ Len(app.got) = 1
    BY NoneOpen DEF Done, AppReady, Steps, Getters, ReadsBegun
  <2>2. app.got[1] = meant[SetReg(app.id)]
    BY <2>1 DEF VoltageInv, HasRead
  <2>3. app.id \in Regulator
    BY <2>1 DEF AppOK, AppFields, Getters, LdoFunctions, BuckFunctions, Regulator
  <2>4. ~Setting(app.id)
    BY <2>1 DEF Setting
  <2> QED BY <2>1, <2>2, <2>3, <2>4 DEF VoltageInv, Remembered
<1>2. BoardSpec => [](IInv /\ AppOK /\ VoltageInv)
  BY CoreStart, CoreStep, VoltageStart, VoltageStep, PTL DEF BoardSpec
<1> QED BY <1>1, <1>2, PTL
-----------------------------------------------------------------------------
(* The poll, and the types.                                                  *)

\* The poll reads the wrapper for the keys that the PMIC has.
PollInv ==
    /\ DOMAIN poll = {"index", "source", "level"} /\ poll.index \in 0 .. 4
    /\ call["poll"].pc # "none" => poll.index \in 2 .. 3

LEMMA PollRecords ==
    ASSUME NEW i
    PROVE  /\ DOMAIN PollAt(i) = {"index", "source", "level"} /\ PollAt(i).index = i
           /\ DOMAIN NoPoll = {"index", "source", "level"} /\ NoPoll.index = 0
<1>1. DOMAIN PollAt(i) = {"index", "source", "level"} BY Zenon DEF PollAt, NoPoll
<1>2. PollAt(i).index = i BY Zenon DEF PollAt, NoPoll
<1>3. DOMAIN NoPoll = {"index", "source", "level"} BY DEF NoPoll
<1>4. NoPoll.index = 0 BY DEF NoPoll
<1> QED BY <1>1, <1>2, <1>3, <1>4

LEMMA PollNotesTheSource ==
    ASSUME NEW p, NEW source, NEW level, DOMAIN p = {"index", "source", "level"}
    PROVE  /\ DOMAIN [p EXCEPT !.source = source, !.level = level] = {"index", "source", "level"}
           /\ [p EXCEPT !.source = source, !.level = level].index = p.index
BY Zenon

LEMMA PollStart == BoardInit => PollInv
<1> SUFFICES ASSUME BoardInit PROVE PollInv
  OBVIOUS
<1>1. poll = NoPoll /\ call["poll"].pc = "none"
  BY DEF BoardInit, PmicInit, WrapperInit, Caller, NoCall
<1> QED BY <1>1, PollRecords DEF PollInv

LEMMA PollStepKeeps ==
    ASSUME IInv, AppOK, PollInv, [BoardNext]_boardVars
    PROVE  PollInv'
<1> USE DEF PollInv
<1>1. CASE PollBegins
  <2>1. call' = call /\ call["poll"] = NoCall /\ poll' = PollAt(1)
    BY <1>1 DEF PollBegins, PollStarts, IInv, Nested
  <2> QED BY <2>1, PollRecords DEF NoCall
<1>2. CASE PollGetsDir
  <2>1. poll' = [poll EXCEPT !.source = IF GetDir(KeyPin) THEN "din" ELSE "dout",
                             !.level = KeyLevel]
    BY <1>2 DEF PollGetsDir
  <2>2. call' = call
    BY <1>2 DEF PollGetsDir, pmicVars, wrapperVars
  <2>3. DOMAIN poll' = {"index", "source", "level"} /\ poll'.index = poll.index
    BY <2>1, PollNotesTheSource
  <2> QED BY <2>3, <2>2
<1>3. CASE PollGetsLevel
  <2>1. poll.index = 1 /\ poll' = PollAt(poll.index + 1) /\ call' = call
    BY <1>3 DEF PollGetsLevel, Key, KeyList, pmicVars, wrapperVars
  <2> QED BY <2>1, PollRecords
<1>4. CASE PollReads
  <2>1. poll.index \in 2 .. 3 /\ poll' = poll
    BY <1>4 DEF PollReads, Key, KeyList
  <2> QED BY <2>1
<1>5. CASE PollWaits
  <2>1. poll' = poll /\ call["poll"].pc # "none"
    BY <1>5 DEF PollWaits, WacsStep, WacsWaitForIdle, WacsCommandData, WacsCommand, WacsWaitForValid,
       WacsReadData, At
  <2> QED BY <2>1
<1>6. CASE PollGetsButton
  <2>1. call["poll"].pc = "clear" /\ call' = [call EXCEPT !["poll"] = NoCall]
        /\ poll' = PollAt(poll.index + 1)
    BY <1>6 DEF PollGetsButton, WacsReadReturns, At
  <2>2. poll.index \in 2 .. 3 /\ call'["poll"].pc = "none"
    BY <2>1 DEF IInv, WrapperTypeOK, Caller, NoCall
  <2>3. poll.index + 1 \in 0 .. 4
    BY <2>2
  <2> QED BY <2>1, <2>2, <2>3, PollRecords
<1>7. CASE PollReturns
  <2>1. call["poll"] = NoCall /\ call' = call /\ poll' = NoPoll
    BY <1>7 DEF PollReturns, PollEnds
  <2> QED BY <2>1, PollRecords DEF NoCall
<1>8. CASE ApplicationRuns
  <2>1. poll' = poll /\ call["poll"] = NoCall
    BY <1>8 DEF ApplicationRuns, AppsTurn, IInv, Nested
  <2>2. call'["poll"] = call["poll"]
    BY <1>8 DEF ApplicationRuns, PmicCalls, Calls, PmicStep, RtcGetTimeReads, FirstReads, AppGets,
       ThenWrites, LdoControlWrites, PmicReturns, WacsRead16, WacsWrite16, Begin, WacsStep,
       WacsWaitForIdle, WacsCommandData, WacsCommand, WacsWaitForValid, WacsReadData, WacsReadReturns,
       Goto, wrapperVars, IInv, WrapperTypeOK, Caller
  <2> QED BY <2>1, <2>2
<1>9. CASE Hardware \/ ClockRuns \/ ButtonMoves
  <2>1. poll' = poll
    BY <1>9 DEF Hardware, ClockRuns, ButtonMoves
  <2> QED BY <1>9, <2>1, HardwareLeavesApp
<1>10. CASE /\ CardActs \/ OtherDriverCalls \/ GpioGoesOn \/ WatchdogIsLoaded \/ OsStarts \/ KeyMoves
               \/ WatchdogPings \/ TimePasses \/ UNCHANGED boardVars
  BY <1>10 DEF CardActs, ConfigureMSDCGpios, SdCardHackDxeReturns, OtherDriverCalls, GpioGoesOn,
     WatchdogIsLoaded, OsStarts, KeyMoves, WatchdogPings, TimePasses, boardVars, pmicVars, wrapperVars
<1> QED
  BY <1>1, <1>2, <1>3, <1>4, <1>5, <1>6, <1>7, <1>8, <1>9, <1>10 DEF BoardNext, PollStep, CardActs

\* The types of the wrapper, the watchdog, the pins' registers and the poll.
THEOREM BoardTypesHold == BoardSpec => []BoardTypeOK
<1>1. IInv /\ AppOK /\ WatchInv /\ GpioInv /\ PollInv => BoardTypeOK
  BY DEF IInv, WatchInv, AppOK, AppPhase, GpioInv, PollInv, BoardTypeOK, KeyList
<1>2. BoardSpec => []PollInv
  <2>1. IInv /\ AppOK /\ PollInv /\ [BoardNext]_boardVars => PollInv' BY PollStepKeeps
  <2> QED BY <2>1, PollStart, CoreHolds, PTL DEF BoardSpec
<1> QED BY <1>1, <1>2, WatchHolds, GpioHolds, PTL

\* What the wrapper promises its callers holds for the whole board: no command is
\* dropped, no answer is another caller's, no write is lost, and a poll hangs
\* inside a read of the application's only (PmicWrapperDxe.c:61-113).
THEOREM WrapperPromisesHold ==
    BoardSpec => [](CommandFindsIdle /\ OwnAnswer /\ WritesLand /\ HangsOnlyInsideRead)
BY BoardImplementsWrapper, CommandsFindIdle, AnswersAreOwn, NoWriteIsLost, OnlyReadsHang, PTL
=============================================================================
