------------------------- MODULE PmicWrapperProofs -------------------------
(***************************************************************************)
(* Proofs about the wrapper for all registers, data and kinds of wrapper.  *)
(***************************************************************************)
EXTENDS PmicWrapper, TLAPS

\* A read whose command is out either is what the hardware has been asked, or
\* has its answer, which the register held during the call.
Answered ==
    \A c \in Caller : InFlight(c) =>
        /\ ~call[c].write
        /\ reg[call[c].reg] \in held[c]
        /\ \/ /\ fsm = "REQ" /\ call[c].pc = "valid"
              /\ cmd = [write |-> FALSE, reg |-> call[c].reg]
           \/ fsm = "WFVLDCLR" /\ rdata \in held[c]
        /\ call[c].pc = "clear" => call[c].data \in held[c]

\* The poll's transaction is inside the application's, and gets no further than
\* its wait for idle when the application's command is out.
Nested ==
    /\ running = "app" => call["poll"] = NoCall
    /\ InFlight("app") => call["poll"].pc \in {"none", "idle"}

\* The hardware is busy with a read only for a caller that is there.
HwIsAwaited ==
    fsm = "WFVLDCLR" \/ (fsm = "REQ" /\ ~cmd.write) => \E c \in Caller : InFlight(c)

\* What a caller saw in its wait for idle still holds, or will when the poll
\* that interrupted it has its answer.
IdleLasts ==
    /\ call["poll"].pc \in {"wdata", "cmd"} => fsm = "IDLE"
    /\ call["app"].pc \in {"wdata", "cmd"} => fsm = "IDLE" \/ InFlight("poll")

\* Only the application writes, and not to registers that change by themselves.
Written ==
    /\ fsm = "REQ" /\ cmd.write => cmd.reg \in Reg \ Volatile
    /\ \A c \in Caller :
          /\ call[c].write => c = "app" /\ call[c].reg \in Reg \ Volatile
          /\ call[c].pc = "wdata" => call[c].write
          /\ call[c].pc # "none" => call[c].reg \in Reg
    /\ call["app"].pc = "cmd" /\ call["app"].write /\ ArbCap => wdata = call["app"].data

IInv ==
    /\ WrapperTypeOK
    /\ Answered /\ Nested /\ HwIsAwaited /\ IdleLasts /\ Written /\ WritesLand

LEMMA InitIsGood == WrapperInit => IInv
BY WrapperAssumption DEF WrapperInit, IInv, WrapperTypeOK, Answered, Nested, HwIsAwaited,
   IdleLasts, Written, WritesLand, InFlight, Caller, NoCall, NoCmd

LEMMA BeginKeeps ==
    ASSUME IInv, NEW c \in Caller, NEW write \in BOOLEAN, NEW r \in Reg, NEW d \in Datum,
           write => c = "app" /\ r \notin Volatile,
           Begin(c, write, r, d)
    PROVE  IInv'
<1> USE DEF IInv, Begin, At, Goto
<1>1. WrapperTypeOK' BY DEF WrapperTypeOK
<1>2. \A b \in Caller : InFlight(b)' <=> InFlight(b)
    BY DEF WrapperTypeOK, InFlight
<1>3. \A b \in Caller : b # c => call'[b] = call[b]
    BY DEF WrapperTypeOK
<1>4. call'[c] = [pc |-> "idle", write |-> write, reg |-> r, data |-> d]
    BY DEF WrapperTypeOK
<1>5. Answered' BY <1>2, <1>3, <1>4 DEF Answered, InFlight
<1>6. Nested' BY <1>2, <1>3, <1>4 DEF Nested, NoCall, Caller
<1>7. HwIsAwaited' BY <1>2 DEF HwIsAwaited
<1>8. IdleLasts' BY <1>2, <1>3, <1>4 DEF IdleLasts, Caller
<1>9. Written' BY <1>3, <1>4 DEF Written, Caller
<1>10. WritesLand' BY DEF WritesLand
<1> QED BY <1>1, <1>5, <1>6, <1>7, <1>8, <1>9, <1>10

LEMMA WaitForIdleKeeps ==
    ASSUME IInv, NEW c \in Caller, WacsWaitForIdle(c)
    PROVE  IInv'
<1> USE DEF IInv, WacsWaitForIdle, At, Goto
<1>1. WrapperTypeOK' BY DEF WrapperTypeOK
<1>2. \A b \in Caller : ~InFlight(b) /\ ~InFlight(b)'
    BY DEF WrapperTypeOK, InFlight, Answered
<1>3. \A b \in Caller : b # c => call'[b] = call[b]
    BY DEF WrapperTypeOK
<1>4. /\ call'[c].write = call[c].write /\ call'[c].reg = call[c].reg
      /\ call'[c].pc = IF call[c].write /\ ArbCap THEN "wdata" ELSE "cmd"
    BY DEF WrapperTypeOK
<1>5. Answered' BY <1>2 DEF Answered
<1>6. Nested' BY <1>2, <1>3 DEF Nested, NoCall, Caller
<1>7. HwIsAwaited' BY DEF HwIsAwaited
<1>8. IdleLasts' BY DEF IdleLasts
<1>9. Written' BY <1>3, <1>4 DEF Written, Caller
<1>10. WritesLand' BY DEF WritesLand
<1> QED BY <1>1, <1>5, <1>6, <1>7, <1>8, <1>9, <1>10

LEMMA CommandDataKeeps ==
    ASSUME IInv, NEW c \in Caller, WacsCommandData(c)
    PROVE  IInv'
<1> USE DEF IInv, WacsCommandData, At, Goto
<1>1. c = "app" /\ fsm = "IDLE" /\ call["poll"] = NoCall
    BY DEF Written, Nested, IdleLasts, Caller, NoCall, InFlight
<1>2. WrapperTypeOK' BY DEF WrapperTypeOK
<1>3. \A b \in Caller : ~InFlight(b) /\ ~InFlight(b)'
    BY <1>1 DEF WrapperTypeOK, InFlight, Answered
<1>4. call' = [call EXCEPT !["app"].pc = "cmd"] /\ wdata' = call["app"].data
    BY <1>1
<1>5. Answered' BY <1>3 DEF Answered
<1>6. Nested' BY <1>1, <1>3, <1>4 DEF Nested, NoCall, Caller
<1>7. HwIsAwaited' BY <1>1 DEF HwIsAwaited
<1>8. IdleLasts' BY <1>1 DEF IdleLasts
<1>9. Written' BY <1>1, <1>4 DEF Written, WrapperTypeOK, Caller, NoCall
<1>10. WritesLand' BY <1>1 DEF WritesLand
<1> QED BY <1>2, <1>5, <1>6, <1>7, <1>8, <1>9, <1>10

\* A command is never dropped: what was seen idle is idle still.
LEMMA IdleAtCommand ==
    ASSUME IInv, NEW c \in Caller, At(c, "wdata") \/ At(c, "cmd")
    PROVE  fsm = "IDLE" /\ \A b \in Caller : ~InFlight(b)
<1>1. fsm = "IDLE"
    BY DEF IInv, At, Nested, IdleLasts, Caller, NoCall, InFlight
<1> QED BY <1>1 DEF IInv, Answered

LEMMA CommandKeeps ==
    ASSUME IInv, NEW c \in Caller, WacsCommand(c)
    PROVE  IInv'
<1> USE DEF IInv, WacsCommand, At, Goto
<1>1. fsm = "IDLE" /\ \A b \in Caller : ~InFlight(b)
    BY IdleAtCommand
<1>2. fsm' = "REQ" /\ cmd' = [write |-> call[c].write, reg |-> call[c].reg]
    BY <1>1
<1>3. call[c] \in [pc : {"none", "idle", "wdata", "cmd", "valid", "data", "clear"},
                   write : BOOLEAN, reg : Reg \cup {NoReg}, data : Datum]
      /\ call[c].reg \in Reg
    BY DEF WrapperTypeOK, Written
<1>4. CASE call[c].write
    <2>1. c = "app" /\ call[c].reg \in Reg \ Volatile
        BY <1>4 DEF Written
    <2>2. wdata' = call[c].data
        BY <1>4, <2>1 DEF Written
    <2>3. call' = [call EXCEPT !["app"] = NoCall] /\ call["poll"] = NoCall
        BY <1>4, <2>1 DEF Nested
    <2>4. WrapperTypeOK'
        BY <1>1, <1>2, <1>3, <1>4, <2>2, <2>3, WrapperAssumption DEF WrapperTypeOK, NoCall
    <2>5. \A b \in Caller : call'[b] = NoCall
        BY <2>3 DEF WrapperTypeOK, Caller
    <2>6. Answered' /\ Nested' /\ IdleLasts'
        BY <2>5 DEF Answered, Nested, IdleLasts, InFlight, NoCall, Caller
    <2>7. HwIsAwaited'
        BY <1>2, <1>4 DEF HwIsAwaited
    <2>8. Written'
        BY <1>2, <2>1, <2>5 DEF Written, NoCall, Caller
    <2>9. WritesLand'
        <3>1. meant' = [meant EXCEPT ![call[c].reg] = call[c].data] /\ reg' = reg
            BY <1>4
        <3>2. \A r \in Reg \ Volatile : meant[r] = reg[r]
            BY <1>1 DEF WritesLand
        <3>3. cmd' = [write |-> TRUE, reg |-> call[c].reg]
            BY <1>2, <1>3, <1>4
        <3>4. \A r \in Reg : (cmd' = [write |-> TRUE, reg |-> r]) <=> (r = call[c].reg)
            BY <3>3
        <3> QED BY <1>2, <2>1, <2>2, <3>1, <3>2, <3>4 DEF WritesLand, WrapperTypeOK
    <2> QED BY <2>4, <2>6, <2>7, <2>8, <2>9
<1>5. CASE ~call[c].write
    <2>1. call' = [call EXCEPT ![c].pc = "valid"]
          /\ held' = [held EXCEPT ![c] = {reg[call[c].reg]}]
          /\ UNCHANGED <<meant, wdata>>
        BY <1>5
    <2>2. WrapperTypeOK'
        BY <1>2, <1>3, <2>1 DEF WrapperTypeOK
    <2>3. /\ \A b \in Caller : b # c => call'[b] = call[b]
          /\ call'[c].pc = "valid" /\ call'[c].write = call[c].write
          /\ call'[c].reg = call[c].reg /\ held'[c] = {reg[call[c].reg]}
        BY <2>1 DEF WrapperTypeOK
    <2>4. InFlight(c)' /\ \A b \in Caller : b # c => ~InFlight(b)'
        BY <1>1, <2>3 DEF InFlight
    <2>5. Answered'
        <3>1. cmd' = [write |-> FALSE, reg |-> call[c].reg]
            BY <1>2, <1>3, <1>5
        <3>2. reg' = reg
            OBVIOUS
        <3> QED BY <1>2, <1>5, <2>3, <2>4, <3>1, <3>2 DEF Answered
    <2>6. Nested'
        BY <2>3, <2>4 DEF Nested, Caller, NoCall, InFlight
    <2>7. HwIsAwaited'
        BY <2>4 DEF HwIsAwaited
    <2>8. IdleLasts'
        BY <2>3, <2>4 DEF IdleLasts, Nested, Caller, NoCall
    <2>9. Written'
        BY <1>2, <1>5, <2>1, <2>3 DEF Written, Caller
    <2>10. WritesLand'
        <3>1. cmd'.write = FALSE
            BY <1>2, <1>5, <1>3
        <3> QED BY <1>1, <2>1, <3>1 DEF WritesLand
    <2> QED BY <2>2, <2>5, <2>6, <2>7, <2>8, <2>9, <2>10
<1> QED BY <1>4, <1>5

LEMMA WaitForValidKeeps ==
    ASSUME IInv, NEW c \in Caller, WacsWaitForValid(c)
    PROVE  IInv'
<1> USE DEF IInv, WacsWaitForValid, At, Goto
<1>1. WrapperTypeOK' BY DEF WrapperTypeOK
<1>2. /\ \A b \in Caller : b # c => call'[b] = call[b]
      /\ call'[c].pc = "data" /\ call'[c].write = call[c].write
      /\ call'[c].reg = call[c].reg
    BY DEF WrapperTypeOK
<1>3. \A b \in Caller : InFlight(b)' <=> InFlight(b)
    BY <1>2 DEF InFlight
<1>4. Answered' BY <1>2, <1>3 DEF Answered, InFlight
<1>5. Nested' BY <1>2, <1>3 DEF Nested, NoCall, Caller, InFlight
<1>6. HwIsAwaited' BY <1>3 DEF HwIsAwaited
<1>7. IdleLasts' BY <1>2, <1>3 DEF IdleLasts, Caller
<1>8. Written' BY <1>2 DEF Written, Caller
<1>9. WritesLand' BY DEF WritesLand
<1> QED BY <1>1, <1>4, <1>5, <1>6, <1>7, <1>8, <1>9

LEMMA ReadDataKeeps ==
    ASSUME IInv, NEW c \in Caller, WacsReadData(c)
    PROVE  IInv'
<1> USE DEF IInv, WacsReadData, At
<1>1. WrapperTypeOK' BY DEF WrapperTypeOK
<1>2. /\ \A b \in Caller : b # c => call'[b] = call[b]
      /\ call'[c].pc = "clear" /\ call'[c].write = call[c].write
      /\ call'[c].reg = call[c].reg /\ call'[c].data = rdata
    BY DEF WrapperTypeOK
<1>3. \A b \in Caller : InFlight(b)' <=> InFlight(b)
    BY <1>2 DEF InFlight
<1>4. fsm = "WFVLDCLR" /\ rdata \in held[c]
    BY DEF Answered, InFlight
<1>5. Answered' BY <1>2, <1>3, <1>4 DEF Answered, InFlight
<1>6. Nested' BY <1>2, <1>3 DEF Nested, NoCall, Caller, InFlight
<1>7. HwIsAwaited' BY <1>3 DEF HwIsAwaited
<1>8. IdleLasts' BY <1>2, <1>3 DEF IdleLasts, Caller
<1>9. Written' BY <1>2 DEF Written, Caller
<1>10. WritesLand' BY DEF WritesLand
<1> QED BY <1>1, <1>5, <1>6, <1>7, <1>8, <1>9, <1>10

LEMMA ReadReturnsKeeps ==
    ASSUME IInv, NEW c \in Caller, WacsReadReturns(c)
    PROVE  IInv'
<1> USE DEF IInv, WacsReadReturns, At
<1>1. fsm = "WFVLDCLR" /\ fsm' = "IDLE"
    BY DEF Answered, InFlight
<1>2. WrapperTypeOK' BY <1>1, WrapperAssumption DEF WrapperTypeOK, NoCall
<1>3. call'[c] = NoCall /\ \A b \in Caller : b # c => call'[b] = call[b]
    BY DEF WrapperTypeOK
<1>4. \A b \in Caller : ~InFlight(b)'
    BY <1>3 DEF InFlight, Nested, NoCall, Caller
<1>5. Answered' BY <1>4 DEF Answered
<1>6. Nested' BY <1>3, <1>4 DEF Nested, NoCall, Caller, InFlight
<1>7. HwIsAwaited' BY <1>1 DEF HwIsAwaited
<1>8. IdleLasts' BY <1>1 DEF IdleLasts
<1>9. Written' BY <1>1, <1>3 DEF Written, NoCall, Caller
<1>10. WritesLand' BY <1>1 DEF WritesLand
<1> QED BY <1>2, <1>5, <1>6, <1>7, <1>8, <1>9, <1>10

LEMMA HwExecutesKeeps ==
    ASSUME IInv, HwExecutes
    PROVE  IInv'
<1> USE DEF IInv, HwExecutes
<1>1. CASE cmd.write
    <2>1. \A b \in Caller : ~InFlight(b) /\ ~InFlight(b)'
        BY <1>1 DEF Answered, InFlight
    <2>2. cmd.reg \in Reg \ Volatile
        BY <1>1 DEF Written
    <2>3. WrapperTypeOK'
        BY <1>1, <2>1 DEF WrapperTypeOK, Holding, NoCmd, InFlight
    <2>4. Answered' BY <2>1 DEF Answered
    <2>5. Nested' BY <2>1 DEF Nested, Caller
    <2>6. HwIsAwaited' BY <1>1 DEF HwIsAwaited
    <2>7. IdleLasts' BY <1>1 DEF IdleLasts
    <2>8. Written' BY <1>1 DEF Written
    <2>9. WritesLand'
        <3>1. cmd = [write |-> TRUE, reg |-> cmd.reg]
            BY <1>1 DEF WrapperTypeOK
        <3>2. reg' = [reg EXCEPT ![cmd.reg] = wdata] /\ fsm' = "IDLE"
            BY <1>1
        <3>3. \A r \in Reg : (cmd = [write |-> TRUE, reg |-> r]) <=> (r = cmd.reg)
            BY <3>1
        <3> QED BY <2>2, <3>2, <3>3 DEF WritesLand, WrapperTypeOK
    <2> QED BY <2>3, <2>4, <2>5, <2>6, <2>7, <2>8, <2>9
<1>2. CASE ~cmd.write
    <2>1. PICK b \in Caller : InFlight(b)
        BY <1>2 DEF HwIsAwaited
    <2>2. fsm' = "WFVLDCLR" /\ rdata' = reg[cmd.reg] /\ UNCHANGED <<reg, held, call>>
        BY <1>2
    <2>3. \A c \in Caller : InFlight(c) => cmd.reg = call[c].reg /\ cmd.reg \in Reg
        BY DEF Answered, Written, InFlight
    <2>4. WrapperTypeOK'
        BY <2>1, <2>2, <2>3 DEF WrapperTypeOK, NoCmd
    <2>5. \A c \in Caller : InFlight(c)' <=> InFlight(c)
        BY <2>2 DEF InFlight
    <2>6. Answered' BY <2>2, <2>3, <2>5 DEF Answered
    <2>7. Nested' BY <2>2, <2>5 DEF Nested, Caller
    <2>8. HwIsAwaited' BY <2>1, <2>5 DEF HwIsAwaited
    <2>9. IdleLasts' BY <2>2, <2>5 DEF IdleLasts, Caller
    <2>10. Written' BY <2>2 DEF Written
    <2>11. WritesLand'
        <3>1. \A r \in Reg : cmd # [write |-> TRUE, reg |-> r]
            BY <1>2
        <3> QED BY <2>2, <3>1 DEF WritesLand
    <2> QED BY <2>4, <2>6, <2>7, <2>8, <2>9, <2>10, <2>11
<1> QED BY <1>1, <1>2

LEMMA HwChangesKeeps ==
    ASSUME IInv, HwChanges
    PROVE  IInv'
<1> USE DEF IInv, HwChanges
<1>1. \A b \in Caller : InFlight(b)' <=> InFlight(b)
    BY DEF InFlight
<1>2. \A b \in Caller : InFlight(b) => call[b].reg \in Reg
    BY DEF Written, InFlight
<1>3. \A b \in Caller : held'[b] = IF InFlight(b) THEN held[b] \cup {reg'[call[b].reg]} ELSE held[b]
    BY DEF Holding
<1>4. WrapperTypeOK'
    <2>1. ASSUME NEW b \in Caller PROVE held'[b] \in SUBSET Datum
        <3>1. held[b] \in SUBSET Datum /\ reg' \in [Reg -> Datum]
            BY DEF WrapperTypeOK
        <3>2. CASE InFlight(b)
            <4>1. reg'[call[b].reg] \in Datum
                BY <1>2, <3>1, <3>2
            <4>2. held'[b] = held[b] \cup {reg'[call[b].reg]}
                BY <1>3, <3>2
            <4> QED BY <3>1, <4>1, <4>2
        <3>3. CASE ~InFlight(b)
            BY <1>3, <3>1, <3>3
        <3> QED BY <3>2, <3>3
    <2>2. held' \in [Caller -> SUBSET Datum]
        BY <2>1 DEF Holding
    <2> QED BY <2>2 DEF WrapperTypeOK
<1>5. Answered' BY <1>1, <1>3 DEF Answered
<1>6. Nested' BY <1>1 DEF Nested, Caller
<1>7. HwIsAwaited' BY <1>1 DEF HwIsAwaited
<1>8. IdleLasts' BY <1>1 DEF IdleLasts, Caller
<1>9. Written' BY DEF Written
<1>10. WritesLand' BY DEF WritesLand, WrapperTypeOK
<1> QED BY <1>4, <1>5, <1>6, <1>7, <1>8, <1>9, <1>10

\* The poll takes the processor and gives it back with no transaction open.
LEMMA SwitchKeeps ==
    ASSUME IInv, PollStarts \/ PollEnds
    PROVE  IInv'
<1>1. UNCHANGED <<fsm, cmd, wdata, rdata, reg, call, held, meant>> /\ running' \in Caller
    BY DEF PollStarts, PollEnds, Caller
<1>2. running' = "app" => call["poll"] = NoCall
    BY DEF PollStarts, PollEnds
<1> QED BY <1>1, <1>2 DEF IInv, WrapperTypeOK, Answered, Nested, HwIsAwaited, IdleLasts,
       Written, WritesLand, InFlight

LEMMA StepKeeps == IInv /\ [WrapperNext]_wrapperVars => IInv'
<1> SUFFICES ASSUME IInv, [WrapperNext]_wrapperVars PROVE IInv'
    OBVIOUS
<1>1. ASSUME NEW c \in Caller, NEW r \in Reg, WacsRead16(c, r) PROVE IInv'
    BY <1>1, BeginKeeps, WrapperAssumption DEF WacsRead16
<1>2. ASSUME NEW r \in Reg \ Volatile, NEW d \in Datum, WacsWrite16("app", r, d) PROVE IInv'
    BY <1>2, BeginKeeps DEF WacsWrite16, Caller
<1>3. ASSUME NEW c \in Caller, WacsStep(c) PROVE IInv'
    BY <1>3, WaitForIdleKeeps, CommandDataKeeps, CommandKeeps, WaitForValidKeeps,
       ReadDataKeeps DEF WacsStep
<1>4. ASSUME NEW c \in Caller, WacsReadReturns(c) PROVE IInv'
    BY <1>4, ReadReturnsKeeps
<1>5. CASE UNCHANGED wrapperVars
    BY <1>5 DEF wrapperVars, IInv, WrapperTypeOK, Answered, Nested, HwIsAwaited, IdleLasts,
       Written, WritesLand, InFlight
<1> QED BY <1>1, <1>2, <1>3, <1>4, <1>5, HwExecutesKeeps, HwChangesKeeps, SwitchKeeps
        DEF WrapperNext

THEOREM Invariance == WrapperSpec => []IInv
BY InitIsGood, StepKeeps, PTL DEF WrapperSpec

\* Every variable of the wrapper keeps its type.
THEOREM TypesHold == WrapperSpec => []WrapperTypeOK
<1>1. IInv => WrapperTypeOK BY DEF IInv
<1> QED BY <1>1, Invariance, PTL

\* No command is dropped, although the poll may come between the wait for idle
\* and the command (PmicWrapperDxe.c:53-85).
THEOREM CommandsFindIdle == WrapperSpec => []CommandFindsIdle
<1>1. IInv => CommandFindsIdle BY IdleAtCommand DEF CommandFindsIdle
<1> QED BY <1>1, Invariance, PTL

\* Each read gets the answer to its own command, fresh (PmicWrapperDxe.c:95-114).
THEOREM AnswersAreOwn == WrapperSpec => []OwnAnswer
<1>1. IInv => OwnAnswer BY DEF IInv, Answered, OwnAnswer, InFlight
<1> QED BY <1>1, Invariance, PTL

\* No write is lost between its return and the hardware (PmicWrapperDxe.c:87-93).
THEOREM NoWriteIsLost == WrapperSpec => []WritesLand
<1>1. IInv => WritesLand BY DEF IInv
<1> QED BY <1>1, Invariance, PTL

\* A poll hangs only inside a read that it interrupted (PmicWrapperDxe.c:61,103).
THEOREM OnlyReadsHang == WrapperSpec => []HangsOnlyInsideRead
<1>1. IInv => HangsOnlyInsideRead
    BY DEF IInv, HwIsAwaited, HangsOnlyInsideRead, InFlight, Caller
<1> QED BY <1>1, Invariance, PTL
=============================================================================
