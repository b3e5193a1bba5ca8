---------------------------- MODULE PmicWrapper ----------------------------
(***************************************************************************)
(* The PMIC wrapper bus driver and the hardware behind it.  A transaction  *)
(* is a handful of accesses to the wrapper's registers.  The application   *)
(* runs at a low task priority level, and the keypad's poll, which reads   *)
(* PMIC registers too, interrupts it between any two of these accesses     *)
(* and then runs to its end before the application goes on.                *)
(***************************************************************************)
EXTENDS Naturals

CONSTANTS
    Reg,       \* the registers of the PMIC
    Volatile,  \* those that change without being written
    Datum,     \* what a register holds
    ArbCap,    \* the wrapper has an arbiter: data and command are two accesses
    NoReg      \* stands for the register of no command

ASSUME WrapperAssumption ==
    /\ Volatile \subseteq Reg
    /\ ArbCap \in BOOLEAN
    /\ NoReg \notin Reg
    /\ 0 \in Datum

VARIABLES
    fsm,      \* the hardware's state, as WacsGetFsm reads it
    cmd,      \* the command the hardware has taken
    wdata,    \* the data register of an arbiter wrapper
    rdata,    \* the answer to the last read command
    reg,      \* the PMIC's registers
    call,     \* the transaction of each caller
    running,  \* the caller that has the processor
    held,     \* history: what the register being read held during the call
    meant     \* history: what the writes so far say a register should hold

wrapperVars == <<fsm, cmd, wdata, rdata, reg, call, running, held, meant>>

Caller == {"app", "poll"}
NoCmd == [write |-> FALSE, reg |-> NoReg]
NoCall == [pc |-> "none", write |-> FALSE, reg |-> NoReg, data |-> 0]

\* The command is out and the answer has not been cleared.
InFlight(c) == call[c].pc \in {"valid", "data", "clear"}

\* The next access of c's transaction.
At(c, pc) == running = c /\ call[c].pc = pc
Goto(c, pc) == call' = [call EXCEPT ![c].pc = pc]

WrapperInit ==
    /\ fsm = "IDLE" /\ cmd = NoCmd /\ wdata = 0 /\ rdata = 0
    /\ reg \in [Reg -> Datum]
    /\ call = [c \in Caller |-> NoCall]
    /\ running = "app"
    /\ held = [c \in Caller |-> {}]
    /\ meant = reg
-----------------------------------------------------------------------------
(* The driver, one access of a hardware register at a time.                *)

Begin(c, write, r, d) ==
    /\ At(c, "none")
    /\ call' = [call EXCEPT ![c] = [pc |-> "idle", write |-> write, reg |-> r, data |-> d]]
    /\ UNCHANGED <<fsm, cmd, wdata, rdata, reg, running, held, meant>>

WacsRead16(c, r) == Begin(c, FALSE, r, 0)
WacsWrite16(c, r, d) == Begin(c, TRUE, r, d)

\* Mutant: the wait for idle is left out.
WacsWaitForIdleSkipped(c) ==
    /\ At(c, "idle")
    /\ Goto(c, IF call[c].write /\ ArbCap THEN "wdata" ELSE "cmd")
    /\ UNCHANGED <<fsm, cmd, wdata, rdata, reg, running, held, meant>>

\* WacsWaitFor (WACS_FSM_IDLE) sees the state it waits for; until then it goes
\* round its loop, with no limit.
WacsWaitForIdle(c) ==
    /\ At(c, "idle")
    /\ fsm = "IDLE"
    /\ Goto(c, IF call[c].write /\ ArbCap THEN "wdata" ELSE "cmd")
    /\ UNCHANGED <<fsm, cmd, wdata, rdata, reg, running, held, meant>>

WacsCommandData(c) ==
    /\ At(c, "wdata")
    /\ wdata' = call[c].data
    /\ Goto(c, "cmd")
    /\ UNCHANGED <<fsm, cmd, rdata, reg, running, held, meant>>

\* The command register is written; hardware that is not idle drops it.  A
\* write returns at once, before the hardware has carried it out.
WacsCommand(c) ==
    /\ At(c, "cmd")
    /\ IF fsm = "IDLE"
         THEN fsm' = "REQ" /\ cmd' = [write |-> call[c].write, reg |-> call[c].reg]
         ELSE UNCHANGED <<fsm, cmd>>
    /\ IF call[c].write
         THEN /\ call' = [call EXCEPT ![c] = NoCall]
              /\ meant' = [meant EXCEPT ![call[c].reg] = call[c].data]
              /\ wdata' = IF ArbCap THEN wdata ELSE call[c].data
              /\ held' = held
         ELSE /\ Goto(c, "valid")
              /\ held' = [held EXCEPT ![c] = {reg[call[c].reg]}]
              /\ UNCHANGED <<meant, wdata>>
    /\ UNCHANGED <<rdata, reg, running>>

\* Mutant: the data register is read without waiting for the answer.
WacsWaitForValidSkipped(c) ==
    /\ At(c, "valid")
    /\ Goto(c, "data")
    /\ UNCHANGED <<fsm, cmd, wdata, rdata, reg, running, held, meant>>

WacsWaitForValid(c) ==
    /\ At(c, "valid")
    /\ fsm = "WFVLDCLR"
    /\ Goto(c, "data")
    /\ UNCHANGED <<fsm, cmd, wdata, rdata, reg, running, held, meant>>

WacsReadData(c) ==
    /\ At(c, "data")
    /\ call' = [call EXCEPT ![c].pc = "clear", ![c].data = rdata]
    /\ UNCHANGED <<fsm, cmd, wdata, rdata, reg, running, held, meant>>

\* Mutant: VLDCLR is not written.
WacsReadReturnsUncleared(c) ==
    /\ At(c, "clear")
    /\ call' = [call EXCEPT ![c] = NoCall]
    /\ held' = [held EXCEPT ![c] = {}]
    /\ UNCHANGED <<fsm, cmd, wdata, rdata, reg, running, meant>>

\* VLDCLR is written and WacsRead16 returns call[c].data.
WacsReadReturns(c) ==
    /\ At(c, "clear")
    /\ fsm' = IF fsm = "WFVLDCLR" THEN "IDLE" ELSE fsm
    /\ call' = [call EXCEPT ![c] = NoCall]
    /\ held' = [held EXCEPT ![c] = {}]
    /\ UNCHANGED <<cmd, wdata, rdata, reg, running, meant>>

\* The transaction goes on without its caller.
WacsStep(c) ==
    \/ WacsWaitForIdle(c) \/ WacsCommandData(c) \/ WacsCommand(c)
    \/ WacsWaitForValid(c) \/ WacsReadData(c)
-----------------------------------------------------------------------------
(* The hardware.                                                           *)

Holding(newReg) ==
    [c \in Caller |-> IF InFlight(c) THEN held[c] \cup {newReg[call[c].reg]} ELSE held[c]]

HwExecutes ==
    /\ fsm = "REQ"
    /\ cmd' = NoCmd
    /\ IF cmd.write
         THEN /\ reg' = [reg EXCEPT ![cmd.reg] = wdata]
              /\ fsm' = "IDLE"
              /\ held' = Holding(reg')
              /\ rdata' = rdata
         ELSE /\ rdata' = reg[cmd.reg]
              /\ fsm' = "WFVLDCLR"
              /\ UNCHANGED <<reg, held>>
    /\ UNCHANGED <<wdata, call, running, meant>>

\* Registers change of themselves: a clock runs on, a button is pressed.
HwChanges ==
    /\ reg' \in [Reg -> Datum]
    /\ \A r \in Reg \ Volatile : reg'[r] = reg[r]
    /\ held' = Holding(reg')
    /\ UNCHANGED <<fsm, cmd, wdata, rdata, call, running, meant>>
-----------------------------------------------------------------------------
(* The keypad's poll takes the processor and gives it back.                *)

PollStarts ==
    /\ running = "app"
    /\ running' = "poll"
    /\ UNCHANGED <<fsm, cmd, wdata, rdata, reg, call, held, meant>>

PollEnds ==
    /\ running = "poll" /\ call["poll"] = NoCall
    /\ running' = "app"
    /\ UNCHANGED <<fsm, cmd, wdata, rdata, reg, call, held, meant>>

WrapperNext ==
    \/ \E c \in Caller, r \in Reg : WacsRead16(c, r)
    \/ \E r \in Reg \ Volatile, d \in Datum : WacsWrite16("app", r, d)
    \/ \E c \in Caller : WacsStep(c) \/ WacsReadReturns(c)
    \/ HwExecutes
    \/ HwChanges
    \/ PollStarts \/ PollEnds

WrapperSpec == WrapperInit /\ [][WrapperNext]_wrapperVars
-----------------------------------------------------------------------------
WrapperTypeOK ==
    /\ fsm \in {"IDLE", "REQ", "WFVLDCLR"}
    /\ cmd \in [write : BOOLEAN, reg : Reg \cup {NoReg}]
    /\ wdata \in Datum /\ rdata \in Datum
    /\ reg \in [Reg -> Datum] /\ meant \in [Reg -> Datum]
    /\ call \in [Caller -> [pc : {"none", "idle", "wdata", "cmd", "valid", "data", "clear"},
                            write : BOOLEAN, reg : Reg \cup {NoReg}, data : Datum]]
    /\ running \in Caller
    /\ held \in [Caller -> SUBSET Datum]

\* No command is dropped: whoever interrupts a transaction before its command,
\* after its wait for idle, leaves the hardware idle again (lines 61-84).
CommandFindsIdle ==
    \A c \in Caller : At(c, "wdata") \/ At(c, "cmd") => fsm = "IDLE"

\* A read returns what its own register held at some time during the call,
\* never another caller's answer or an old one (lines 102-113).
OwnAnswer ==
    \A c \in Caller : call[c].pc = "clear" => call[c].data \in held[c]

\* Once WacsWrite16 has returned, its datum is in the register or is what the
\* hardware is about to put there; none is lost on the way (lines 87-93).
WritesLand ==
    \A r \in Reg \ Volatile :
        meant[r] = IF fsm = "REQ" /\ cmd = [write |-> TRUE, reg |-> r] THEN wdata ELSE reg[r]

\* A poll finds the hardware waiting for a clear only when it interrupted a read
\* between its command and its clear, which nobody can then finish (lines 61,103).
HangsOnlyInsideRead ==
    (call["poll"].pc = "idle" /\ fsm = "WFVLDCLR") => InFlight("app")
=============================================================================
