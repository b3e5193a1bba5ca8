------------------------------ MODULE MCBoard ------------------------------
(* A clock whose first three fields have two values each, one LDO with two   *)
(* voltages and one buck with four, in registers of three bits; the pins of  *)
(* the SD card, which share registers with the keypad's pin 66, and pin 8.   *)
EXTENDS Board

MCRadix == <<2, 2, 2, 1, 1>>
MCLdos == [VMC |-> [con0 |-> "VMC_CON0", con1 |-> "VMC_CON1", ana |-> "VMC_ANA", unit |-> 2, size |-> 4,
                    range |-> <<[Voltage |-> 1800, Mask |-> 1], [Voltage |-> 3300, Mask |-> 2]>>]]
MCBucks == [VPROC11 |-> [elr0 |-> "VPROC11_ELR0", size |-> 4, UVMin |-> 1000, UVStep |-> 600]]
MCReg == {RtcReg[i] : i \in 1 .. 6}
         \cup {"TOPSTATUS", "VMC_CON0", "VMC_CON1", "VMC_ANA", "VPROC11_ELR0"}
MCVolatile == {RtcReg[i] : i \in 1 .. 6} \cup {"TOPSTATUS", "VMC_CON1"}
MCDrv == [p \in 71 .. 76 |-> 9 + 3 * (p - 71)]
MCRPins == [p \in 71 .. 76 |-> p - 71]
=============================================================================
