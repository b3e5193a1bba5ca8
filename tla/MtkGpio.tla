------------------------------ MODULE MtkGpio ------------------------------
(***************************************************************************)
(* The GPIO driver.  Registers are sets of bit numbers.  A function of the *)
(* protocol is a sequence of register accesses: a write to a set or reset  *)
(* alias changes the bits it names at once, any other change reads the     *)
(* register first and writes it back in an access of its own.  The aliases *)
(* read as zero, so the driver's reads of them add nothing to its writes.  *)
(***************************************************************************)
EXTENDS Naturals, Sequences

CONSTANTS
    Drv,    \* DrvTable:  for a pin in it, the shift of its field
    RPins   \* RTable and PupdTable: for a pin in them, its bit

VARIABLES
    gpio,     \* the registers
    accesses, \* what the function in progress still has to do
    pinBusy,  \* the pin it is for
    contents  \* the register it has read and not yet written back, if any

gpioVars == <<gpio, accesses, pinBusy, contents>>

Bits == 0 .. 31

\* The tables name pins; a drive strength has three bits, as a mode has.
ASSUME GpioAssumption ==
    /\ DOMAIN Drv \subseteq Nat /\ DOMAIN RPins \subseteq Nat
    /\ \A p \in DOMAIN Drv : Drv[p] \in Bits /\ Drv[p] + 2 \in Bits
    /\ \A p \in DOMAIN RPins : RPins[p] \in Bits

\* Registers that hold a bit or a field of each pin, and the shared ones.
OfPin(kind, p) == <<kind, p \div 32>>
ModeReg(p) == <<"mode", p \div 8>>
Shared(kind) == <<kind, 0>>

\* Mutant: four pins to a mode register.
ModeBitNarrow(p) == (p % 4) * 4

\* PIN_MODE_BIT: pin 8 gets bit 32.
ModeBit(p) == IF p > 8 THEN (p % 8) * 4 ELSE p * 4

\* 1U << n for n of 32 and more is undefined: the processor takes n modulo 32,
\* and a compiler that sees the shift may make nothing of it.
Shifted(n, wraps) == IF n < 32 THEN {n} ELSE IF wraps THEN {n % 32} ELSE {}
BitOf(p) == p % 32

\* A mode or a drive strength is the set of its bits that are one.
Number == SUBSET (0 .. 2)
ModeBits(p, m, wraps) == UNION {Shifted(ModeBit(p) + i, wraps) : i \in m}

Access(alias, r, set, clear) == [alias |-> alias, reg |-> r, set |-> set, clear |-> clear]
SetAlias(r, bits) == Access(TRUE, r, bits, {})
ResetAlias(r, bits) == Access(TRUE, r, {}, bits)
Rmw(r, set, clear) == Access(FALSE, r, set, clear)

\* Mutant: the bits that are not wanted stay.
SetModeOnly(p, m, wraps) == << SetAlias(ModeReg(p), ModeBits(p, m, wraps)) >>

SetMode(p, m, wraps) == << SetAlias(ModeReg(p), ModeBits(p, m, wraps)),
                           ResetAlias(ModeReg(p), ModeBits(p, (0 .. 2) \ m, wraps)) >>
SetDir(p, dir) == IF dir THEN << SetAlias(OfPin("dir", p), {BitOf(p)}) >>
                         ELSE << ResetAlias(OfPin("dir", p), {BitOf(p)}) >>
Set(p, level) == IF level THEN << SetAlias(OfPin("dout", p), {BitOf(p)}) >>
                          ELSE << ResetAlias(OfPin("dout", p), {BitOf(p)}) >>

DrvBits(p) == Drv[p] .. Drv[p] + 2
SetDrv(p, d) == << Rmw(Shared("drv"), {Drv[p] + i : i \in d}, DrvBits(p)) >>
SetR0(p) == << Rmw(Shared("r0"), {RPins[p]}, {}), Rmw(Shared("r1"), {}, {RPins[p]}) >>
SetR1(p) == << Rmw(Shared("r0"), {}, {RPins[p]}), Rmw(Shared("r1"), {RPins[p]}, {}) >>
SetPupd(p, down) == IF down THEN << Rmw(Shared("pupd"), {RPins[p]}, {}) >>
                            ELSE << Rmw(Shared("pupd"), {}, {RPins[p]}) >>

\* The direction as GpioGetDir finds it, in the input levels: TRUE for input.
GetDir(p) == BitOf(p) \notin gpio[OfPin("din", p)]

\* A masked register cut to the eight bits of a BOOLEAN.
AsBoolean(r, p) == BitOf(p) \in gpio[OfPin(r, p)] /\ BitOf(p) < 8
-----------------------------------------------------------------------------
\* Contents the boot loader may have left: all clear or all set.
GpioInit(Registers) ==
    /\ gpio \in {[r \in Registers |-> b] : b \in {{}, Bits}}
    /\ accesses = <<>> /\ pinBusy = 0 /\ contents = <<>>

GpioCalls(p, todo) ==
    /\ accesses = <<>>
    /\ accesses' = todo
    /\ pinBusy' = p
    /\ UNCHANGED <<gpio, contents>>

Updated(old, a) == (old \ a.clear) \cup a.set

GpioAccess ==
    /\ accesses # <<>>
    /\ LET a == Head(accesses) IN
         IF ~a.alias /\ contents = <<>>
           THEN contents' = <<gpio[a.reg]>> /\ UNCHANGED <<gpio, accesses>>
           ELSE /\ gpio' = [gpio EXCEPT ![a.reg] =
                               Updated(IF a.alias THEN gpio[a.reg] ELSE contents[1], a)]
                /\ contents' = <<>>
                /\ accesses' = Tail(accesses)
    /\ UNCHANGED pinBusy

\* The level at a pin changes.
PinChanges(p) ==
    /\ gpio' = [gpio EXCEPT ![OfPin("din", p)] =
                   IF BitOf(p) \in @ THEN @ \ {BitOf(p)} ELSE @ \cup {BitOf(p)}]
    /\ UNCHANGED <<accesses, pinBusy, contents>>
-----------------------------------------------------------------------------
\* What belongs to a pin, by the layout of the hardware.
Owned(p) ==
    {<<ModeReg(p), b>> : b \in (p % 8) * 4 .. (p % 8) * 4 + 3}
    \cup {<<OfPin(k, p), BitOf(p)>> : k \in {"dir", "dout"}}
    \cup (IF p \in DOMAIN Drv THEN {<<Shared("drv"), b>> : b \in DrvBits(p)} ELSE {})
    \cup (IF p \in DOMAIN RPins
            THEN {<<Shared(k), RPins[p]>> : k \in {"r0", "r1", "pupd"}} ELSE {})

\* A function called for a pin leaves every bit of every register alone that
\* does not belong to the pin, through the pin arithmetic of the mode registers,
\* the shared drive and pull registers and their read-modify-write cycles, with
\* the keypad reading another pin in between (MtkGpioDxe.c:31-75,119-138,156-248).
OnlyItsPin ==
    [][ accesses # <<>> =>
          \A r \in DOMAIN gpio : \A b \in (gpio[r] \ gpio'[r]) \cup (gpio'[r] \ gpio[r]) :
             r[1] = "din" \/ <<r, b>> \in Owned(pinBusy) ]_gpioVars
=============================================================================
