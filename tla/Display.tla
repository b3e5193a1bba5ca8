-------------------------------- MODULE Display --------------------------------
(***************************************************************************)
(* The display from PrePi on.  PrePi, which prints on the UART, describes  *)
(* and maps the memory and enters the DXE core; there, in a DEBUG build,   *)
(* the modules print on the frame buffer; at some point SimpleFbDxe clears *)
(* it and serves Blts, between which and into whose walks the modules go on*)
(* printing.                                                               *)
(*                                                                         *)
(* The memory map has the true sizes of the platforms and the consoles     *)
(* those of ConsoleScreens; the Blts are made on a screen of a few pixels. *)
(* A console reads nothing of the frame buffer and asks for no driver: it  *)
(* does the same whether there are Blts or not.  So it is followed step by *)
(* step as long as there are none, and from then on by what Blts notice of *)
(* it, which is Prints of SimpleFb: what it paints, at any moment.  In a   *)
(* RELEASE build no step of a console is ever taken.                       *)
(***************************************************************************)
EXTENDS MemoryMap, FbConsole, SimpleFb

CONSTANT ConsoleScreens   \* the sizes of screens the consoles are tried on

ASSUME ConsoleScreensAssumption == ConsoleScreens \subseteq Screens

VARIABLE phase   \* how far the start-up has come

displayVars == <<phase, platform, memory, screen, console, graphics>>

Init == /\ phase = "prepi"
        /\ MemoryInit
        /\ screen \in ConsoleScreens /\ ConsoleInit
        /\ GraphicsInit

\* The memory, and then the jump to the DXE core.
PrePiMain ==
    /\ phase = "prepi" /\ phase' = "dxe"
    /\ MemoryPeim
    /\ UNCHANGED <<screen, console, graphics>>

ConsoleStep == /\ phase = "dxe" /\ ConsoleNext
               /\ UNCHANGED <<phase, platform, memory, graphics>>

\* The consoles go on, but are not followed any further.  A driver that gets no
\* memory for its mode installs nothing, and nothing changes.
SimpleFbDxeInitialize ==
    /\ phase = "dxe" /\ phase' = "graphics"
    /\ At(0, "elsewhere")
    /\ ClearFrames
    /\ x' = [m \in Modules |-> 0] /\ y' = [m \in Modules |-> 0] /\ interrupts' = TRUE
    /\ UNCHANGED <<platform, hobs, allocations, mmu, screen, write, graphics>>

GraphicsStep == /\ phase = "graphics" /\ GraphicsNext
                /\ UNCHANGED <<phase, platform, memory, screen, console>>

Next == PrePiMain \/ ConsoleStep \/ SimpleFbDxeInitialize \/ GraphicsStep

DisplaySpec == Init /\ [][Next]_displayVars
-----------------------------------------------------------------------------
\* The type invariant of the display: of the memory map, the consoles and the
\* graphics output; the frame buffer is cleared when the driver serves Blts.
DisplayTypeOK ==
    /\ phase \in {"prepi", "dxe", "graphics"}
    /\ MapTypeOK /\ ConsoleTypeOK /\ GraphicsTypeOK
    /\ cleared # {} <=> phase = "graphics"
=============================================================================
