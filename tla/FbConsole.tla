------------------------------ MODULE FbConsole ------------------------------
(***************************************************************************)
(* The serial port that prints on the display, which DXE modules have in a *)
(* DEBUG build: each is linked with a copy of its own, and with a position *)
(* of its own on the one screen.  A write puts its characters one by one   *)
(* with the interrupts of the processor off; a character is painted in a   *)
(* cell of the font, scaled by two, and a full line or a '\n' moves to the *)
(* next line or, from the last one, to the top, where the code jumps back  *)
(* to paint and puts the same character again.                             *)
(*                                                                         *)
(* The jump to newline for a '\n' passes over the declaration of intstate: *)
(* what the code then finds in it is undefined, here either value.  So a   *)
(* '\n' may turn the interrupts on, and from there a timer may come in and *)
(* an event handler write in the middle of the write, from the same module *)
(* too.  The steps of a line feed that others can get between are actions  *)
(* of their own, and the line is in a register from the first to the last. *)
(*                                                                         *)
(* Which glyph is painted does not matter and is left out, with the type of*)
(* the message, which is always FBCON_COMMON_MSG.  Nothing in the sources  *)
(* calls SerialPortWriteCritical, which would change the colour.           *)
(***************************************************************************)
EXTENDS Integers, FiniteSets

CONSTANTS Modules,  \* the DXE modules that print
          TopTpl    \* how many task priorities above the lowest they print at

ASSUME ModulesAssumption == "none" \notin Modules
ASSUME TopTplAssumption == TopTpl \in Nat

VARIABLES screen,      \* the width and the height of the frame buffer, in pixels
          x, y,        \* m_Position of each module
          interrupts,  \* whether the processor takes interrupts
          write        \* what each task priority is at

console == <<x, y, interrupts, write>>

FONT_WIDTH == 5
FONT_HEIGHT == 12
SCALE_FACTOR == 2

MaxPositionX == screen.width \div (FONT_WIDTH + 1)
MaxPositionY == (screen.height - 1) \div FONT_HEIGHT

\* The narrowest screen that has a line, and the lowest on which a '\n' that
\* jumps back to paint finds a line below the first.
Screens == {s \in [width : Nat, height : Nat] : s.width >= 24 /\ s.height >= 61}

\* TPL_APPLICATION, and above it TPL_CALLBACK, TPL_NOTIFY and what others there are.
Tpls == 0 .. TopTpl

Chars == {"glyph", "space", "\n", "\r", "other"}

\* A priority with nothing to do, and one that runs other code than a write.
NotRunning == [step |-> "none", module |-> "none", found |-> FALSE, fed |-> FALSE,
               char |-> "none", line |-> 0]
Elsewhere == [NotRunning EXCEPT !.step = "elsewhere"]

\* SerialPortInitialize, which the constructor of DebugLib calls before a module
\* prints, has put the position of each at the top.
ConsoleInit ==
    /\ x = [m \in Modules |-> 0] /\ y = [m \in Modules |-> 0]
    /\ interrupts \in BOOLEAN
    /\ write = [l \in Tpls |-> IF l = 0 THEN Elsewhere ELSE NotRunning]

\* A priority runs when no higher one does.
At(l, step) == /\ write[l].step = step
               /\ \A k \in Tpls : k > l => write[k] = NotRunning
InWrite(l) == write[l].step \notin {"none", "elsewhere"}
-----------------------------------------------------------------------------
\* An interrupt, after which a handler of the priority is dispatched.
Interrupt(l) ==
    /\ interrupts
    /\ l > 0 /\ At(l, "none")
    /\ write' = [write EXCEPT ![l] = Elsewhere]
    /\ UNCHANGED <<screen, x, y, interrupts>>

HandlerReturns(l) ==
    /\ interrupts
    /\ l > 0 /\ At(l, "elsewhere")
    /\ write' = [write EXCEPT ![l] = NotRunning]
    /\ UNCHANGED <<screen, x, y, interrupts>>

\* Other code masks and unmasks interrupts.
MaskInterrupts(l) ==
    /\ At(l, "elsewhere")
    /\ interrupts' = ~ interrupts
    /\ UNCHANGED <<screen, x, y, write>>

SerialPortWrite(l, m) ==
    /\ At(l, "elsewhere")
    /\ write' = [write EXCEPT ![l] = [@ EXCEPT !.step = "loop", !.module = m, !.found = interrupts]]
    /\ interrupts' = FALSE
    /\ UNCHANGED <<screen, x, y>>

\* FbConPutCharWithFactor is called; "other" stands for what it drops: control
\* characters, and codes above 127.
PutChar(l, c) ==
    /\ At(l, "loop")
    /\ write' = [write EXCEPT ![l] = [write[l] EXCEPT !.step = "paint", !.char = c,
                                                     !.fed = @ \/ c = "\n"]]
    /\ UNCHANGED <<screen, x, y, interrupts>>

\* The write after its present character, which has been put.
CharPut(w) == [w EXCEPT !.step = "loop", !.char = "none", !.line = 0]

\* A space is not painted in the first column, to save room.
Skip(l) ==
    /\ At(l, "paint")
    /\ \/ write[l].char = "other"
       \/ write[l].char = "space" /\ x[write[l].module] = 0
    /\ write' = [write EXCEPT ![l] = CharPut(@)]
    /\ UNCHANGED <<screen, x, y, interrupts>>

CarriageReturn(l) ==
    /\ At(l, "paint") /\ write[l].char = "\r"
    /\ x' = [x EXCEPT ![write[l].module] = 0]
    /\ write' = [write EXCEPT ![l] = CharPut(@)]
    /\ UNCHANGED <<screen, y, interrupts>>

Accept(l) ==
    /\ At(l, "paint")
    /\ \/ write[l].char = "glyph"
       \/ write[l].char = "space" /\ x[write[l].module] # 0
    /\ write' = [write EXCEPT ![l].step = "draw"]
    /\ UNCHANGED <<screen, x, y, interrupts>>

\* Mutant: the last line is taken for a line that fits.
PastPageAtEdge(line) == line >= MaxPositionY
\* The end of the page, where a line feed goes to the top.
PastPage(line) == line >= MaxPositionY - SCALE_FACTOR

\* The glyph is drawn and the position moves on, for a full line to the next one,
\* which is cleared, or to the top, for the same character.
DrawGlyph(l) ==
    LET m == write[l].module
        columns == MaxPositionX \div SCALE_FACTOR
    IN  /\ At(l, "draw")
        /\ x' = [x EXCEPT ![m] = IF @ + 1 < columns THEN @ + 1 ELSE 0]
        /\ \/ x[m] + 1 < columns /\ UNCHANGED y
           \/ /\ x[m] + 1 >= columns
              /\ y' = [y EXCEPT ![m] = IF PastPage(@ + SCALE_FACTOR) THEN 0 ELSE @ + SCALE_FACTOR]
        /\ write' = [write EXCEPT ![l] =
                        IF x[m] + 1 >= columns /\ PastPage(y[m] + SCALE_FACTOR)
                          THEN [@ EXCEPT !.step = "paint"] ELSE CharPut(@)]
        /\ UNCHANGED screen

\* Mutant: the interrupts are switched on again whatever they were.
PaintEnables(l) == DrawGlyph(l) /\ interrupts' = TRUE

\* The interrupts are off meanwhile, over the line feed too, and then as they were.
Paint(l) == DrawGlyph(l) /\ UNCHANGED interrupts
-----------------------------------------------------------------------------
(* The line feed of a '\n', which interrupts may come between.               *)

LoadLine(l) ==
    /\ At(l, "paint") /\ write[l].char = "\n"
    /\ write' = [write EXCEPT ![l] = [@ EXCEPT !.step = "add", !.line = y[write[l].module]]]
    /\ UNCHANGED <<screen, x, y, interrupts>>

StoreLine(l) ==
    LET line == write[l].line + SCALE_FACTOR
    IN  /\ At(l, "add")
        /\ y' = [y EXCEPT ![write[l].module] = line]
        /\ write' = [write EXCEPT ![l] = [@ EXCEPT !.step = "first", !.line = line]]
        /\ UNCHANGED <<screen, x, interrupts>>

FirstColumn(l) ==
    /\ At(l, "first")
    /\ x' = [x EXCEPT ![write[l].module] = 0]
    /\ write' = [write EXCEPT ![l].step = "compare"]
    /\ UNCHANGED <<screen, y, interrupts>>

\* The line is still in the register, or is read again.
LineOf(l) == {write[l].line, y[write[l].module]}

Compare(l) ==
    /\ At(l, "compare")
    /\ \E line \in LineOf(l) :
          write' = [write EXCEPT ![l] = [@ EXCEPT !.step = IF PastPage(line) THEN "top" ELSE "clear",
                                                 !.line = line]]
    /\ UNCHANGED <<screen, x, y, interrupts>>

\* Back to paint, for the same character, with what is found in intstate.
ToTop(l) ==
    /\ At(l, "top")
    /\ y' = [y EXCEPT ![write[l].module] = 0]
    /\ interrupts' \in {interrupts, TRUE}
    /\ write' = [write EXCEPT ![l] = [@ EXCEPT !.step = "paint", !.line = 0]]
    /\ UNCHANGED <<screen, x>>

\* The line, of LineOf, is filled with zeros.
ClearLine(l) ==
    /\ At(l, "clear")
    /\ interrupts' \in {interrupts, TRUE}
    /\ write' = [write EXCEPT ![l] = CharPut(@)]
    /\ UNCHANGED <<screen, x, y>>

WriteReturns(l) ==
    /\ At(l, "loop")
    /\ interrupts' = (interrupts \/ write[l].found)
    /\ write' = [write EXCEPT ![l] = Elsewhere]
    /\ UNCHANGED <<screen, x, y>>

ConsoleNext ==
    \E l \in Tpls :
        \/ Interrupt(l) \/ HandlerReturns(l) \/ MaskInterrupts(l)
        \/ \E m \in Modules : SerialPortWrite(l, m)
        \/ \E c \in Chars : PutChar(l, c)
        \/ Skip(l) \/ CarriageReturn(l) \/ Accept(l) \/ Paint(l)
        \/ LoadLine(l) \/ StoreLine(l) \/ FirstColumn(l) \/ Compare(l)
        \/ ToTop(l) \/ ClearLine(l)
        \/ WriteReturns(l)

ConsoleSpec == ConsoleInit /\ screen \in Screens /\ [][ConsoleNext]_<<screen, console>>
-----------------------------------------------------------------------------
ConsoleTypeOK ==
    /\ screen \in [width : Nat, height : Nat]
    /\ x \in [Modules -> Nat] /\ y \in [Modules -> Nat]
    /\ interrupts \in BOOLEAN
    /\ write \in [Tpls -> [step : {"none", "elsewhere", "loop", "paint", "draw", "add", "first",
                                   "compare", "top", "clear"},
                           module : Modules \cup {"none"}, found : BOOLEAN, fed : BOOLEAN,
                           char : Chars \cup {"none"}, line : Nat]]

\* A line feed that has passed the end of the module's page and is not back at
\* the top yet.
Overrun(l, m) == /\ write[l].module = m
                 /\ write[l].step \in {"first", "compare", "top"}
                 /\ PastPage(write[l].line)
Overruns(m) == Cardinality({l \in Tpls : Overrun(l, m)})

\* The cell at a module's position, where its next glyph goes, has its columns on
\* the screen, and no glyph runs over into the next row of pixels; and its rows
\* are on the screen but for two lines for each line feed of the module past the
\* end of the page that an interrupt has come into.  The line a '\n' is about to
\* clear, when it is the one compared with the end of the page, is on the screen.
NextGlyphFits ==
    /\ \A m \in Modules :
          /\ x[m] * SCALE_FACTOR * (FONT_WIDTH + 1) + SCALE_FACTOR * FONT_WIDTH <= screen.width
          /\ (y[m] + SCALE_FACTOR) * FONT_HEIGHT
                <= screen.height + Overruns(m) * SCALE_FACTOR * FONT_HEIGHT
    /\ \A l \in Tpls : write[l].step = "clear" =>
          (write[l].line + SCALE_FACTOR) * FONT_HEIGHT <= screen.height

\* A write whose text has no '\n' keeps interrupts off, so that no other write
\* comes into it, and leaves them as its caller had them.
InterruptsAsFound ==
    [][ \A l \in Tpls : InWrite(l) =>
            /\ InWrite(l)' => write'[l].fed \/ ~ interrupts'
            /\ ~ InWrite(l)' => write[l].fed \/ interrupts' = write[l].found
      ]_<<screen, console>>
=============================================================================
