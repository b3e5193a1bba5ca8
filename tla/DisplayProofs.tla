---------------------------- MODULE DisplayProofs ----------------------------
(***************************************************************************)
(* Theorems about the display: about the consoles by themselves, for       *)
(* screens of every size that has a line, any modules and any number of    *)
(* task priorities, and about the whole, for any platforms, console        *)
(* screens, screen of the Blts and number of them.                         *)
(***************************************************************************)
EXTENDS Display, FiniteSetTheorems, TLAPS
-----------------------------------------------------------------------------
(* The consoles.                                                             *)

consoleVars == <<screen, console>>

WriteType == [step : {"none", "elsewhere", "loop", "paint", "draw", "add", "first",
                      "compare", "top", "clear"},
              module : Modules \cup {"none"}, found : BOOLEAN, fed : BOOLEAN,
              char : Chars \cup {"none"}, line : Nat]
FeedSteps == {"add", "first", "compare", "top", "clear"}
OverSteps == {"first", "compare", "top"}
Runs(w) == w.step \notin {"none", "elsewhere"}

\* A write is some module's, and a line feed that is taken apart is that of a '\n'
\* its text had.
WriteOK(w) == /\ w \in WriteType
              /\ Runs(w) => w.module \in Modules
              /\ w.char = "\n" => w.fed
              /\ w.step \in FeedSteps => w.char = "\n"

\* A write whose text had no '\n' has the interrupts off, and nothing comes into it.
Masked(l) == Runs(write[l]) /\ ~ write[l].fed =>
                ~ interrupts /\ \A k \in Tpls : k > l => write[k] = NotRunning

Over(m) == {l \in Tpls : Overrun(l, m)}
OverBelow(l, m) == {k \in Tpls : k < l /\ Overrun(k, m)}

\* Where a position may be: in the columns and, but for the line feeds past the end
\* of the page, in the lines that the size of the screen gives, but the last two.
PositionOK(m) == /\ x[m] < MaxPositionX \div SCALE_FACTOR
                 /\ y[m] + 3 <= MaxPositionY + 2 * Cardinality(Over(m))

\* The line a line feed has loaded is bounded by those it has interrupted, and one
\* it is about to clear is on the page.
LineOK(l) == /\ write[l].step = "add" => write[l].line + 3 <=
                    MaxPositionY + 2 * Cardinality(OverBelow(l, write[l].module))
             /\ write[l].step = "clear" => ~ PastPage(write[l].line)

PlaceOK == /\ screen \in Screens
           /\ x \in [Modules -> Nat] /\ y \in [Modules -> Nat]
           /\ interrupts \in BOOLEAN
           /\ write \in [Tpls -> WriteType]

ConsoleInv == /\ PlaceOK
              /\ \A l \in Tpls : WriteOK(write[l]) /\ Masked(l) /\ LineOK(l)
              /\ \A m \in Modules : PositionOK(m)

USE DEF FONT_WIDTH, FONT_HEIGHT, SCALE_FACTOR

\* A screen has at least two columns and five lines, and its font cells end
\* within it.
LEMMA PageSize ==
    ASSUME screen \in Screens
    PROVE  /\ MaxPositionX \in Nat /\ MaxPositionY \in Nat
           /\ MaxPositionX \div SCALE_FACTOR \in Nat
           /\ MaxPositionX \div SCALE_FACTOR >= 2 /\ MaxPositionY >= 5
           /\ 12 * (MaxPositionX \div SCALE_FACTOR) <= screen.width
           /\ 12 * MaxPositionY < screen.height
<1> DEFINE w == screen.width
           h == screen.height
<1>1. w \in Nat /\ w >= 24 /\ h \in Nat /\ h >= 61
  BY DEF Screens
<1>2. w \div 6 \in Nat /\ w \div 6 >= 4 /\ 6 * (w \div 6) <= w
  <2> HIDE DEF w
  <2> QED BY <1>1
<1>3. (w \div 6) \div 2 \in Nat /\ (w \div 6) \div 2 >= 2 /\ 2 * ((w \div 6) \div 2) <= w \div 6
  <2> DEFINE m == w \div 6
  <2>1. m \in Nat /\ m >= 4 BY <1>2
  <2> HIDE DEF m
  <2>2. m \div 2 \in Nat /\ m \div 2 >= 2 /\ 2 * (m \div 2) <= m BY <2>1
  <2> QED BY <2>2 DEF m
<1>4. (h - 1) \div 12 \in Nat /\ (h - 1) \div 12 >= 5 /\ 12 * ((h - 1) \div 12) < h
  <2> HIDE DEF h
  <2> QED BY <1>1
<1> QED BY <1>1, <1>2, <1>3, <1>4 DEF MaxPositionX, MaxPositionY


LEMMA TplsFinite == IsFiniteSet(Tpls) /\ Tpls \subseteq Nat /\ 0 \in Tpls
BY TopTplAssumption, FS_Interval DEF Tpls

\* Sets of priorities can be counted.
LEMMA OversCount ==
    ASSUME NEW m
    PROVE  /\ IsFiniteSet(Over(m)) /\ Cardinality(Over(m)) \in Nat
           /\ \A l : IsFiniteSet(OverBelow(l, m)) /\ Cardinality(OverBelow(l, m)) \in Nat
<1>1. Over(m) \subseteq Tpls /\ \A l : OverBelow(l, m) \subseteq Tpls
  BY DEF Over, OverBelow
<1>2. \A S : S \subseteq Tpls => IsFiniteSet(S) /\ Cardinality(S) \in Nat
  BY TplsFinite, FS_Subset, FS_CardinalityType
<1> QED BY <1>1, <1>2

\* Of a priority that runs, the line feeds past the end of the page are its own and
\* those it has interrupted.
LEMMA OversOfRunning ==
    ASSUME NEW l \in Tpls, \A k \in Tpls : k > l => write[k] = NotRunning, NEW m
    PROVE  /\ OverBelow(l, m) = Over(m) \ {l}
           /\ write[l].step \notin OverSteps => Over(m) = OverBelow(l, m)
<1>1. NotRunning.step = "none"
  BY DEF NotRunning
<1>2. \A k \in Tpls : Overrun(k, m) => k <= l
  BY <1>1, TplsFinite DEF Overrun
<1>3. \A k \in Tpls : k <= l /\ k # l => k < l
  BY TplsFinite
<1>4. \A k \in Tpls : k < l => k # l
  BY TplsFinite
<1>5. OverBelow(l, m) = Over(m) \ {l}
  BY <1>2, <1>3, <1>4 DEF Over, OverBelow
<1>6. write[l].step \notin OverSteps => l \notin Over(m)
  BY DEF Over, Overrun, OverSteps
<1> QED BY <1>5, <1>6

\* What a step of one priority does to the counts.
LEMMA OversOfStep ==
    ASSUME NEW l \in Tpls, UNCHANGED screen,
           \A k \in Tpls \ {l} : write'[k] = write[k], NEW m
    PROVE  /\ (l \in Over(m)' <=> l \in Over(m)) => Over(m)' = Over(m)
           /\ l \in Over(m)' /\ l \notin Over(m) =>
                 Cardinality(Over(m)') = Cardinality(Over(m)) + 1
           /\ \A k \in Tpls : k <= l => OverBelow(k, m)' = OverBelow(k, m)
<1>1. \A k \in Tpls \ {l} : Overrun(k, m)' <=> Overrun(k, m)
  BY DEF Overrun, PastPage, MaxPositionY
<1>2. Over(m)' = {k \in Tpls : Overrun(k, m)'}
  BY DEF Over
<1>3. (l \in Over(m)' <=> l \in Over(m)) => Over(m)' = Over(m)
  BY <1>1, <1>2 DEF Over
<1>4. ASSUME l \in Over(m)', l \notin Over(m)
      PROVE  Cardinality(Over(m)') = Cardinality(Over(m)) + 1
  <2>1. Over(m)' = Over(m) \cup {l}
    BY <1>1, <1>2, <1>4 DEF Over
  <2> QED BY <1>4, <2>1, OversCount, FS_AddElement
<1>5. ASSUME NEW k \in Tpls, k <= l
      PROVE  OverBelow(k, m)' = OverBelow(k, m)
  <2>1. \A j \in Tpls : j < k => j # l
    BY <1>5, TplsFinite
  <2>2. OverBelow(k, m)' = {j \in Tpls : j < k /\ Overrun(j, m)'}
    BY DEF OverBelow
  <2> QED BY <1>1, <2>1, <2>2 DEF OverBelow
<1> QED BY <1>3, <1>4, <1>5

\* A step of a priority keeps the invariant if it keeps what is said of that
\* priority, of the interrupts and of the positions.
LEMMA LevelStep ==
    ASSUME ConsoleInv, NEW l \in Tpls, NEW step, At(l, step), step # "none" \/ interrupts,
           NEW w, write' = [write EXCEPT ![l] = w], UNCHANGED screen,
           x' \in [Modules -> Nat], y' \in [Modules -> Nat], interrupts' \in BOOLEAN,
           WriteOK(w), Runs(w) /\ ~ w.fed => ~ interrupts',
           LineOK(l)', \A m \in Modules : PositionOK(m)'
    PROVE  ConsoleInv'
<1>1. write'[l] = w /\ write' \in [Tpls -> WriteType] /\ \A k \in Tpls \ {l} : write'[k] = write[k]
  BY DEF ConsoleInv, PlaceOK, WriteOK
<1>2. \A k \in Tpls : k > l => write[k] = NotRunning /\ write'[k] = NotRunning
  BY <1>1, TplsFinite DEF At
<1>3. ASSUME NEW k \in Tpls, k < l PROVE ~ (Runs(write[k]) /\ ~ write[k].fed)
  <2> SUFFICES ASSUME Runs(write[k]), ~ write[k].fed PROVE FALSE
    OBVIOUS
  <2>1. ~ interrupts /\ write[l] = NotRunning
    BY <1>3, TplsFinite DEF ConsoleInv, Masked
  <2> QED BY <2>1 DEF At, NotRunning
<1>4. ASSUME NEW k \in Tpls PROVE WriteOK(write'[k])
  BY <1>1 DEF ConsoleInv
<1>5. ASSUME NEW k \in Tpls PROVE Masked(k)'
  <2>1. CASE k = l
    BY <1>1, <1>2, <2>1 DEF Masked
  <2>2. CASE k < l
    BY <1>1, <1>3, <2>2, TplsFinite DEF Masked
  <2>3. CASE k > l
    BY <1>2, <2>3 DEF Masked, NotRunning, Runs
  <2> QED BY <2>1, <2>2, <2>3, TplsFinite
<1>6. ASSUME NEW k \in Tpls PROVE LineOK(k)'
  <2>1. CASE k = l
    BY <2>1
  <2>2. CASE k < l
    <3>1. write'[k] = write[k] /\ PastPage(write[k].line)' = PastPage(write[k].line)
          /\ MaxPositionY' = MaxPositionY
      BY <1>1, <2>2, TplsFinite DEF PastPage, MaxPositionY
    <3>2. \A m : OverBelow(k, m)' = OverBelow(k, m)
      BY <1>1, <2>2, OversOfStep, TplsFinite
    <3> QED BY <3>1, <3>2 DEF ConsoleInv, LineOK, OverBelow
  <2>3. CASE k > l
    BY <1>2, <2>3 DEF LineOK, NotRunning
  <2> QED BY <2>1, <2>2, <2>3, TplsFinite
<1> QED BY <1>1, <1>4, <1>5, <1>6 DEF ConsoleInv, PlaceOK

\* Such a step keeps it when no line feed is at work in it and the position is on
\* the page, or its line as it was.
LEMMA QuietStep ==
    ASSUME ConsoleInv, NEW l \in Tpls, NEW step, At(l, step), step # "none" \/ interrupts,
           step \notin OverSteps,
           NEW w, write' = [write EXCEPT ![l] = w], UNCHANGED screen,
           x' \in [Modules -> Nat], y' \in [Modules -> Nat], interrupts' \in BOOLEAN,
           WriteOK(w), Runs(w) /\ ~ w.fed => ~ interrupts',
           w.step \notin OverSteps \cup {"add", "clear"},
           \A m \in Modules : /\ x'[m] < MaxPositionX \div SCALE_FACTOR
                              /\ y'[m] = y[m] \/ y'[m] + 3 <= MaxPositionY
    PROVE  ConsoleInv'
<1>1. write'[l] = w /\ \A k \in Tpls \ {l} : write'[k] = write[k]
  BY DEF ConsoleInv, PlaceOK
<1>2. LineOK(l)'
  BY <1>1 DEF LineOK
<1>3. ASSUME NEW m \in Modules PROVE PositionOK(m)'
  <2>1. l \notin Over(m)
    BY DEF Over, Overrun, OverSteps, At
  <2>2. l \notin Over(m)'
    BY <1>1 DEF Over, Overrun, OverSteps
  <2>3. Over(m)' = Over(m)
    BY <1>1, <2>1, <2>2, OversOfStep
  <2>4. UNCHANGED <<MaxPositionX, MaxPositionY>> /\ MaxPositionY \in Nat
    BY PageSize DEF MaxPositionX, MaxPositionY, ConsoleInv, PlaceOK
  <2>5. x'[m] < (MaxPositionX \div SCALE_FACTOR)'
    BY <2>4
  <2>6. y'[m] + 3 <= MaxPositionY + 2 * Cardinality(Over(m))
    <3>1. Cardinality(Over(m)) \in Nat /\ y'[m] \in Nat
      BY OversCount
    <3>2. y'[m] = y[m] \/ y'[m] + 3 <= MaxPositionY
      OBVIOUS
    <3>3. y[m] + 3 <= MaxPositionY + 2 * Cardinality(Over(m))
      BY DEF ConsoleInv, PositionOK
    <3> QED BY <2>4, <3>1, <3>2, <3>3
  <2> QED BY <2>3, <2>4, <2>5, <2>6 DEF PositionOK
<1> QED BY <1>1, <1>2, <1>3, LevelStep

\* What is known before a step.
LEMMA Known ==
    ASSUME ConsoleInv, NEW l \in Tpls
    PROVE  /\ write[l] \in WriteType /\ write = [write EXCEPT ![l] = write[l]]
           /\ Runs(write[l]) => write[l].module \in Modules
           /\ write[l].char = "\n" => write[l].fed
           /\ write[l].step \in FeedSteps => write[l].char = "\n"
           /\ Runs(write[l]) /\ ~ write[l].fed => ~ interrupts
           /\ screen \in Screens /\ interrupts \in BOOLEAN
           /\ x \in [Modules -> Nat] /\ y \in [Modules -> Nat]
           /\ \A m \in Modules : x[m] < MaxPositionX \div SCALE_FACTOR
<1>1. write = [write EXCEPT ![l] = write[l]]
  BY DEF ConsoleInv, PlaceOK
<1>2. write[l] \in WriteType /\ WriteOK(write[l]) /\ Masked(l)
  BY DEF ConsoleInv, PlaceOK
<1>3. /\ screen \in Screens /\ interrupts \in BOOLEAN
      /\ x \in [Modules -> Nat] /\ y \in [Modules -> Nat]
      /\ \A m \in Modules : x[m] < MaxPositionX \div SCALE_FACTOR
  BY DEF ConsoleInv, PlaceOK, PositionOK
<1> QED BY <1>1, <1>2, <1>3 DEF WriteOK, Masked

\* The write after a character is one.
LEMMA PutIsOK ==
    ASSUME NEW w \in WriteType, w.module \in Modules
    PROVE  WriteOK(CharPut(w)) /\ CharPut(w).step = "loop" /\ CharPut(w).fed = w.fed
BY DEF WriteOK, WriteType, CharPut, FeedSteps, Runs

LEMMA CalmSteps ==
    ASSUME ConsoleInv, NEW l \in Tpls,
           \/ Interrupt(l) \/ HandlerReturns(l) \/ MaskInterrupts(l)
           \/ \E m \in Modules : SerialPortWrite(l, m)
           \/ \E c \in Chars : PutChar(l, c)
           \/ Skip(l) \/ CarriageReturn(l) \/ Accept(l) \/ ClearLine(l) \/ WriteReturns(l)
    PROVE  ConsoleInv'
<1> USE DEF OverSteps, FeedSteps, Runs
<1>0. 0 < MaxPositionX \div SCALE_FACTOR
  BY Known, PageSize
<1>1. CASE Interrupt(l)
  <2>1. WriteOK(Elsewhere) /\ Elsewhere.step = "elsewhere"
    BY DEF WriteOK, WriteType, Elsewhere, NotRunning
  <2> QED BY <1>1, <2>1, Known, QuietStep DEF Interrupt
<1>2. CASE HandlerReturns(l)
  <2>1. WriteOK(NotRunning) /\ NotRunning.step = "none"
    BY DEF WriteOK, WriteType, NotRunning
  <2> QED BY <1>2, <2>1, Known, QuietStep DEF HandlerReturns
<1>3. CASE MaskInterrupts(l)
  <2>1. write[l].step = "elsewhere" /\ At(l, "elsewhere") /\ UNCHANGED <<screen, x, y, write>>
        /\ interrupts' = ~ interrupts
    BY <1>3 DEF MaskInterrupts, At
  <2>2. WriteOK(write[l]) /\ write' = [write EXCEPT ![l] = write[l]]
    BY <2>1, Known DEF ConsoleInv
  <2> QED BY <2>1, <2>2, Known, QuietStep
<1>4. ASSUME NEW m \in Modules, SerialPortWrite(l, m)
      PROVE  ConsoleInv'
  <2> DEFINE w == [write[l] EXCEPT !.step = "loop", !.module = m, !.found = interrupts]
  <2>1. WriteOK(w) /\ w.step = "loop"
    BY Known DEF WriteOK, WriteType
  <2>2. write' = [write EXCEPT ![l] = w]
    BY <1>4 DEF SerialPortWrite
  <2> HIDE DEF w
  <2> QED BY <1>4, <2>1, <2>2, Known, QuietStep DEF SerialPortWrite
<1>5. ASSUME NEW c \in Chars, PutChar(l, c)
      PROVE  ConsoleInv'
  <2> DEFINE w == [write[l] EXCEPT !.step = "paint", !.char = c, !.fed = @ \/ c = "\n"]
  <2>1. write[l].step = "loop"
    BY <1>5 DEF PutChar, At
  <2>2. WriteOK(w) /\ w.step = "paint" /\ (~ w.fed => ~ write[l].fed)
    BY <2>1, Known DEF WriteOK, WriteType
  <2>3. write' = [write EXCEPT ![l] = w]
    BY <1>5 DEF PutChar
  <2> HIDE DEF w
  <2> QED BY <1>5, <2>1, <2>2, <2>3, Known, QuietStep DEF PutChar
<1>6. CASE Skip(l)
  <2>1. write[l].step = "paint" /\ write' = [write EXCEPT ![l] = CharPut(write[l])]
    BY <1>6 DEF Skip, At
  <2> QED BY <1>6, <2>1, Known, PutIsOK, QuietStep DEF Skip
<1>7. CASE CarriageReturn(l)
  <2>1. write[l].step = "paint" /\ write' = [write EXCEPT ![l] = CharPut(write[l])]
    BY <1>7 DEF CarriageReturn, At
  <2>2. x' \in [Modules -> Nat] /\ \A m \in Modules : x'[m] < MaxPositionX \div SCALE_FACTOR
    BY <1>0, <1>7, Known DEF CarriageReturn
  <2> QED BY <1>7, <2>1, <2>2, Known, PutIsOK, QuietStep DEF CarriageReturn
<1>8. CASE Accept(l)
  <2> DEFINE w == [write[l] EXCEPT !.step = "draw"]
  <2>1. write[l].step = "paint" /\ write' = [write EXCEPT ![l] = w]
    BY <1>8 DEF Accept, At
  <2>2. WriteOK(w) /\ w.step = "draw" /\ w.fed = write[l].fed
    BY <2>1, Known DEF WriteOK, WriteType
  <2> HIDE DEF w
  <2> QED BY <1>8, <2>1, <2>2, Known, QuietStep DEF Accept
<1>9. CASE ClearLine(l)
  <2>1. write[l].step = "clear" /\ write' = [write EXCEPT ![l] = CharPut(write[l])]
    BY <1>9 DEF ClearLine, At
  <2>2. WriteOK(CharPut(write[l])) /\ CharPut(write[l]).step = "loop" /\ CharPut(write[l]).fed
    BY <2>1, Known, PutIsOK
  <2>3. At(l, "clear") /\ interrupts' \in BOOLEAN /\ UNCHANGED <<screen, x, y>>
    BY <1>9, Known DEF ClearLine
  <2> QED BY <2>1, <2>2, <2>3, Known, QuietStep
<1>10. CASE WriteReturns(l)
  <2>1. WriteOK(Elsewhere) /\ Elsewhere.step = "elsewhere"
    BY DEF WriteOK, WriteType, Elsewhere, NotRunning
  <2>2. interrupts' \in BOOLEAN
    BY <1>10, Known DEF WriteReturns, WriteType
  <2> QED BY <1>10, <2>1, <2>2, Known, QuietStep DEF WriteReturns
<1> QED BY <1>1, <1>2, <1>3, <1>4, <1>5, <1>6, <1>7, <1>8, <1>9, <1>10

LEMMA PaintStep ==
    ASSUME ConsoleInv, NEW l \in Tpls, Paint(l)
    PROVE  ConsoleInv'
<1> DEFINE m == write[l].module
           columns == MaxPositionX \div SCALE_FACTOR
           w == IF x[m] + 1 >= columns /\ PastPage(y[m] + SCALE_FACTOR)
                  THEN [write[l] EXCEPT !.step = "paint"] ELSE CharPut(write[l])
<1>1. write[l].step = "draw" /\ At(l, "draw") /\ UNCHANGED <<screen, interrupts>>
  BY DEF Paint, DrawGlyph, At
<1>2. m \in Modules /\ columns \in Nat /\ columns >= 2 /\ MaxPositionY \in Nat /\ MaxPositionY >= 5
  BY <1>1, Known, PageSize DEF Runs
<1>3. write' = [write EXCEPT ![l] = w]
  BY DEF Paint, DrawGlyph
<1>4. WriteOK(w) /\ w.step \in {"paint", "loop"} /\ w.fed = write[l].fed
  <2>1. WriteOK(CharPut(write[l])) /\ CharPut(write[l]).step = "loop" /\ CharPut(write[l]).fed = write[l].fed
    BY <1>2, Known, PutIsOK
  <2>2. [write[l] EXCEPT !.step = "paint"].step = "paint" /\ WriteOK([write[l] EXCEPT !.step = "paint"])
        /\ [write[l] EXCEPT !.step = "paint"].fed = write[l].fed
    BY <1>2, Known DEF WriteOK, WriteType, FeedSteps
  <2> QED BY <2>1, <2>2
<1> HIDE DEF w
<1>5. x' \in [Modules -> Nat] /\ \A n \in Modules : x'[n] < columns
  <2>1. x' = [x EXCEPT ![m] = IF x[m] + 1 < columns THEN x[m] + 1 ELSE 0]
    BY DEF Paint, DrawGlyph
  <2>2. x \in [Modules -> Nat] /\ \A n \in Modules : x[n] < columns
    BY Known
  <2> HIDE DEF columns, m
  <2> QED BY <1>2, <2>1, <2>2
<1>6. y' \in [Modules -> Nat] /\ \A n \in Modules : y'[n] = y[n] \/ y'[n] + 3 <= MaxPositionY
  <2>1. y \in [Modules -> Nat]
    BY Known
  <2>2. \/ y' = y
        \/ y' = [y EXCEPT ![m] = IF PastPage(y[m] + SCALE_FACTOR) THEN 0 ELSE y[m] + SCALE_FACTOR]
    BY DEF Paint, DrawGlyph
  <2> HIDE DEF m
  <2>3. y[m] \in Nat
    BY <1>2, <2>1
  <2>4. ~ PastPage(y[m] + SCALE_FACTOR) => y[m] + 2 + 3 <= MaxPositionY
    BY <1>2, <2>3 DEF PastPage
  <2> QED BY <1>2, <2>1, <2>2, <2>3, <2>4
<1> QED
  BY <1>1, <1>3, <1>4, <1>5, <1>6, Known, QuietStep DEF OverSteps, Runs

\* The steps of a line feed, which may put a line feed of the module of the step
\* past the end of the page, or take it off again.
LEMMA PositionStep ==
    ASSUME ConsoleInv, NEW l \in Tpls, UNCHANGED screen,
           \A k \in Tpls \ {l} : write'[k] = write[k],
           NEW m \in Modules, x'[m] < MaxPositionX \div SCALE_FACTOR, y'[m] \in Nat,
           \/ y'[m] + 3 <= MaxPositionY
           \/ y'[m] = y[m] /\ (l \in Over(m) => l \in Over(m)')
           \/ /\ y'[m] + 3 <= MaxPositionY + 2 * (Cardinality(Over(m)) + 1)
              /\ l \in Over(m)' /\ l \notin Over(m)
    PROVE  PositionOK(m)'
<1> DEFINE before == Cardinality(Over(m))
           after == Cardinality(Over(m)')
<1>1. UNCHANGED <<MaxPositionX, MaxPositionY>> /\ MaxPositionY \in Nat
  BY PageSize DEF MaxPositionX, MaxPositionY, ConsoleInv, PlaceOK
<1>2. before \in Nat /\ y[m] + 3 <= MaxPositionY + 2 * before /\ y[m] \in Nat
  BY OversCount DEF ConsoleInv, PositionOK, PlaceOK
<1>3. Over(m)' \subseteq Tpls
  BY DEF Over
<1>4. after \in Nat
  BY <1>3, TplsFinite, FS_Subset, FS_CardinalityType
<1>5. \/ l \in Over(m)' /\ l \notin Over(m) /\ after = before + 1
      \/ Over(m)' = Over(m)
      \/ l \in Over(m) /\ l \notin Over(m)'
  BY OversOfStep
<1> HIDE DEF before, after
<1>6. y'[m] + 3 <= MaxPositionY + 2 * after
  <2>1. CASE y'[m] + 3 <= MaxPositionY
    BY <1>1, <1>4, <2>1
  <2>2. CASE y'[m] = y[m] /\ (l \in Over(m) => l \in Over(m)')
    <3>1. after = before \/ after = before + 1
      BY <1>5, <2>2 DEF before, after
    <3> QED BY <1>1, <1>2, <2>2, <3>1
  <2>3. CASE /\ y'[m] + 3 <= MaxPositionY + 2 * (before + 1)
             /\ l \in Over(m)' /\ l \notin Over(m)
    BY <1>1, <1>2, <1>5, <2>3
  <2> QED BY <2>1, <2>2, <2>3 DEF before
<1> QED BY <1>1, <1>6 DEF PositionOK, after

LEMMA LoadLineStep ==
    ASSUME ConsoleInv, NEW l \in Tpls, LoadLine(l)
    PROVE  ConsoleInv'
<1>0. PICK m : m = write[l].module
  OBVIOUS
<1> DEFINE w == [write[l] EXCEPT !.step = "add", !.line = y[m]]
<1>1. At(l, "paint") /\ write[l].step = "paint" /\ write[l].char = "\n" /\ m \in Modules
      /\ write' = [write EXCEPT ![l] = w] /\ UNCHANGED <<screen, x, y, interrupts>>
  BY <1>0, Known DEF LoadLine, At, Runs
<1>2. WriteOK(w) /\ w.step = "add" /\ w.line = y[m] /\ w.module = m /\ w.fed
  BY <1>0, <1>1, Known DEF WriteOK, WriteType, FeedSteps, Runs
<1> HIDE DEF w
<1>3. write'[l] = w /\ \A k \in Tpls \ {l} : write'[k] = write[k]
  BY <1>1, Known DEF ConsoleInv, PlaceOK
<1>4. LineOK(l)'
  <2>1. Over(m) = OverBelow(l, m)
    BY <1>1, OversOfRunning DEF At, OverSteps
  <2>2. OverBelow(l, m)' = OverBelow(l, m)
    BY <1>1, <1>3, OversOfStep, TplsFinite
  <2>3. y[m] + 3 <= MaxPositionY + 2 * Cardinality(Over(m))
    BY <1>1 DEF ConsoleInv, PositionOK
  <2>4. write'[l].step = "add" /\ write'[l].line = y[m] /\ write'[l].module = m
        /\ MaxPositionY' = MaxPositionY
    BY <1>1, <1>2, <1>3 DEF MaxPositionY
  <2>5. OverBelow(l, write[l].module)' = OverBelow(l, m)
    BY <2>2, <2>4 DEF OverBelow
  <2> QED BY <2>1, <2>3, <2>4, <2>5 DEF LineOK
<1>5. ASSUME NEW n \in Modules PROVE PositionOK(n)'
  <2>1. l \notin Over(n)
    BY <1>1 DEF Over, Overrun
  <2> QED BY <1>1, <1>3, <2>1, Known, PositionStep
<1> QED BY <1>1, <1>2, <1>4, <1>5, Known, LevelStep

LEMMA StoreLineStep ==
    ASSUME ConsoleInv, NEW l \in Tpls, StoreLine(l)
    PROVE  ConsoleInv'
<1>0. PICK m, line : m = write[l].module /\ line = write[l].line + 2
  OBVIOUS
<1> DEFINE w == [write[l] EXCEPT !.step = "first", !.line = line]
<1>1. At(l, "add") /\ write[l].step = "add" /\ write[l].char = "\n" /\ m \in Modules
      /\ write' = [write EXCEPT ![l] = w] /\ y' = [y EXCEPT ![m] = line]
      /\ UNCHANGED <<screen, x, interrupts>>
  BY <1>0, Known DEF StoreLine, At, Runs, FeedSteps
<1>10. write[l].line \in Nat /\ line \in Nat
  BY <1>0, Known DEF WriteType
<1>2. WriteOK(w) /\ w.step = "first" /\ w.line = line /\ w.module = m /\ w.fed
  BY <1>0, <1>1, <1>10, Known DEF WriteOK, WriteType, FeedSteps, Runs
<1>3. write'[l] = w /\ \A k \in Tpls \ {l} : write'[k] = write[k]
  BY <1>1, Known DEF ConsoleInv, PlaceOK
<1>4. write[l].line + 3 <= MaxPositionY + 2 * Cardinality(Over(m)) /\ l \notin Over(m)
  <2>1. Over(m) = OverBelow(l, m) /\ l \notin Over(m)
    BY <1>1, OversOfRunning DEF At, OverSteps, Over, Overrun
  <2> QED BY <1>0, <1>1, <2>1 DEF ConsoleInv, LineOK
<1>5. y' \in [Modules -> Nat] /\ y'[m] = line /\ \A n \in Modules \ {m} : y'[n] = y[n]
  BY <1>1, <1>10, Known
<1> HIDE DEF w
<1>6. LineOK(l)'
  BY <1>2, <1>3 DEF LineOK
<1>7. ASSUME NEW n \in Modules PROVE PositionOK(n)'
  <2>1. CASE n = m
    <3>1. Cardinality(Over(m)) \in Nat /\ MaxPositionY \in Nat /\ MaxPositionY' = MaxPositionY
      BY <1>1, OversCount, PageSize, Known DEF MaxPositionY
    <3>2. CASE PastPage(line)
      <4>1. l \in Over(m)'
        BY <1>1, <1>2, <1>3, <3>1, <3>2 DEF Over, Overrun, PastPage
      <4>2. line + 3 <= MaxPositionY + 2 * (Cardinality(Over(m)) + 1)
        BY <1>0, <1>10, <1>4, <3>1
      <4> QED BY <1>1, <1>10, <1>3, <1>4, <1>5, <2>1, <4>1, <4>2, Known, PositionStep
    <3>3. CASE ~ PastPage(line)
      <4>1. line + 3 <= MaxPositionY
        BY <1>10, <3>1, <3>3 DEF PastPage
      <4> QED BY <1>1, <1>10, <1>3, <1>5, <2>1, <4>1, Known, PositionStep
    <3> QED BY <3>2, <3>3
  <2>2. CASE n # m
    <3>1. l \notin Over(n)
      BY <1>0, <2>2 DEF Over, Overrun
    <3> QED BY <1>1, <1>3, <1>5, <2>2, <3>1, Known, PositionStep
  <2> QED BY <2>1, <2>2
<1> QED BY <1>1, <1>2, <1>5, <1>6, <1>7, Known, LevelStep

LEMMA FirstColumnStep ==
    ASSUME ConsoleInv, NEW l \in Tpls, FirstColumn(l)
    PROVE  ConsoleInv'
<1> DEFINE m == write[l].module
           w == [write[l] EXCEPT !.step = "compare"]
<1>1. At(l, "first") /\ write[l].step = "first" /\ write[l].char = "\n" /\ m \in Modules
      /\ write' = [write EXCEPT ![l] = w] /\ x' = [x EXCEPT ![m] = 0]
      /\ UNCHANGED <<screen, y, interrupts>>
  BY Known DEF FirstColumn, At, Runs, FeedSteps
<1>2. WriteOK(w) /\ w.step = "compare" /\ w.line = write[l].line /\ w.module = m /\ w.fed
  BY <1>1, Known DEF WriteOK, WriteType, FeedSteps, Runs
<1> HIDE DEF w
<1>3. write'[l] = w /\ \A k \in Tpls \ {l} : write'[k] = write[k]
  BY <1>1, Known DEF ConsoleInv, PlaceOK
<1>4. LineOK(l)'
  BY <1>2, <1>3 DEF LineOK
<1>5. 0 < MaxPositionX \div SCALE_FACTOR
  BY Known, PageSize
<1>6. x' \in [Modules -> Nat] /\ \A n \in Modules : x'[n] < MaxPositionX \div SCALE_FACTOR
  BY <1>1, <1>5, Known
<1>7. ASSUME NEW n \in Modules PROVE PositionOK(n)'
  <2>1. MaxPositionY' = MaxPositionY
    BY <1>1 DEF MaxPositionY
  <2>2. l \in Over(n) => l \in Over(n)'
    BY <1>1, <1>2, <1>3, <2>1 DEF Over, Overrun, PastPage
  <2> QED BY <1>1, <1>3, <1>6, <2>2, Known, PositionStep
<1> QED BY <1>1, <1>2, <1>4, <1>6, <1>7, Known, LevelStep

LEMMA CompareStep ==
    ASSUME ConsoleInv, NEW l \in Tpls, Compare(l)
    PROVE  ConsoleInv'
<1> DEFINE m == write[l].module
<1>1. At(l, "compare") /\ write[l].step = "compare" /\ write[l].char = "\n" /\ m \in Modules
      /\ write[l].line \in Nat /\ y[m] \in Nat /\ UNCHANGED <<screen, x, y, interrupts>>
  BY Known DEF Compare, At, Runs, FeedSteps, WriteType
<1>2. PICK line \in {write[l].line, y[m]} :
         write' = [write EXCEPT ![l] = [write[l] EXCEPT !.step = IF PastPage(line) THEN "top" ELSE "clear",
                                                        !.line = line]]
  BY DEF Compare, LineOf
<1> DEFINE w == [write[l] EXCEPT !.step = IF PastPage(line) THEN "top" ELSE "clear", !.line = line]
<1>3. WriteOK(w) /\ w.step = (IF PastPage(line) THEN "top" ELSE "clear")
      /\ w.line = line /\ w.module = m /\ w.fed
  BY <1>1, <1>2, Known DEF WriteOK, WriteType, FeedSteps, Runs
<1>4. write'[l] = w /\ \A k \in Tpls \ {l} : write'[k] = write[k]
  BY <1>2, Known DEF ConsoleInv, PlaceOK
<1> HIDE DEF w
<1>5. MaxPositionY' = MaxPositionY /\ MaxPositionY \in Nat
  BY <1>1, Known, PageSize DEF MaxPositionY
<1>6. LineOK(l)'
  BY <1>3, <1>4, <1>5 DEF LineOK, PastPage
<1>7. ASSUME NEW n \in Modules PROVE PositionOK(n)'
  <2>1. l \in Over(n)' <=> n = m /\ PastPage(line)
    BY <1>3, <1>4, <1>5 DEF Over, Overrun, PastPage
  <2>2. l \in Over(n) <=> n = m /\ PastPage(write[l].line)
    BY <1>1 DEF Over, Overrun
  <2>3. ASSUME l \in Over(n), l \notin Over(n)'
        PROVE  y'[n] + 3 <= MaxPositionY
    <3>1. ~ PastPage(y[n]) /\ n = m
      BY <1>2, <2>1, <2>2, <2>3
    <3> QED BY <1>1, <1>5, <3>1 DEF PastPage
  <2> HIDE DEF m
  <2> QED BY <1>1, <1>4, <2>3, Known, PositionStep
<1> QED BY <1>1, <1>2, <1>3, <1>6, <1>7, Known, LevelStep DEF w

LEMMA ToTopStep ==
    ASSUME ConsoleInv, NEW l \in Tpls, ToTop(l)
    PROVE  ConsoleInv'
<1> DEFINE m == write[l].module
           w == [write[l] EXCEPT !.step = "paint", !.line = 0]
<1>1. At(l, "top") /\ write[l].step = "top" /\ write[l].char = "\n" /\ m \in Modules
      /\ write' = [write EXCEPT ![l] = w] /\ y' = [y EXCEPT ![m] = 0]
      /\ UNCHANGED <<screen, x>> /\ interrupts' \in BOOLEAN
  BY Known DEF ToTop, At, Runs, FeedSteps
<1>2. WriteOK(w) /\ w.step = "paint" /\ w.fed
  BY <1>1, Known DEF WriteOK, WriteType, FeedSteps, Runs
<1> HIDE DEF w
<1>3. write'[l] = w /\ \A k \in Tpls \ {l} : write'[k] = write[k]
  BY <1>1, Known DEF ConsoleInv, PlaceOK
<1>4. LineOK(l)'
  BY <1>2, <1>3 DEF LineOK
<1>5. y' \in [Modules -> Nat] /\ y'[m] = 0 /\ \A n \in Modules \ {m} : y'[n] = y[n]
  BY <1>1, Known
<1>6. ASSUME NEW n \in Modules PROVE PositionOK(n)'
  <2>1. 0 + 3 <= MaxPositionY
    BY PageSize, Known
  <2>2. n # m => l \notin Over(n)
    BY DEF Over, Overrun
  <2> HIDE DEF m
  <2> QED BY <1>1, <1>3, <1>5, <2>1, <2>2, Known, PositionStep
<1> QED BY <1>1, <1>2, <1>4, <1>5, <1>6, Known, LevelStep

\* Every step of the consoles keeps the invariant.
LEMMA ConsoleInvStep ==
    ASSUME ConsoleInv, [ConsoleNext]_consoleVars
    PROVE  ConsoleInv'
<1>1. CASE UNCHANGED consoleVars
  <2> USE <1>1 DEF consoleVars, console
  <2>1. PlaceOK' /\ \A l \in Tpls : WriteOK(write[l])' /\ Masked(l)'
    BY DEF ConsoleInv, PlaceOK, Masked
  <2>2. \A m : Over(m)' = Over(m) /\ \A l \in Tpls : OverBelow(l, m)' = OverBelow(l, m)
    BY DEF Over, OverBelow, Overrun, PastPage, MaxPositionY
  <2>3. UNCHANGED <<MaxPositionX, MaxPositionY>>
    BY DEF MaxPositionX, MaxPositionY
  <2>4. \A m \in Modules : PositionOK(m)'
    BY <2>2, <2>3 DEF ConsoleInv, PositionOK
  <2>5. ASSUME NEW l \in Tpls PROVE LineOK(l)'
    <3>1. PICK m : m = write[l].module
      OBVIOUS
    <3>2. OverBelow(l, write[l].module)' = OverBelow(l, m)'
      BY <3>1 DEF OverBelow
    <3>3. LineOK(l)
      BY DEF ConsoleInv
    <3> QED BY <2>2, <2>3, <3>1, <3>2, <3>3 DEF LineOK, PastPage
  <2> QED BY <2>1, <2>4, <2>5 DEF ConsoleInv
<1>2. ASSUME NEW l \in Tpls,
             \/ Interrupt(l) \/ HandlerReturns(l) \/ MaskInterrupts(l)
             \/ \E m \in Modules : SerialPortWrite(l, m)
             \/ \E c \in Chars : PutChar(l, c)
             \/ Skip(l) \/ CarriageReturn(l) \/ Accept(l) \/ ClearLine(l) \/ WriteReturns(l)
      PROVE  ConsoleInv'
  BY <1>2, CalmSteps
<1>3. ASSUME NEW l \in Tpls, \/ Paint(l) \/ LoadLine(l) \/ StoreLine(l) \/ FirstColumn(l)
                             \/ Compare(l) \/ ToTop(l)
      PROVE  ConsoleInv'
  BY <1>3, PaintStep, LoadLineStep, StoreLineStep, FirstColumnStep, CompareStep, ToTopStep
<1> QED BY <1>1, <1>2, <1>3 DEF ConsoleNext

LEMMA ConsoleInvStart ==
    ASSUME ConsoleInit, screen \in Screens
    PROVE  ConsoleInv
<1>1. NotRunning \in WriteType /\ Elsewhere \in WriteType
      /\ NotRunning.step = "none" /\ Elsewhere.step = "elsewhere"
      /\ NotRunning.char = "none" /\ Elsewhere.char = "none"
  BY DEF NotRunning, Elsewhere, WriteType
<1>2. write \in [Tpls -> WriteType] /\ \A l \in Tpls : write[l] \in {NotRunning, Elsewhere}
  BY <1>1 DEF ConsoleInit
<1>3. \A l \in Tpls : WriteOK(write[l]) /\ Masked(l) /\ LineOK(l)
  BY <1>1, <1>2 DEF WriteOK, Masked, LineOK, Runs, FeedSteps
<1>4. ASSUME NEW m \in Modules PROVE PositionOK(m)
  <2>1. x[m] = 0 /\ y[m] = 0
    BY DEF ConsoleInit
  <2> QED BY <2>1, OversCount, PageSize DEF PositionOK
<1> QED BY <1>2, <1>3, <1>4 DEF ConsoleInv, PlaceOK, ConsoleInit

THEOREM ConsoleInvariance == ConsoleSpec => []ConsoleInv
<1>1. ConsoleInit /\ screen \in Screens => ConsoleInv
  BY ConsoleInvStart
<1>2. ConsoleInv /\ [ConsoleNext]_<<screen, console>> => ConsoleInv'
  BY ConsoleInvStep DEF consoleVars
<1> QED BY <1>1, <1>2, PTL DEF ConsoleSpec

LEMMA ConsoleTypes == ConsoleInv => ConsoleTypeOK
BY DEF ConsoleInv, PlaceOK, WriteType, ConsoleTypeOK, Screens

LEMMA PageFits == ConsoleInv => NextGlyphFits
<1> SUFFICES ASSUME ConsoleInv PROVE NextGlyphFits
  OBVIOUS
<1>1. /\ MaxPositionX \div SCALE_FACTOR \in Nat /\ MaxPositionY \in Nat
      /\ 12 * (MaxPositionX \div SCALE_FACTOR) <= screen.width /\ 12 * MaxPositionY < screen.height
      /\ screen.width \in Nat /\ screen.height \in Nat
  BY PageSize DEF ConsoleInv, PlaceOK, Screens
<1>2. ASSUME NEW m \in Modules
      PROVE  /\ x[m] * 2 * (5 + 1) + 2 * 5 <= screen.width
             /\ (y[m] + 2) * 12 <= screen.height + Overruns(m) * 2 * 12
  <2>1. x[m] \in Nat /\ y[m] \in Nat /\ x[m] < MaxPositionX \div SCALE_FACTOR
        /\ y[m] + 3 <= MaxPositionY + 2 * Cardinality(Over(m)) /\ Overruns(m) = Cardinality(Over(m))
    BY DEF ConsoleInv, PlaceOK, PositionOK, Overruns, Over
  <2>2. Overruns(m) \in Nat
    BY <2>1, OversCount
  <2> QED BY <1>1, <2>1, <2>2
<1>3. ASSUME NEW l \in Tpls, write[l].step = "clear"
      PROVE  (write[l].line + 2) * 12 <= screen.height
  <2>1. write[l].line \in Nat /\ write[l].line < MaxPositionY - 2
    BY <1>1, <1>3, Known DEF ConsoleInv, LineOK, PastPage, WriteType
  <2> QED BY <1>1, <2>1
<1> QED BY <1>2, <1>3 DEF NextGlyphFits

\* A console paints on the screen only, but for the lines that line feeds past the
\* end of the page are ahead while interrupts have come into them.
THEOREM NothingPaintedOutside == ConsoleSpec => []NextGlyphFits
BY ConsoleInvariance, PageFits, PTL

\* The write of a priority after a step, as far as its callers and those it might
\* interrupt can tell.
Restores(l) == InWrite(l) =>
    /\ InWrite(l)' => write'[l].fed \/ ~ interrupts'
    /\ ~ InWrite(l)' => write[l].fed \/ interrupts' = write[l].found

\* A step of one priority leaves the others where they were.
LEMMA OthersWait ==
    ASSUME ConsoleInv, [ConsoleNext]_consoleVars, NEW l \in Tpls, write'[l] # write[l],
           Runs(write[l]), ~ Runs(write'[l])
    PROVE  WriteReturns(l)
<1>1. PICK k \in Tpls :
         \/ Interrupt(k) \/ HandlerReturns(k) \/ MaskInterrupts(k)
         \/ \E m \in Modules : SerialPortWrite(k, m)
         \/ \E c \in Chars : PutChar(k, c)
         \/ Skip(k) \/ CarriageReturn(k) \/ Accept(k) \/ Paint(k)
         \/ LoadLine(k) \/ StoreLine(k) \/ FirstColumn(k) \/ Compare(k)
         \/ ToTop(k) \/ ClearLine(k)
         \/ WriteReturns(k)
  BY DEF ConsoleNext, consoleVars, console
<1>2. write[k] \in WriteType /\ write \in [Tpls -> WriteType]
  BY DEF ConsoleInv, PlaceOK
<1>3. PICK w : write' = [write EXCEPT ![k] = w] \/ write' = write
  <2>1. CASE Accept(k)
    BY <2>1 DEF Accept
  <2>2. CASE FirstColumn(k)
    BY <2>2 DEF FirstColumn
  <2>3. CASE Compare(k)
    BY <2>3 DEF Compare
  <2>4. CASE \/ Interrupt(k) \/ HandlerReturns(k) \/ MaskInterrupts(k)
             \/ Skip(k) \/ CarriageReturn(k) \/ Paint(k)
    BY <2>4 DEF Interrupt, HandlerReturns, MaskInterrupts, Skip, CarriageReturn, Paint, DrawGlyph
  <2>5. CASE LoadLine(k) \/ StoreLine(k) \/ ToTop(k) \/ ClearLine(k) \/ WriteReturns(k)
    BY <2>5 DEF LoadLine, StoreLine, ToTop, ClearLine, WriteReturns
  <2>6. ASSUME NEW m \in Modules, SerialPortWrite(k, m)
        PROVE  \E w : write' = [write EXCEPT ![k] = w] \/ write' = write
    BY <2>6 DEF SerialPortWrite
  <2>7. ASSUME NEW c \in Chars, PutChar(k, c)
        PROVE  \E w : write' = [write EXCEPT ![k] = w] \/ write' = write
    BY <2>7 DEF PutChar
  <2> QED BY <1>1, <2>1, <2>2, <2>3, <2>4, <2>5, <2>6, <2>7
<1>4. k = l /\ write'[l] = w
  BY <1>2, <1>3
<1>5. ~ (Interrupt(l) \/ HandlerReturns(l) \/ MaskInterrupts(l))
  BY DEF Interrupt, HandlerReturns, MaskInterrupts, At, Runs
<1>6. \A m \in Modules : ~ SerialPortWrite(l, m)
  BY DEF SerialPortWrite, At, Runs
<1>7. ASSUME NEW c \in Chars, PutChar(l, c) PROVE FALSE
  <2>1. write'[l] = [write[l] EXCEPT !.step = "paint", !.char = c,
                                     !.fed = write[l].fed \/ c = "\n"]
    BY <1>2, <1>4, <1>7 DEF PutChar
  <2> QED BY <1>2, <1>4, <2>1 DEF Runs, WriteType
<1>8. CharPut(write[l]).step = "loop"
  BY <1>2, <1>4 DEF CharPut, WriteType
<1>9. ~ (Skip(l) \/ CarriageReturn(l) \/ ClearLine(l))
  BY <1>2, <1>8 DEF Skip, CarriageReturn, ClearLine, Runs
<1>10. ~ Paint(l)
  BY <1>2, <1>4, <1>8 DEF Paint, DrawGlyph, Runs, WriteType
<1>11. ~ Accept(l) /\ ~ FirstColumn(l)
  BY <1>2, <1>4 DEF Accept, FirstColumn, Runs, WriteType
<1>12. ~ (LoadLine(l) \/ StoreLine(l) \/ ToTop(l) \/ Compare(l))
  <2> SUFFICES ASSUME LoadLine(l) \/ StoreLine(l) \/ ToTop(l) \/ Compare(l)
               PROVE  FALSE
    OBVIOUS
  <2>1. PICK s \in {"add", "first", "paint", "top", "clear"},
             v \in {0, write[l].line, write[l].line + SCALE_FACTOR, y[write[l].module]} :
           write' = [write EXCEPT ![l] = [write[l] EXCEPT !.step = s, !.line = v]]
    <3>1. CASE LoadLine(l)
      BY <3>1 DEF LoadLine
    <3>2. CASE StoreLine(l)
      BY <3>2 DEF StoreLine
    <3>3. CASE ToTop(l)
      BY <3>3 DEF ToTop
    <3>4. CASE Compare(l)
      BY <3>4 DEF Compare, LineOf
    <3> QED BY <3>1, <3>2, <3>3, <3>4
  <2>2. write'[l] = [write[l] EXCEPT !.step = s, !.line = v]
    BY <1>2, <1>4, <2>1
  <2> QED BY <1>2, <1>4, <2>2 DEF Runs, WriteType
<1> QED BY <1>1, <1>4, <1>5, <1>6, <1>7, <1>9, <1>10, <1>11, <1>12

LEMMA WriteStep ==
    ASSUME ConsoleInv, [ConsoleNext]_consoleVars, NEW l \in Tpls
    PROVE  Restores(l)
<1> SUFFICES ASSUME Runs(write[l])
             PROVE  /\ Runs(write'[l]) => write'[l].fed \/ ~ interrupts'
                    /\ ~ Runs(write'[l]) => write[l].fed \/ interrupts' = write[l].found
  BY DEF Restores, InWrite, Runs
<1>1. ConsoleInv'
  BY ConsoleInvStep
<1>2. Runs(write'[l]) => write'[l].fed \/ ~ interrupts'
  BY <1>1 DEF ConsoleInv, Masked
<1>3. ASSUME ~ Runs(write'[l]), ~ write[l].fed
      PROVE  interrupts' = write[l].found
  <2>1. ~ interrupts /\ write[l].found \in BOOLEAN
    BY <1>3, Known DEF ConsoleInv, Masked, WriteType
  <2>2. WriteReturns(l)
    BY <1>3, OthersWait
  <2> QED BY <2>1, <2>2 DEF WriteReturns
<1> QED BY <1>2, <1>3

\* A write whose text has no '\n' is over before the interrupts are on again, and
\* leaves them as it found them, whichever handlers come into those that have one.
THEOREM InterruptsRestored == ConsoleSpec => InterruptsAsFound
<1>1. ConsoleInv /\ [ConsoleNext]_<<screen, console>>
         => [\A l \in Tpls : InWrite(l) =>
                /\ InWrite(l)' => write'[l].fed \/ ~ interrupts'
                /\ ~ InWrite(l)' => write[l].fed \/ interrupts' = write[l].found
            ]_<<screen, console>>
  BY WriteStep DEF Restores, consoleVars
<1> QED BY <1>1, ConsoleInvariance, PTL DEF ConsoleSpec, InterruptsAsFound
-----------------------------------------------------------------------------
(* The graphics output.                                                      *)

Levels == {"app", "callback"}
Shown == [rgb : Colours \cup {Black}, opaque : BOOLEAN]
WalkFields == {"step", "row", "group", "loaded", "dest"}

Walking(w) == w.step \in {"load", "store"}

WalkOK(w) ==
    /\ DOMAIN w = WalkFields
    /\ \/ w = NoWalk
       \/ /\ Walking(w)
          /\ w.dest \in Rectangles
          /\ w.row \in 0 .. w.dest.h - 1
          /\ w.group \in 0 .. LastGroup(w.dest)

\* The walk still has to come to the pixel.
Ahead(w, p) ==
    /\ Walking(w)
    /\ \E i \in 0 .. w.dest.w - 1, j \in 0 .. w.dest.h - 1 :
          /\ p = Pixel(w.dest, i, j)
          /\ j > w.row \/ (j = w.row /\ i >= 2 * w.group)

\* What a walk holds in registers is of its group, and is what was drawn last
\* unless a callback has drawn there since.
RegistersOK(l) ==
    blt[l].step = "store" =>
       /\ DOMAIN blt[l].loaded = InWalk(l)
       /\ \A p \in InWalk(l) :
             /\ blt[l].loaded[p] \in Shown
             /\ blt[l].loaded[p].rgb # drawn[p] => p \in raced

\* A pixel that should be opaque is, or some walk will still come to it.
OwedIsAhead == \A p \in owed : fb[p].opaque \/ \E l \in Levels : Ahead(blt[l], p)

ScreenOK == /\ fb \in [Pixels -> Shown] /\ drawn \in [Pixels -> Colours \cup {Black}]
            /\ raced \subseteq Pixels /\ owed \subseteq Pixels
WalksOK == DOMAIN blt = Levels /\ \A l \in Levels : WalkOK(blt[l]) /\ RegistersOK(l)

GraphicsInv == ScreenOK /\ WalksOK /\ OwedIsAhead /\ ShowsLastDrawn

LEMMA NoWalkIsOK == WalkOK(NoWalk) /\ ~ Walking(NoWalk) /\ NoWalk.step = "none"
BY DEF WalkOK, NoWalk, WalkFields, Walking

LEMMA WalkStands ==
    ASSUME NEW w, WalkOK(w)
    PROVE  w = NoWalk <=> ~ Walking(w)
BY NoWalkIsOK DEF WalkOK

\* A rectangle on the screen has its pixels in the frame buffer.
LEMMA OnScreenInFrame ==
    ASSUME NEW r \in Rectangles, OnScreen(r)
    PROVE  PixelsOf(r) \subseteq Pixels
<1> SUFFICES ASSUME NEW i \in 0 .. r.w - 1, NEW j \in 0 .. r.h - 1
             PROVE  Pixel(r, i, j) \in Pixels
  BY DEF PixelsOf, Offsets
<1> DEFINE a == r.y + j
           b == r.x + i
<1>1. a \in Nat /\ b \in Nat /\ a + 1 <= Height /\ b < Width
  BY SizeAssumption DEF Rectangles, OnScreen
<1>2. Width \in Nat /\ Height \in Nat
  BY SizeAssumption
<1>3. Pixel(r, i, j) = a * Width + b
  <2>1. r.x \in Int /\ r.y \in Int /\ i \in Int /\ j \in Int
    BY SizeAssumption DEF Rectangles
  <2> DEFINE m == a * Width
  <2>2. m \in Int BY <1>1, <1>2
  <2>3. Pixel(r, i, j) = m + r.x + i BY DEF Pixel
  <2> HIDE DEF m
  <2>4. m + r.x + i = m + (r.x + i) BY <2>1, <2>2
  <2> QED BY <2>3, <2>4 DEF m
<1> HIDE DEF a, b
<1>4. a * Width + Width <= Height * Width
  <2>1. PICK c \in Nat : Height = a + 1 + c
    <3>1. Height - a - 1 \in Nat BY <1>1, <1>2
    <3>2. Height = a + 1 + (Height - a - 1) BY <1>1, <1>2
    <3> QED BY <3>1, <3>2
  <2>2. Height * Width = a * Width + Width + c * Width BY <1>1, <1>2, <2>1
  <2>3. c * Width \in Nat BY <1>2, <2>1
  <2>4. a * Width \in Nat BY <1>1, <1>2
  <2> QED BY <1>2, <2>2, <2>3, <2>4
<1>5. Height * Width = Width * Height /\ a * Width \in Nat /\ Width * Height \in Nat
  BY <1>1, <1>2
<1>6. a * Width + b \in 0 .. Width * Height - 1
  <2> DEFINE m == a * Width
             n == Width * Height
  <2>1. m \in Nat /\ n \in Nat /\ m + Width <= n BY <1>4, <1>5
  <2> HIDE DEF m, n
  <2>2. m + b \in 0 .. n - 1 BY <2>1, <1>1, <1>2
  <2> QED BY <2>2 DEF m, n
<1> QED BY <1>3, <1>6 DEF Pixels

\* A new walk has all of its destination before it.
LEMMA WalkBegins ==
    ASSUME NEW r \in Rectangles
    PROVE  /\ WalkOK(Walk(r)) /\ Walk(r).step = "load"
           /\ \A p \in PixelsOf(r) : Ahead(Walk(r), p)
<1>1. DOMAIN Walk(r) = WalkFields /\ Walk(r).step = "load"
  <2>1. DOMAIN Walk(r) = WalkFields BY Zenon DEF Walk, NoWalk, WalkFields
  <2>2. Walk(r).step = "load" BY Zenon DEF Walk, NoWalk
  <2> QED BY <2>1, <2>2
<1>2. Walk(r).row = 0 /\ Walk(r).group = 0 /\ Walk(r).dest = r
  <2>1. Walk(r).row = 0 BY Zenon DEF Walk, NoWalk
  <2>2. Walk(r).group = 0 BY Zenon DEF Walk, NoWalk
  <2>3. Walk(r).dest = r BY Zenon DEF Walk, NoWalk
  <2> QED BY <2>1, <2>2, <2>3
<1>3. r.w \in Nat \ {0} /\ r.h \in Nat \ {0}
  BY SizeAssumption DEF Rectangles
<1>4. LastGroup(r) \in Nat
  BY <1>3 DEF LastGroup
<1>5. WalkOK(Walk(r))
  BY <1>1, <1>2, <1>3, <1>4 DEF WalkOK, Walking
<1>6. ASSUME NEW p \in PixelsOf(r) PROVE Ahead(Walk(r), p)
  <2>1. PICK i \in 0 .. r.w - 1, j \in 0 .. r.h - 1 : p = Pixel(r, i, j)
    BY DEF PixelsOf, Offsets
  <2>2. j > 0 \/ (j = 0 /\ i >= 2 * 0)
    BY <1>3
  <2> QED BY <1>1, <1>2, <2>1, <2>2 DEF Ahead, Walking
<1> QED BY <1>1, <1>5, <1>6

\* The fields of a walk that has loaded, and of one that goes on.
LEMMA WalkRecords ==
    ASSUME NEW w, DOMAIN w = WalkFields, NEW a, NEW b, NEW c
    PROVE  /\ DOMAIN [w EXCEPT !.step = a, !.loaded = b] = WalkFields
           /\ [w EXCEPT !.step = a, !.loaded = b].step = a
           /\ [w EXCEPT !.step = a, !.loaded = b].loaded = b
           /\ [w EXCEPT !.step = a, !.loaded = b].row = w.row
           /\ [w EXCEPT !.step = a, !.loaded = b].group = w.group
           /\ [w EXCEPT !.step = a, !.loaded = b].dest = w.dest
<1> USE DEF WalkFields
<1> DEFINE v == [w EXCEPT !.step = a, !.loaded = b]
<1>1. DOMAIN v = WalkFields BY Zenon
<1>2. v.step = a BY Zenon
<1>3. v.loaded = b BY Zenon
<1>4. v.row = w.row BY Zenon
<1>5. v.group = w.group BY Zenon
<1>6. v.dest = w.dest BY Zenon
<1> QED BY <1>1, <1>2, <1>3, <1>4, <1>5, <1>6

LEMMA NextGroupRecord ==
    ASSUME NEW w, DOMAIN w = WalkFields
    PROVE  LET v == [w EXCEPT !.step = "load", !.group = @ + 1, !.loaded = <<>>]
           IN  /\ DOMAIN v = WalkFields /\ v.step = "load" /\ v.row = w.row
               /\ v.group = w.group + 1 /\ v.dest = w.dest
<1> USE DEF WalkFields
<1> DEFINE v == [w EXCEPT !.step = "load", !.group = @ + 1, !.loaded = <<>>]
<1>1. DOMAIN v = WalkFields BY Zenon
<1>2. v.step = "load" BY Zenon
<1>3. v.row = w.row BY Zenon
<1>4. v.group = w.group + 1 BY Zenon
<1>5. v.dest = w.dest BY Zenon
<1> QED BY <1>1, <1>2, <1>3, <1>4, <1>5

LEMMA NextRowRecord ==
    ASSUME NEW w, DOMAIN w = WalkFields
    PROVE  LET v == [w EXCEPT !.step = "load", !.row = @ + 1, !.group = 0, !.loaded = <<>>]
           IN  /\ DOMAIN v = WalkFields /\ v.step = "load" /\ v.row = w.row + 1
               /\ v.group = 0 /\ v.dest = w.dest
<1> USE DEF WalkFields
<1> DEFINE v == [w EXCEPT !.step = "load", !.row = @ + 1, !.group = 0, !.loaded = <<>>]
<1>1. DOMAIN v = WalkFields BY Zenon
<1>2. v.step = "load" BY Zenon
<1>3. v.row = w.row + 1 BY Zenon
<1>4. v.group = 0 BY Zenon
<1>5. v.dest = w.dest BY Zenon
<1> QED BY <1>1, <1>2, <1>3, <1>4, <1>5

\* A walk that goes on is a walk, in its load; and every pixel it had before it
\* is of the group it leaves or still before it.
LEMMA WalkGoesOn ==
    ASSUME NEW w, WalkOK(w), Walking(w)
    PROVE  /\ WalkOK(Onward(w)) /\ Onward(w).step # "store"
           /\ \A p \in Pixels : Ahead(w, p) => p \in Group(w.dest, w.row, w.group)
                                               \/ Ahead(Onward(w), p)
<1> DEFINE d == w.dest
           last == LastGroup(d)
<1>1. /\ DOMAIN w = WalkFields /\ d \in Rectangles /\ w.row \in 0 .. d.h - 1
      /\ w.group \in 0 .. last
  BY NoWalkIsOK DEF WalkOK
<1>2. d.w \in Nat \ {0} /\ d.h \in Nat \ {0}
  BY <1>1, SizeAssumption DEF Rectangles
<1>3. last \in Nat /\ 2 * last + 1 >= d.w - 1
  BY <1>2 DEF LastGroup
<1>4. w.row \in Nat /\ w.group \in Nat /\ w.group <= last /\ w.row <= d.h - 1
  BY <1>1, <1>2, <1>3
<1>5. ASSUME NEW i \in 0 .. d.w - 1, i >= 2 * w.group, i <= 2 * w.group + 1,
             Pixel(d, i, w.row) \in Pixels
      PROVE  Pixel(d, i, w.row) \in Group(d, w.row, w.group)
  <2>1. i \in {2 * w.group, 2 * w.group + 1} \cap 0 .. d.w - 1
    BY <1>2, <1>4, <1>5
  <2> QED BY <1>5, <2>1 DEF Group
<1>6. CASE w.group < last
  <2>1. /\ DOMAIN Onward(w) = WalkFields /\ Onward(w).step = "load" /\ Onward(w).row = w.row
        /\ Onward(w).group = w.group + 1 /\ Onward(w).dest = d
    BY <1>1, <1>6, NextGroupRecord DEF Onward
  <2>2. w.group + 1 \in 0 .. last
    BY <1>3, <1>4, <1>6
  <2>3. WalkOK(Onward(w))
    BY <1>1, <2>1, <2>2 DEF WalkOK, Walking
  <2>4. ASSUME NEW p \in Pixels, Ahead(w, p), p \notin Group(d, w.row, w.group)
        PROVE  Ahead(Onward(w), p)
    <3>1. PICK i \in 0 .. d.w - 1, j \in 0 .. d.h - 1 :
             p = Pixel(d, i, j) /\ (j > w.row \/ (j = w.row /\ i >= 2 * w.group))
      BY <2>4 DEF Ahead
    <3>2. j > w.row \/ (j = w.row /\ i >= 2 * (w.group + 1))
      <4>1. CASE j = w.row
        <5>1. ~ (i <= 2 * w.group + 1) BY <1>5, <2>4, <3>1, <4>1
        <5> QED BY <1>2, <1>4, <3>1, <4>1, <5>1
      <4> QED BY <3>1, <4>1
    <3> QED BY <2>1, <3>1, <3>2 DEF Ahead, Walking
  <2> QED BY <2>1, <2>3, <2>4
<1>7. CASE ~ (w.group < last) /\ w.row < d.h - 1
  <2>1. /\ DOMAIN Onward(w) = WalkFields /\ Onward(w).step = "load" /\ Onward(w).row = w.row + 1
        /\ Onward(w).group = 0 /\ Onward(w).dest = d
    BY <1>1, <1>7, NextRowRecord DEF Onward
  <2>2. w.row + 1 \in 0 .. d.h - 1 /\ 0 \in 0 .. last
    BY <1>2, <1>3, <1>4, <1>7
  <2>3. WalkOK(Onward(w))
    BY <1>1, <2>1, <2>2 DEF WalkOK, Walking
  <2>4. ASSUME NEW p \in Pixels, Ahead(w, p), p \notin Group(d, w.row, w.group)
        PROVE  Ahead(Onward(w), p)
    <3>1. PICK i \in 0 .. d.w - 1, j \in 0 .. d.h - 1 :
             p = Pixel(d, i, j) /\ (j > w.row \/ (j = w.row /\ i >= 2 * w.group))
      BY <2>4 DEF Ahead
    <3>2. j # w.row
      <4> SUFFICES ASSUME j = w.row PROVE FALSE
        OBVIOUS
      <4>1. ~ (i <= 2 * w.group + 1) BY <1>5, <2>4, <3>1
      <4>2. w.group = last BY <1>3, <1>4, <1>7
      <4> QED BY <1>2, <1>3, <1>4, <4>1, <4>2
    <3>3. j > w.row + 1 \/ (j = w.row + 1 /\ i >= 2 * 0)
      BY <1>2, <1>4, <3>1, <3>2
    <3> QED BY <2>1, <3>1, <3>3 DEF Ahead, Walking
  <2> QED BY <2>1, <2>3, <2>4
<1>8. CASE ~ (w.group < last) /\ ~ (w.row < d.h - 1)
  <2>1. Onward(w) = NoWalk
    BY <1>8 DEF Onward
  <2>2. ASSUME NEW p \in Pixels, Ahead(w, p)
        PROVE  p \in Group(d, w.row, w.group)
    <3>1. PICK i \in 0 .. d.w - 1, j \in 0 .. d.h - 1 :
             p = Pixel(d, i, j) /\ (j > w.row \/ (j = w.row /\ i >= 2 * w.group))
      BY <2>2 DEF Ahead
    <3>2. j = w.row /\ i <= 2 * w.group + 1
      BY <1>2, <1>3, <1>4, <1>8, <3>1
    <3> QED BY <1>5, <2>2, <3>1, <3>2
  <2> QED BY <2>1, <2>2, NoWalkIsOK
<1> QED BY <1>6, <1>7, <1>8

LEMMA GraphicsStart == GraphicsInit => GraphicsInv
<1> SUFFICES ASSUME GraphicsInit PROVE GraphicsInv
  OBVIOUS
<1>1. ScreenOK
  BY DEF GraphicsInit, ScreenOK, Shown, Black
<1>2. WalksOK
  BY NoWalkIsOK DEF GraphicsInit, WalksOK, Levels, RegistersOK
<1>3. OwedIsAhead /\ ShowsLastDrawn
  BY DEF GraphicsInit, OwedIsAhead, ShowsLastDrawn
<1> QED BY <1>1, <1>2, <1>3 DEF GraphicsInv

\* What is drawn is shown, and what of it should be opaque is, or is before a walk;
\* and a pixel that a walk has in registers is noted.  It may begin a walk, at a
\* level that was in none.
LEMMA DrawsKeeps ==
    ASSUME GraphicsInv, NEW new, NEW opaque, Draws(new, opaque),
           DOMAIN new \subseteq Pixels, \A p \in DOMAIN new : new[p] \in Shown,
           opaque \subseteq DOMAIN new, DOMAIN blt' = Levels,
           \A m \in Levels : \/ blt'[m] = blt[m]
                             \/ blt[m] = NoWalk /\ WalkOK(blt'[m]) /\ blt'[m].step # "store",
           \A p \in opaque : new[p].opaque \/ \E m \in Levels : Ahead(blt'[m], p)
    PROVE  GraphicsInv'
<1>1. /\ fb \in [Pixels -> Shown] /\ drawn \in [Pixels -> Colours \cup {Black}]
      /\ raced \subseteq Pixels /\ owed \subseteq Pixels
  BY DEF GraphicsInv, ScreenOK
<1>2. /\ fb' = [p \in Pixels |-> IF p \in DOMAIN new THEN new[p] ELSE fb[p]]
      /\ drawn' = [p \in Pixels |-> IF p \in DOMAIN new THEN new[p].rgb ELSE drawn[p]]
      /\ raced' = (raced \ DOMAIN new)
                     \cup (DOMAIN new \cap (InRegisters("app") \cup InRegisters("callback")))
      /\ owed' = (owed \ DOMAIN new) \cup opaque
  BY DEF Draws
<1>3. ScreenOK'
  <2>1. \A p \in Pixels : fb'[p] \in Shown
    BY <1>1, <1>2
  <2>2. \A p \in Pixels : drawn'[p] \in Colours \cup {Black}
    BY <1>1, <1>2 DEF Shown
  <2>3. raced' \subseteq Pixels /\ owed' \subseteq Pixels
    BY <1>1, <1>2
  <2>4. fb' \in [Pixels -> Shown]
    BY <1>2, <2>1
  <2>5. drawn' \in [Pixels -> Colours \cup {Black}]
    BY <1>2, <2>2
  <2> QED BY <2>3, <2>4, <2>5 DEF ScreenOK
<1>4. ASSUME NEW m \in Levels PROVE WalkOK(blt'[m]) /\ RegistersOK(m)'
  <2>1. CASE blt'[m].step # "store" /\ blt'[m] # blt[m]
    BY <2>1 DEF RegistersOK
  <2>2. CASE blt'[m] = blt[m]
    <3>1. WalkOK(blt'[m])
      BY <2>2 DEF GraphicsInv, WalksOK
    <3>2. RegistersOK(m)'
      <4> SUFFICES ASSUME blt[m].step = "store"
                   PROVE  /\ DOMAIN blt[m].loaded = InWalk(m)'
                          /\ \A p \in InWalk(m)' :
                                /\ blt[m].loaded[p] \in Shown
                                /\ blt[m].loaded[p].rgb # drawn'[p] => p \in raced'
        BY <2>2 DEF RegistersOK
      <4>1. InWalk(m)' = InWalk(m)
        BY <2>2 DEF InWalk
      <4>2. InWalk(m) \subseteq InRegisters("app") \cup InRegisters("callback")
        BY DEF InRegisters, Levels
      <4>3. /\ DOMAIN blt[m].loaded = InWalk(m)
            /\ \A p \in InWalk(m) : /\ blt[m].loaded[p] \in Shown
                                    /\ blt[m].loaded[p].rgb # drawn[p] => p \in raced
        BY DEF GraphicsInv, WalksOK, RegistersOK
      <4>4. InWalk(m) \subseteq Pixels
        BY DEF InWalk, Group
      <4> QED BY <1>2, <4>1, <4>2, <4>3, <4>4
    <3> QED BY <3>1, <3>2
  <2> QED BY <2>1, <2>2
<1>5. OwedIsAhead'
  <2> SUFFICES ASSUME NEW p \in owed'
               PROVE  fb'[p].opaque \/ \E m \in Levels : Ahead(blt'[m], p)
    BY DEF OwedIsAhead, Ahead, Walking, Pixel
  <2>1. CASE p \in opaque
    BY <1>2, <2>1
  <2>2. CASE p \notin opaque
    <3>1. p \in owed /\ p \in Pixels /\ fb'[p] = fb[p]
      BY <1>1, <1>2, <2>2
    <3>2. fb[p].opaque \/ \E m \in Levels : Ahead(blt[m], p)
      BY <3>1 DEF GraphicsInv, OwedIsAhead
    <3>3. ~ Ahead(NoWalk, p)
      BY NoWalkIsOK DEF Ahead
    <3> QED BY <3>1, <3>2, <3>3
  <2> QED BY <2>1, <2>2
<1>6. ShowsLastDrawn'
  <2> SUFFICES ASSUME NEW p \in Pixels, fb'[p].rgb # drawn'[p] PROVE p \in raced'
    BY DEF ShowsLastDrawn, Pixels
  <2>1. p \notin DOMAIN new /\ fb'[p] = fb[p] /\ drawn'[p] = drawn[p]
    BY <1>2
  <2> QED BY <1>2, <2>1 DEF GraphicsInv, ShowsLastDrawn
<1> QED BY <1>3, <1>4, <1>5, <1>6 DEF GraphicsInv, WalksOK

\* A Blt that is refused, or reads only, may all the same begin a walk.
LEMMA WalkWithoutDrawing ==
    ASSUME GraphicsInv, NEW l \in Levels, blt[l] = NoWalk, DrawsNothing,
           DOMAIN blt' = Levels, \A m \in Levels \ {l} : blt'[m] = blt[m],
           WalkOK(blt'[l]), blt'[l].step # "store"
    PROVE  GraphicsInv'
<1>1. UNCHANGED <<fb, drawn, raced, owed>>
  BY DEF DrawsNothing
<1>2. ScreenOK' /\ ShowsLastDrawn'
  BY <1>1 DEF GraphicsInv, ScreenOK, ShowsLastDrawn
<1>3. ASSUME NEW m \in Levels PROVE WalkOK(blt'[m]) /\ RegistersOK(m)'
  BY <1>1 DEF GraphicsInv, WalksOK, RegistersOK, InWalk
<1>4. OwedIsAhead'
  <2> SUFFICES ASSUME NEW p \in owed'
               PROVE  fb'[p].opaque \/ \E m \in Levels : Ahead(blt'[m], p)
    BY DEF OwedIsAhead, Ahead, Walking, Pixel
  <2>1. fb[p].opaque \/ \E m \in Levels : Ahead(blt[m], p)
    BY <1>1 DEF GraphicsInv, OwedIsAhead
  <2>2. ~ Ahead(blt[l], p)
    BY NoWalkIsOK DEF Ahead
  <2> QED BY <1>1, <2>1, <2>2
<1> QED BY <1>2, <1>3, <1>4 DEF GraphicsInv, WalksOK

LEMMA WalkSet ==
    ASSUME WalksOK, NEW l \in Levels, NEW w, blt' = [blt EXCEPT ![l] = w]
    PROVE  DOMAIN blt' = Levels /\ blt'[l] = w /\ \A m \in Levels \ {l} : blt'[m] = blt[m]
BY DEF WalksOK

LEMMA FillKeeps ==
    ASSUME GraphicsInv, NEW l \in Levels, MayRun(l), blt[l] = NoWalk,
           NEW c \in Colours, NEW r \in Rectangles, VideoFill(l, c, r)
    PROVE  GraphicsInv'
<1>1. DOMAIN blt' = Levels /\ blt'[l] = Walk(r) /\ \A m \in Levels \ {l} : blt'[m] = blt[m]
  BY WalkSet DEF VideoFill, GraphicsInv
<1>2. WalkOK(blt'[l]) /\ blt'[l].step # "store" /\ \A p \in PixelsOf(r) : Ahead(blt'[l], p)
  BY <1>1, WalkBegins
<1>3. CASE OnScreen(r)
  <2> DEFINE new == [p \in PixelsOf(r) |-> [rgb |-> c, opaque |-> FALSE]]
  <2>1. Draws(new, PixelsOf(r))
    BY <1>3 DEF VideoFill
  <2>2. DOMAIN new = PixelsOf(r) /\ PixelsOf(r) \subseteq Pixels /\ \A p \in DOMAIN new : new[p] \in Shown
    BY <1>3, OnScreenInFrame DEF Shown
  <2> HIDE DEF new
  <2> QED BY <1>1, <1>2, <2>1, <2>2, DrawsKeeps
<1>4. CASE ~ OnScreen(r)
  BY <1>1, <1>2, <1>4, WalkWithoutDrawing DEF VideoFill
<1> QED BY <1>3, <1>4

LEMMA BufferKeeps ==
    ASSUME GraphicsInv, NEW l \in Levels, MayRun(l), blt[l] = NoWalk,
           NEW c \in Colours, NEW sx, NEW sy, NEW r \in Rectangles,
           BufferToVideo(l, c, sx, sy, r)
    PROVE  GraphicsInv'
<1>1. DOMAIN blt' = Levels /\ blt'[l] = NoWalk /\ \A m \in Levels \ {l} : blt'[m] = blt[m]
  BY DEF BufferToVideo, GraphicsInv, WalksOK
<1>2. WalkOK(blt'[l]) /\ blt'[l].step # "store"
  BY <1>1, NoWalkIsOK
<1>3. CASE OnScreen(r)
  <2> DEFINE corner == {Pixel(r, o[1], o[2]) :
                           o \in {o \in Offsets(r) : sx + o[1] < r.w /\ sy + o[2] < r.h}}
             new == [p \in PixelsOf(r) |-> [rgb |-> c, opaque |-> p \in corner]]
  <2>1. Draws(new, corner)
    BY <1>3 DEF BufferToVideo
  <2>2. corner \subseteq PixelsOf(r)
    BY DEF PixelsOf
  <2> HIDE DEF corner
  <2>3. \A p : (p \in corner) \in BOOLEAN
    OBVIOUS
  <2>4. DOMAIN new = PixelsOf(r) /\ PixelsOf(r) \subseteq Pixels /\ \A p \in DOMAIN new : new[p] \in Shown
    BY <1>3, <2>3, OnScreenInFrame DEF Shown
  <2>5. \A p \in corner : new[p].opaque
    BY <2>2
  <2> HIDE DEF new
  <2> QED BY <1>1, <1>2, <2>1, <2>2, <2>4, <2>5, DrawsKeeps
<1>4. CASE ~ OnScreen(r)
  BY <1>1, <1>2, <1>4, WalkWithoutDrawing DEF BufferToVideo
<1> QED BY <1>3, <1>4

LEMMA CopyKeeps ==
    ASSUME GraphicsInv, NEW l \in Levels, MayRun(l), blt[l] = NoWalk,
           NEW sx \in 0 .. Width - 1, NEW sy \in 0 .. Height - 1, NEW r \in Rectangles,
           VideoToVideo(l, sx, sy, r)
    PROVE  GraphicsInv'
<1>1. DOMAIN blt' = Levels /\ blt'[l] = Walk(r) /\ \A m \in Levels \ {l} : blt'[m] = blt[m]
  BY WalkSet DEF VideoToVideo, GraphicsInv
<1>2. WalkOK(blt'[l]) /\ blt'[l].step # "store" /\ \A p \in PixelsOf(r) : Ahead(blt'[l], p)
  BY <1>1, WalkBegins
<1> DEFINE source == [r EXCEPT !.x = sx, !.y = sy]
<1>3. CASE OnScreen(r) /\ OnScreen(source)
  <2> DEFINE From(p) == CHOOSE q \in PixelsOf(source) :
                \E o \in Offsets(r) : p = Pixel(r, o[1], o[2]) /\ q = Pixel(source, o[1], o[2])
             new == [p \in PixelsOf(r) |-> fb[From(p)]]
  <2>1. Draws(new, PixelsOf(r))
    BY <1>3 DEF VideoToVideo
  <2>2. source \in Rectangles /\ source.w = r.w /\ source.h = r.h
    BY DEF Rectangles
  <2>3. Offsets(source) = Offsets(r)
    BY <2>2 DEF Offsets
  <2> HIDE DEF source
  <2>4. PixelsOf(source) \subseteq Pixels
    BY <1>3, <2>2, OnScreenInFrame
  <2>5. \A p \in PixelsOf(r) : From(p) \in PixelsOf(source)
    <3> SUFFICES ASSUME NEW p \in PixelsOf(r)
                 PROVE  \E q \in PixelsOf(source) : \E o \in Offsets(r) :
                           p = Pixel(r, o[1], o[2]) /\ q = Pixel(source, o[1], o[2])
      OBVIOUS
    <3>1. PICK o \in Offsets(r) : p = Pixel(r, o[1], o[2])
      BY DEF PixelsOf
    <3>2. Pixel(source, o[1], o[2]) \in PixelsOf(source)
      BY <2>3 DEF PixelsOf
    <3> QED BY <3>1, <3>2
  <2> HIDE DEF From
  <2>6. DOMAIN new = PixelsOf(r) /\ PixelsOf(r) \subseteq Pixels /\ \A p \in DOMAIN new : new[p] \in Shown
    BY <1>3, <2>4, <2>5, OnScreenInFrame DEF GraphicsInv, ScreenOK
  <2> HIDE DEF new
  <2> QED BY <1>1, <1>2, <2>1, <2>6, DrawsKeeps
<1>4. CASE ~ (OnScreen(r) /\ OnScreen(source))
  BY <1>1, <1>2, <1>4, WalkWithoutDrawing DEF VideoToVideo
<1> QED BY <1>3, <1>4

LEMMA BltKeeps ==
    ASSUME GraphicsInv, NEW l \in Levels, DisplayBlt(l)
    PROVE  GraphicsInv'
<1>1. MayRun(l) /\ blt[l] = NoWalk
  BY DEF DisplayBlt
<1>2. PICK r \in Rectangles :
          \/ \E c \in Colours : VideoFill(l, c, r)
          \/ \E c \in Colours, sx \in 0 .. Width - 1, sy \in 0 .. Height - 1 :
                BufferToVideo(l, c, sx, sy, r)
          \/ \E sx \in 0 .. Width - 1, sy \in 0 .. Height - 1 : VideoToVideo(l, sx, sy, r)
          \/ VideoToBltBuffer(l, r)
  BY DEF DisplayBlt
<1>3. ASSUME VideoToBltBuffer(l, r) PROVE GraphicsInv'
  <2>1. blt' = [blt EXCEPT ![l] = Walk(r)] /\ DrawsNothing
    BY <1>3 DEF VideoToBltBuffer
  <2>2. DOMAIN blt' = Levels /\ blt'[l] = Walk(r) /\ \A m \in Levels \ {l} : blt'[m] = blt[m]
    BY <2>1, WalkSet DEF GraphicsInv
  <2> QED BY <1>1, <2>1, <2>2, WalkBegins, WalkWithoutDrawing
<1> QED BY <1>1, <1>2, <1>3, FillKeeps, BufferKeeps, CopyKeeps

\* A console goes through no walk: its glyphs are opaque at once.
LEMMA PrintsKeeps ==
    ASSUME GraphicsInv, Prints
    PROVE  GraphicsInv'
<1>1. DOMAIN blt' = Levels /\ \A m \in Levels : blt'[m] = blt[m]
  BY DEF Prints, GraphicsInv, WalksOK
<1>2. PICK r \in Rectangles :
         /\ OnScreen(r)
         /\ \/ \E c \in Colours \cup {Black} :
                  Draws([p \in PixelsOf(r) |-> [rgb |-> c, opaque |-> TRUE]], PixelsOf(r))
            \/ Draws([p \in PixelsOf(r) |-> [rgb |-> Black, opaque |-> FALSE]], {})
  BY DEF Prints
<1>3. PixelsOf(r) \subseteq Pixels
  BY <1>2, OnScreenInFrame
<1>4. ASSUME NEW c \in Colours \cup {Black},
             Draws([p \in PixelsOf(r) |-> [rgb |-> c, opaque |-> TRUE]], PixelsOf(r))
      PROVE  GraphicsInv'
  <2> DEFINE new == [p \in PixelsOf(r) |-> [rgb |-> c, opaque |-> TRUE]]
  <2>1. DOMAIN new = PixelsOf(r) /\ \A p \in DOMAIN new : new[p] \in Shown /\ new[p].opaque
    BY DEF Shown
  <2>2. Draws(new, PixelsOf(r))
    BY <1>4
  <2> HIDE DEF new
  <2> QED BY <1>1, <1>3, <2>1, <2>2, DrawsKeeps
<1>5. ASSUME Draws([p \in PixelsOf(r) |-> [rgb |-> Black, opaque |-> FALSE]], {})
      PROVE  GraphicsInv'
  <2> DEFINE new == [p \in PixelsOf(r) |-> [rgb |-> Black, opaque |-> FALSE]]
  <2>1. DOMAIN new = PixelsOf(r) /\ \A p \in DOMAIN new : new[p] \in Shown
    BY DEF Shown
  <2>2. Draws(new, {})
    BY <1>5
  <2> HIDE DEF new
  <2> QED BY <1>1, <1>3, <2>1, <2>2, DrawsKeeps
<1> QED BY <1>2, <1>4, <1>5

LEMMA LoadKeeps ==
    ASSUME GraphicsInv, NEW l \in Levels, Load(l)
    PROVE  GraphicsInv'
<1> DEFINE held == [p \in InWalk(l) |-> fb[p]]
           w == [blt[l] EXCEPT !.step = "store", !.loaded = held]
<1>1. blt' = [blt EXCEPT ![l] = w] /\ UNCHANGED <<fb, drawn, raced, owed>> /\ blt[l].step = "load"
  BY DEF Load
<1>2. DOMAIN blt' = Levels /\ blt'[l] = w /\ \A m \in Levels \ {l} : blt'[m] = blt[m]
  BY <1>1, WalkSet DEF GraphicsInv
<1>3. /\ DOMAIN blt[l] = WalkFields /\ blt[l].dest \in Rectangles
      /\ blt[l].row \in 0 .. blt[l].dest.h - 1 /\ blt[l].group \in 0 .. LastGroup(blt[l].dest)
  BY <1>1, NoWalkIsOK DEF GraphicsInv, WalksOK, WalkOK
<1> HIDE DEF held
<1>4. /\ DOMAIN w = WalkFields /\ w.step = "store" /\ w.loaded = held
      /\ w.row = blt[l].row /\ w.group = blt[l].group /\ w.dest = blt[l].dest
  BY <1>3, WalkRecords
<1> HIDE DEF w
<1>5. ScreenOK' /\ ShowsLastDrawn'
  BY <1>1 DEF GraphicsInv, ScreenOK, ShowsLastDrawn
<1>6. ASSUME NEW m \in Levels PROVE WalkOK(blt'[m]) /\ RegistersOK(m)'
  <2>1. CASE m = l
    <3>1. WalkOK(w)
      BY <1>3, <1>4 DEF WalkOK, Walking
    <3>2. InWalk(l)' = InWalk(l) /\ InWalk(l) \subseteq Pixels
      BY <1>2, <1>4 DEF InWalk, Group
    <3>3. DOMAIN held = InWalk(l) /\ \A p \in InWalk(l) : held[p] = fb[p]
      BY DEF held
    <3>4. \A p \in InWalk(l) : fb[p] \in Shown /\ (fb[p].rgb # drawn[p] => p \in raced)
      BY <3>2 DEF GraphicsInv, ScreenOK, ShowsLastDrawn
    <3> QED BY <1>1, <1>2, <1>4, <2>1, <3>1, <3>2, <3>3, <3>4 DEF RegistersOK
  <2>2. CASE m # l
    BY <1>1, <1>2, <2>2 DEF GraphicsInv, WalksOK, RegistersOK, InWalk
  <2> QED BY <2>1, <2>2
<1>7. OwedIsAhead'
  <2> SUFFICES ASSUME NEW p \in owed'
               PROVE  fb'[p].opaque \/ \E m \in Levels : Ahead(blt'[m], p)
    BY DEF OwedIsAhead, Ahead, Walking, Pixel
  <2>1. fb[p].opaque \/ \E m \in Levels : Ahead(blt[m], p)
    BY <1>1 DEF GraphicsInv, OwedIsAhead
  <2>2. Ahead(blt[l], p) => Ahead(w, p)
    BY <1>4 DEF Ahead, Walking
  <2> QED BY <1>1, <1>2, <2>1, <2>2
<1> QED BY <1>2, <1>5, <1>6, <1>7 DEF GraphicsInv, WalksOK

LEMMA StoreKeeps ==
    ASSUME GraphicsInv, NEW l \in Levels, Store(l)
    PROVE  GraphicsInv'
<1> DEFINE w == blt[l]
           held == blt[l].loaded
<1>1. /\ blt' = [blt EXCEPT ![l] = Onward(w)] /\ UNCHANGED <<drawn, raced, owed>>
      /\ w.step = "store" /\ MayRun(l)
      /\ fb' = [p \in Pixels |-> IF p \in DOMAIN held THEN [held[p] EXCEPT !.opaque = TRUE] ELSE fb[p]]
  BY DEF Store
<1>2. DOMAIN blt' = Levels /\ blt'[l] = Onward(w) /\ \A m \in Levels \ {l} : blt'[m] = blt[m]
  BY <1>1, WalkSet DEF GraphicsInv
<1>3. WalkOK(w) /\ Walking(w)
  BY <1>1 DEF GraphicsInv, WalksOK, Walking
<1>4. DOMAIN held = InWalk(l) /\ InWalk(l) \subseteq Pixels
      /\ \A p \in InWalk(l) : held[p] \in Shown /\ (held[p].rgb # drawn[p] => p \in raced)
  BY <1>1 DEF GraphicsInv, WalksOK, RegistersOK, InWalk, Group
<1>5. \A p \in InWalk(l) : fb'[p] \in Shown /\ fb'[p].rgb = held[p].rgb /\ fb'[p].opaque = TRUE
  <2> SUFFICES ASSUME NEW p \in InWalk(l)
               PROVE  fb'[p] \in Shown /\ fb'[p].rgb = held[p].rgb /\ fb'[p].opaque = TRUE
    OBVIOUS
  <2>1. fb'[p] = [held[p] EXCEPT !.opaque = TRUE]
    BY <1>1, <1>4
  <2>2. held[p] \in Shown
    BY <1>4
  <2> QED BY <2>1, <2>2 DEF Shown
<1>6. \A p \in Pixels \ InWalk(l) : fb'[p] = fb[p]
  BY <1>1, <1>4
<1> HIDE DEF held
<1>7. ScreenOK'
  <2>1. \A p \in Pixels : fb'[p] \in Shown
    BY <1>5, <1>6 DEF GraphicsInv, ScreenOK
  <2>2. fb' \in [Pixels -> Shown]
    BY <1>1, <2>1
  <2> QED BY <1>1, <2>2 DEF GraphicsInv, ScreenOK
<1>8. ASSUME NEW m \in Levels PROVE WalkOK(blt'[m]) /\ RegistersOK(m)'
  <2>1. CASE m = l
    BY <1>2, <1>3, <2>1, WalkGoesOn DEF RegistersOK
  <2>2. CASE m # l
    BY <1>1, <1>2, <2>2 DEF GraphicsInv, WalksOK, RegistersOK, InWalk
  <2> QED BY <2>1, <2>2
<1>9. OwedIsAhead'
  <2> SUFFICES ASSUME NEW p \in owed'
               PROVE  fb'[p].opaque \/ \E m \in Levels : Ahead(blt'[m], p)
    BY DEF OwedIsAhead, Ahead, Walking, Pixel
  <2>1. CASE p \in InWalk(l)
    BY <1>5, <2>1
  <2>2. CASE p \notin InWalk(l)
    <3>1. p \in Pixels /\ fb'[p] = fb[p]
      BY <1>1, <1>6, <2>2 DEF GraphicsInv, ScreenOK
    <3>2. fb[p].opaque \/ \E m \in Levels : Ahead(blt[m], p)
      BY <1>1 DEF GraphicsInv, OwedIsAhead
    <3>3. Ahead(blt[l], p) => Ahead(Onward(w), p)
      BY <1>3, <2>2, <3>1, WalkGoesOn DEF InWalk
    <3> QED BY <1>2, <3>1, <3>2, <3>3
  <2> QED BY <2>1, <2>2
<1>10. ShowsLastDrawn'
  <2> SUFFICES ASSUME NEW p \in Pixels, fb'[p].rgb # drawn[p] PROVE p \in raced
    BY <1>1 DEF ShowsLastDrawn, Pixels
  <2> QED BY <1>4, <1>5, <1>6 DEF GraphicsInv, ShowsLastDrawn
<1> QED BY <1>2, <1>7, <1>8, <1>9, <1>10 DEF GraphicsInv, WalksOK

LEMMA GraphicsStepKeeps ==
    ASSUME GraphicsInv, GraphicsNext \/ UNCHANGED graphics
    PROVE  GraphicsInv'
<1>1. CASE GraphicsNext
  BY <1>1, PrintsKeeps, BltKeeps, LoadKeeps, StoreKeeps DEF GraphicsNext, Levels
<1>2. CASE UNCHANGED graphics
  <2>1. UNCHANGED <<fb, blt, drawn, raced, owed>>
    BY <1>2 DEF graphics
  <2>2. ScreenOK' /\ ShowsLastDrawn'
    BY <2>1 DEF GraphicsInv, ScreenOK, ShowsLastDrawn
  <2>3. WalksOK'
    BY <2>1 DEF GraphicsInv, WalksOK, RegistersOK, InWalk
  <2>4. OwedIsAhead'
    BY <2>1 DEF GraphicsInv, OwedIsAhead, Ahead, Pixel
  <2> QED BY <2>2, <2>3, <2>4 DEF GraphicsInv
<1> QED BY <1>1, <1>2
-----------------------------------------------------------------------------
(* The start-up.                                                             *)

\* The tables' pages and sizes are numbers, so the frames begin at the frame
\* buffer's address or after it.
LEMMA PcdSizes ==
    ASSUME platform \in Platforms
    PROVE  /\ Pcd.width \in Nat /\ Pcd.height \in Nat /\ Pcd.base \in Nat /\ Pcd.layers \in Nat
           /\ FrameBufferSize \in Nat
<1>1. Pcd.width \in Nat /\ Pcd.height \in Nat /\ Pcd.base \in Nat /\ Pcd.layers \in Nat
  BY PlatformsAssumption DEF Pcd, Pcds
<1>2. FrameBufferSize \in Nat
  <2> DEFINE bytes == 4 * Pcd.width * Pcd.height
  <2>1. bytes \in Nat BY <1>1
  <2> HIDE DEF bytes
  <2>2. bytes \div 4096 \in Nat BY <2>1
  <2> QED BY <2>2 DEF FrameBufferSize, bytes
<1> QED BY <1>1, <1>2

\* The memory is described once, before the display is cleared; the screen is
\* cleared, whoever draws later, only by a driver that goes on to serve Blts.
StartUp ==
    /\ phase \in {"prepi", "dxe", "graphics"}
    /\ MapTypeOK
    /\ cleared # {} <=> phase = "graphics"

LEMMA SameTables ==
    ASSUME UNCHANGED platform
    PROVE  UNCHANGED <<GetPlatformMemoryMap, Pcd>>
BY DEF GetPlatformMemoryMap, Pcd

LEMMA MapStands ==
    ASSUME MapTypeOK, UNCHANGED <<platform, hobs, allocations, mmu>>, cleared' = cleared
    PROVE  MapTypeOK'
BY SameTables DEF MapTypeOK

DisplayInv == StartUp /\ ConsoleInv /\ GraphicsInv

LEMMA DisplayStart == Init => DisplayInv
<1> SUFFICES ASSUME Init PROVE DisplayInv
  OBVIOUS
<1>1. StartUp
  BY DEF Init, MemoryInit, StartUp, MapTypeOK
<1>2. ConsoleInv
  BY ConsoleInvStart, ConsoleScreensAssumption DEF Init
<1>3. GraphicsInv
  BY GraphicsStart DEF Init
<1> QED BY <1>1, <1>2, <1>3 DEF DisplayInv

LEMMA ConsoleAlone ==
    ASSUME ConsoleInv, UNCHANGED <<screen, console>>
    PROVE  ConsoleInv'
BY ConsoleInvStep DEF consoleVars

LEMMA GraphicsAlone ==
    ASSUME GraphicsInv, UNCHANGED graphics
    PROVE  GraphicsInv'
BY GraphicsStepKeeps

LEMMA DisplayStep ==
    ASSUME DisplayInv, [Next]_displayVars
    PROVE  DisplayInv'
<1> USE DEF DisplayInv
<1>1. CASE PrePiMain
  <2>1. /\ phase' = "dxe" /\ phase = "prepi" /\ UNCHANGED <<platform, cleared>>
        /\ hobs' = RowsWhere(HasHob) /\ allocations' = RowsWhere(IsAllocated)
        /\ mmu' = RowsWhere(IsMapped)
    BY <1>1 DEF PrePiMain, MemoryPeim
  <2>2. hobs' \subseteq DOMAIN GetPlatformMemoryMap
    BY <2>1 DEF RowsWhere
  <2>3. allocations' \subseteq DOMAIN GetPlatformMemoryMap
    BY <2>1 DEF RowsWhere
  <2>4. mmu' \subseteq DOMAIN GetPlatformMemoryMap
    BY <2>1 DEF RowsWhere
  <2>5. StartUp'
    BY <2>1, <2>2, <2>3, <2>4, SameTables DEF StartUp, MapTypeOK
  <2> QED BY <1>1, <2>5, ConsoleAlone, GraphicsAlone DEF PrePiMain
<1>2. CASE ConsoleStep
  <2>1. StartUp'
    BY <1>2, MapStands DEF ConsoleStep, memory, StartUp
  <2>2. ConsoleInv'
    BY <1>2, ConsoleInvStep DEF ConsoleStep
  <2> QED BY <1>2, <2>1, <2>2, GraphicsAlone DEF ConsoleStep
<1>3. CASE SimpleFbDxeInitialize
  <2>1. UNCHANGED <<platform, hobs, allocations, mmu>> /\ phase' = "graphics" /\ ClearFrames
    BY <1>3 DEF SimpleFbDxeInitialize
  <2>2. Pcd.base \in Nat /\ Pcd.layers \in Nat /\ FrameBufferSize \in Nat
    BY PcdSizes DEF StartUp, MapTypeOK
  <2>3. \A p \in cleared' : p.base >= Pcd.base
    <3> SUFFICES ASSUME NEW i \in 0 .. Pcd.layers
                 PROVE  Pcd.base + i * FrameBufferSize >= Pcd.base
      BY <2>1 DEF ClearFrames, Pages
    <3>1. i * FrameBufferSize \in Nat
      BY <2>2
    <3> QED BY <2>2, <3>1
  <2>4. cleared' # {}
    <3>1. 0 \in 0 .. Pcd.layers BY <2>2
    <3> QED BY <2>1, <3>1 DEF ClearFrames
  <2>5. MapTypeOK'
    BY <2>1, <2>3, SameTables DEF StartUp, MapTypeOK
  <2>6. StartUp'
    BY <2>1, <2>4, <2>5 DEF StartUp
  <2>7. /\ write[0].step = "elsewhere" /\ \A k \in Tpls : k > 0 => write[k] = NotRunning
        /\ x' = [m \in Modules |-> 0] /\ y' = [m \in Modules |-> 0] /\ interrupts' = TRUE
        /\ UNCHANGED <<screen, write>>
    BY <1>3 DEF SimpleFbDxeInitialize, At
  <2>8. \A l \in Tpls : ~ Runs(write'[l]) /\ write'[l].step \notin FeedSteps
    BY <2>7, TplsFinite DEF Runs, NotRunning, FeedSteps
  <2>9. \A l \in Tpls : WriteOK(write'[l]) /\ Masked(l)' /\ LineOK(l)'
    BY <2>7, <2>8 DEF ConsoleInv, Masked, LineOK, FeedSteps
  <2>10. ASSUME NEW m \in Modules PROVE PositionOK(m)'
    <3>1. UNCHANGED <<MaxPositionX, MaxPositionY>>
      BY <2>7 DEF MaxPositionX, MaxPositionY
    <3>2. MaxPositionX \div SCALE_FACTOR >= 2 /\ MaxPositionY >= 5
          /\ MaxPositionX \div SCALE_FACTOR \in Nat /\ MaxPositionY \in Nat
      BY PageSize DEF ConsoleInv, PlaceOK
    <3>3. Over(m)' \subseteq Tpls
      BY DEF Over
    <3>4. Cardinality(Over(m)') \in Nat
      BY <3>3, TplsFinite, FS_Subset, FS_CardinalityType
    <3>5. x'[m] = 0 /\ y'[m] = 0
      BY <2>7
    <3> QED BY <3>1, <3>2, <3>4, <3>5 DEF PositionOK
  <2>11. PlaceOK'
    BY <2>7 DEF ConsoleInv, PlaceOK
  <2>12. ConsoleInv'
    BY <2>9, <2>10, <2>11 DEF ConsoleInv
  <2> QED BY <1>3, <2>6, <2>12, GraphicsAlone DEF SimpleFbDxeInitialize
<1>4. CASE GraphicsStep
  <2>1. StartUp'
    BY <1>4, MapStands DEF GraphicsStep, memory, StartUp
  <2>2. GraphicsInv'
    BY <1>4, GraphicsStepKeeps DEF GraphicsStep
  <2> QED BY <1>4, <2>1, <2>2, ConsoleAlone DEF GraphicsStep
<1>5. CASE UNCHANGED displayVars
  <2>1. StartUp'
    BY <1>5, MapStands DEF displayVars, memory, StartUp
  <2> QED BY <1>5, <2>1, ConsoleAlone, GraphicsAlone DEF displayVars
<1> QED BY <1>1, <1>2, <1>3, <1>4, <1>5 DEF Next

LEMMA DisplayInvariance == DisplaySpec => []DisplayInv
BY DisplayStart, DisplayStep, PTL DEF DisplaySpec

\* The types of the memory map, the consoles and the graphics output, for any
\* platforms, modules and screens; the frame buffer is cleared exactly when the
\* driver serves Blts.
THEOREM DisplayTypesHold == DisplaySpec => []DisplayTypeOK
<1>1. DisplayInv => DisplayTypeOK
  <2> SUFFICES ASSUME DisplayInv PROVE DisplayTypeOK
    OBVIOUS
  <2>1. GraphicsTypeOK
    <3>1. \A l \in DOMAIN blt : blt[l] = NoWalk \/ blt[l].dest \in Rectangles
      BY DEF DisplayInv, GraphicsInv, WalksOK, WalkOK
    <3> QED BY <3>1 DEF DisplayInv, GraphicsInv, ScreenOK, Shown, GraphicsTypeOK
  <2> QED BY <2>1, ConsoleTypes DEF DisplayInv, StartUp, DisplayTypeOK
<1> QED BY <1>1, DisplayInvariance, PTL

\* When no Blt is under way, every pixel an accepted Blt or a glyph answers for is
\* opaque, for every screen, every number of Blts and prints and every way they may
\* interrupt the walk of a Blt over its destination (SimpleFbDxe.c:239-364,
\* FrameBufferSerialPortLib.c:162-262).
THEOREM DrawnStaysOpaque == DisplaySpec => []DrawnIsOpaque
<1>1. DisplayInv => DrawnIsOpaque
  <2> SUFFICES ASSUME DisplayInv, AtRest, NEW p \in owed PROVE fb[p].opaque
    BY DEF DrawnIsOpaque
  <2>1. \A l \in Levels : ~ Ahead(blt[l], p)
    BY NoWalkIsOK DEF AtRest, DisplayInv, GraphicsInv, WalksOK, Ahead
  <2> QED BY <2>1 DEF DisplayInv, GraphicsInv, OwedIsAhead
<1> QED BY <1>1, DisplayInvariance, PTL

\* A pixel that does not show what was drawn on it last was drawn by a callback's
\* Blt, or by a console, while an interrupted walk had its group in registers.
THEOREM LastDrawnIsShown == DisplaySpec => []ShowsLastDrawn
<1>1. DisplayInv => ShowsLastDrawn
  BY DEF DisplayInv, GraphicsInv
<1> QED BY <1>1, DisplayInvariance, PTL

\* In the display as a whole, the consoles of the DXE modules paint on the screen
\* only, but for the lines that interrupted line feeds are ahead.
THEOREM ConsolesPaintInside == DisplaySpec => []NextGlyphFits
<1>1. DisplayInv => NextGlyphFits
  BY PageFits DEF DisplayInv
<1> QED BY <1>1, DisplayInvariance, PTL

\* And every write of a DXE module leaves the interrupts as it found them, and them
\* off meanwhile, unless its text had a '\n'; the display driver starts in none.
THEOREM ConsolesRestoreInterrupts == DisplaySpec => InterruptsAsFound
<1>1. DisplayInv /\ [Next]_displayVars
         => [\A l \in Tpls : InWrite(l) =>
                /\ InWrite(l)' => write'[l].fed \/ ~ interrupts'
                /\ ~ InWrite(l)' => write[l].fed \/ interrupts' = write[l].found
            ]_<<screen, console>>
  <2> SUFFICES ASSUME DisplayInv, [Next]_displayVars
               PROVE  (\A l \in Tpls : Restores(l)) \/ UNCHANGED consoleVars
    BY DEF Restores, consoleVars
  <2>1. CASE ConsoleStep
    BY <2>1, WriteStep DEF ConsoleStep, DisplayInv
  <2>2. CASE SimpleFbDxeInitialize
    <3>1. write[0].step = "elsewhere" /\ \A k \in Tpls : k > 0 => write[k] = NotRunning
      BY <2>2 DEF SimpleFbDxeInitialize, At
    <3> QED BY <3>1, TplsFinite DEF Restores, InWrite, NotRunning
  <2>3. ASSUME ~ ConsoleStep, ~ SimpleFbDxeInitialize PROVE UNCHANGED consoleVars
    BY <2>3 DEF Next, displayVars, consoleVars, PrePiMain, GraphicsStep
  <2> QED BY <2>1, <2>2, <2>3
<1> QED
  BY <1>1, DisplayInvariance, PTL DEF DisplaySpec, InterruptsAsFound
-----------------------------------------------------------------------------
(* The tables of the platforms.                                              *)

\* What a table has to be for a frame buffer of the given size, in pages: rows
\* that share pages are known, the earlier of the two is not reserved, reserved
\* rows are not system memory, and one mapped region holds the frames.
TableIsSound(T, base, size) ==
    /\ DOMAIN T \subseteq Int
    /\ \A i, j \in DOMAIN T : i < j /\ Overlap(T[i], T[j]) =>
          <<T[i].name, T[j].name>> \in KnownOverlaps /\ T[i].type # "Reserv"
    /\ \A i \in DOMAIN T : T[i].type = "Reserv" => ~ IsAllocated(T[i])
    /\ \E i \in DOMAIN T :
          /\ T[i].attributes = "WRITE_THROUGH_XN" /\ T[i].resource = "MEM_RES" /\ IsMapped(T[i])
          /\ Within(Pages(base, size), T[i])

LEMMA T1100IsSound == TableIsSound(TableT1100, \h7CB80, 3 * 3400)
<1> USE DEF TableT1100, Row, Ram, Reserved
<1>1. \A i, j \in DOMAIN TableT1100 : i < j /\ Overlap(TableT1100[i], TableT1100[j]) => i = 12 /\ j = 23
  BY SMTT(100) DEF Overlap
<1>2. TableT1100[12].name = "DDR_Memory_5" /\ TableT1100[12].type = "Conv" /\ TableT1100[23].name = "TEE_Memory"
  OBVIOUS
<1>3. \A i \in DOMAIN TableT1100 : TableT1100[i].type = "Reserv" => TableT1100[i].resource # "SYS_MEM"
  BY SMTT(100)
<1>4. 25 \in DOMAIN TableT1100 /\ DOMAIN TableT1100 \subseteq Int
      /\ TableT1100[25] = Row("Framebuffer", \h7CB80, \h3080, "MEM_RES", "Reserv", "WRITE_THROUGH_XN")
  OBVIOUS
<1> HIDE DEF TableT1100
<1> QED
  BY <1>1, <1>2, <1>3, <1>4 DEF TableIsSound, KnownOverlaps, IsAllocated, IsMapped, PassedOver, Within, Pages, Mem

LEMMA T1IsSound == TableIsSound(TableT1, \h7EC50, 3 * 1125)
<1> USE DEF TableT1, Row, Ram, Reserved
<1>1. \A i, j \in DOMAIN TableT1 : i < j /\ Overlap(TableT1[i], TableT1[j]) => FALSE
  BY SMTT(100) DEF Overlap
<1>3. \A i \in DOMAIN TableT1 : TableT1[i].type = "Reserv" => TableT1[i].resource # "SYS_MEM"
  BY SMTT(100)
<1>4. 19 \in DOMAIN TableT1 /\ DOMAIN TableT1 \subseteq Int
      /\ TableT1[19] = Row("Framebuffer", \h7EC50, \hFB0, "MEM_RES", "Reserv", "WRITE_THROUGH_XN")
  OBVIOUS
<1> HIDE DEF TableT1
<1> QED
  BY <1>1, <1>3, <1>4 DEF TableIsSound, KnownOverlaps, IsAllocated, IsMapped, PassedOver, Within, Pages, Mem

LEMMA EmeraldIsSound == TableIsSound(TableEmerald, \hFE0D0, 3 * 2550)
<1> USE DEF TableEmerald, Row, Ram, Reserved
<1>1. \A i, j \in DOMAIN TableEmerald : i < j /\ Overlap(TableEmerald[i], TableEmerald[j]) => FALSE
  BY SMTT(100) DEF Overlap
<1>3. \A i \in DOMAIN TableEmerald : TableEmerald[i].type = "Reserv" => TableEmerald[i].resource # "SYS_MEM"
  BY SMTT(100)
<1>4. 27 \in DOMAIN TableEmerald /\ DOMAIN TableEmerald \subseteq Int
      /\ TableEmerald[27] = Row("Framebuffer", \hFE0D0, \h1F2F, "MEM_RES", "Reserv", "WRITE_THROUGH_XN")
  OBVIOUS
<1> HIDE DEF TableEmerald
<1> QED
  BY <1>1, <1>3, <1>4 DEF TableIsSound, KnownOverlaps, IsAllocated, IsMapped, PassedOver, Within, Pages, Mem

LEMMA RooIsSound == TableIsSound(TableRoo, \h7BEE0, 2 * 1035)
<1> USE DEF TableRoo, Row, Ram, Reserved
<1>1. \A i, j \in DOMAIN TableRoo : i < j /\ Overlap(TableRoo[i], TableRoo[j]) => i = 5 /\ j = 7
  BY SMTT(100) DEF Overlap
<1>2. TableRoo[5].name = "HLOS_1" /\ TableRoo[5].type = "Conv" /\ TableRoo[7].name = "ATF_Reserved"
  OBVIOUS
<1>3. \A i \in DOMAIN TableRoo : TableRoo[i].type = "Reserv" => TableRoo[i].resource # "SYS_MEM"
  BY SMTT(100)
<1>4. 12 \in DOMAIN TableRoo /\ DOMAIN TableRoo \subseteq Int
      /\ TableRoo[12] = Row("Display_Reserved", \h7BEE0, \hE20, "MEM_RES", "Reserv", "WRITE_THROUGH_XN")
  OBVIOUS
<1> HIDE DEF TableRoo
<1> QED
  BY <1>1, <1>2, <1>3, <1>4 DEF TableIsSound, KnownOverlaps, IsAllocated, IsMapped, PassedOver, Within, Pages, Mem

\* The sound tables are those the platforms use, with their frame buffers.
LEMMA PlatformIsSound ==
    ASSUME platform \in Platforms
    PROVE  TableIsSound(GetPlatformMemoryMap, Pcd.base, Pcd.layers * FrameBufferSize)
<1>1. CASE platform = "t1100"
  <2>1. GetPlatformMemoryMap = TableT1100
    BY <1>1 DEF GetPlatformMemoryMap, MemoryMapLibs
  <2>2. Pcd.base = \h7CB80 /\ Pcd.layers * FrameBufferSize = 3 * 3400
    BY <1>1 DEF Pcd, Pcds, FrameBufferSize
  <2> QED BY <2>1, <2>2, T1100IsSound
<1>2. CASE platform = "t1"
  <2>1. GetPlatformMemoryMap = TableT1
    BY <1>2 DEF GetPlatformMemoryMap, MemoryMapLibs
  <2>2. Pcd.base = \h7EC50 /\ Pcd.layers * FrameBufferSize = 3 * 1125
    BY <1>2 DEF Pcd, Pcds, FrameBufferSize
  <2> QED BY <2>1, <2>2, T1IsSound
<1>3. CASE platform = "emerald"
  <2>1. GetPlatformMemoryMap = TableEmerald
    BY <1>3 DEF GetPlatformMemoryMap, MemoryMapLibs
  <2>2. Pcd.base = \hFE0D0 /\ Pcd.layers * FrameBufferSize = 3 * 2550
    BY <1>3 DEF Pcd, Pcds, FrameBufferSize
  <2> QED BY <2>1, <2>2, EmeraldIsSound
<1>4. CASE platform = "roo"
  <2>1. GetPlatformMemoryMap = TableRoo
    BY <1>4 DEF GetPlatformMemoryMap, MemoryMapLibs
  <2>2. Pcd.base = \h7BEE0 /\ Pcd.layers * FrameBufferSize = 2 * 1035
    BY <1>4 DEF Pcd, Pcds, FrameBufferSize
  <2> QED BY <2>1, <2>2, RooIsSound
<1> QED BY <1>1, <1>2, <1>3, <1>4, PlatformsAssumption

\* Once there is a mapping, it and the HOBs are what MemoryPeim makes of the table.
Described ==
    mmu # {} => /\ hobs = RowsWhere(HasHob) /\ allocations = RowsWhere(IsAllocated)
                /\ mmu = RowsWhere(IsMapped)

LEMMA DescribedOnce == DisplayInv /\ Described /\ [Next]_displayVars => Described'
<1> SUFFICES ASSUME DisplayInv, Described, [Next]_displayVars PROVE Described'
  OBVIOUS
<1>1. CASE PrePiMain
  BY <1>1, SameTables DEF PrePiMain, MemoryPeim, Described, RowsWhere
<1>2. CASE ~ PrePiMain
  <2>1. UNCHANGED <<platform, hobs, allocations, mmu>>
    BY <1>2 DEF Next, displayVars, memory, ConsoleStep,
       SimpleFbDxeInitialize, GraphicsStep
  <2> QED BY <2>1, SameTables DEF Described, RowsWhere
<1> QED BY <1>1, <1>2

\* On every one of the platforms nothing the DXE core may hand out or run from is
\* in a reserved region, but for the overlaps two of the tables are known to have,
\* and the frames of all layers are in one region reserved for them
\* (MemoryInitPeiLib.c:70-160, PlatformMemoryMapLib.c).
THEOREM FramesStayReserved == DisplaySpec => []FramesAreKept
<1>1. Init => Described
  BY DEF Init, MemoryInit, Described
<1>2. DisplayInv /\ Described => FramesAreKept
  <2> SUFFICES ASSUME DisplayInv, Described, mmu # {} PROVE FramesAreKept
    BY DEF FramesAreKept
  <2> DEFINE row == GetPlatformMemoryMap
             frames == Pages(Pcd.base, Pcd.layers * FrameBufferSize)
  <2>1. TableIsSound(row, Pcd.base, Pcd.layers * FrameBufferSize)
    BY PlatformIsSound DEF DisplayInv, StartUp, MapTypeOK
  <2>2. /\ hobs \subseteq DOMAIN row /\ allocations \subseteq DOMAIN row /\ mmu \subseteq DOMAIN row
        /\ \A i \in allocations : IsAllocated(row[i])
        /\ \A i \in DOMAIN row : IsMapped(row[i]) => i \in mmu
    BY DEF Described, RowsWhere
  <2>3. DOMAIN row \subseteq Int
    BY <2>1 DEF TableIsSound
  <2> HIDE DEF row, frames
  <2>4. \A i, j \in hobs : i < j /\ Overlap(row[i], row[j]) => <<row[i].name, row[j].name>> \in KnownOverlaps
    BY <2>1, <2>2 DEF TableIsSound
  <2>5. ASSUME NEW i \in allocations, NEW j \in mmu, row[j].type = "Reserv", Overlap(row[i], row[j])
        PROVE  <<row[i].name, row[j].name>> \in KnownOverlaps
    <3>1. i # j
      BY <2>1, <2>2, <2>5 DEF TableIsSound
    <3>2. CASE i < j
      BY <2>1, <2>2, <2>5, <3>2 DEF TableIsSound
    <3>3. CASE j < i
      BY <2>1, <2>2, <2>5, <3>3 DEF TableIsSound, Overlap
    <3> QED BY <2>2, <2>3, <3>1, <3>2, <3>3
  <2>6. \E i \in mmu : /\ row[i].attributes = "WRITE_THROUGH_XN" /\ row[i].resource = "MEM_RES"
                       /\ Within(frames, row[i])
    BY <2>1, <2>2 DEF TableIsSound, frames
  <2>7. ASSUME NEW i \in DOMAIN row, NEW j \in Sharing[platform][i]
        PROVE  j \in DOMAIN row /\ Overlap(row[i], row[j])
    <3>1. platform \in DOMAIN MemoryMapLibs
      BY PlatformsAssumption DEF DisplayInv, StartUp, MapTypeOK, MemoryMapLibs
    <3> QED BY <2>7, <3>1 DEF Sharing, GetPlatformMemoryMap, row
  <2> QED BY <2>2, <2>4, <2>5, <2>6, <2>7 DEF FramesAreKept, row, frames
<1> QED BY <1>1, <1>2, DescribedOnce, DisplayInvariance, PTL DEF DisplaySpec
=============================================================================
