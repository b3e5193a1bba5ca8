------------------------------- MODULE SimpleFb -------------------------------
(***************************************************************************)
(* The graphics output: DisplayBlt on a small screen.  A Blt draws at      *)
(* TPL_NOTIFY and then, unless it was a BufferToVideo, walks its           *)
(* destination at the caller's task priority and sets the alpha byte of    *)
(* each pixel: a few pixels at a time are loaded, changed and stored.  So  *)
(* the Blt of an application may be interrupted in that walk by a callback *)
(* that draws too, and whose own Blt runs to its end first.  In a DEBUG    *)
(* build the consoles of FbConsole paint on the same screen, at any        *)
(* priority: a glyph, which is opaque, or the zeros of a cleared line,     *)
(* which are not.                                                          *)
(*                                                                         *)
(* A pixel has a colour and is opaque or not.  Pixels are numbered row by  *)
(* row, as in memory; what a walk does past the end of the frame buffer is *)
(* not modelled.  The Blt buffer of a caller has one colour, and its       *)
(* reserved bytes are zero.  FrameBufferBlt is not under src: it refuses a *)
(* rectangle that is not on the screen and draws nothing then.             *)
(***************************************************************************)
EXTENDS Integers, FiniteSets

CONSTANTS Width, Height,  \* bound: the size of the screen in pixels
          Colours,        \* the colours a caller draws with
          MaxDraws        \* bound: how many Blts and prints are made

ASSUME SizeAssumption == Width \in Nat \ {0} /\ Height \in Nat \ {0}

VARIABLES fb,     \* the pixels of the frame buffer
          blt,    \* the walk each level is in
          drawn,  \* history: the colour last drawn on each pixel
          raced,  \* history: pixels drawn while a walk had them in registers
          owed,   \* history: the pixels that should be opaque
          draws   \* bound: the Blts and prints made so far

graphics == <<fb, blt, drawn, raced, owed, draws>>

Pixels == 0 .. Width * Height - 1
Black == "black"
NoWalk == [step |-> "none", row |-> 0, group |-> 0, loaded |-> <<>>, dest |-> <<>>]

Rectangles == [x : 0 .. Width - 1, y : 0 .. Height - 1, w : 1 .. Width, h : 1 .. Height]
OnScreen(r) == r.x + r.w <= Width /\ r.y + r.h <= Height
Offsets(r) == (0 .. r.w - 1) \X (0 .. r.h - 1)
Pixel(r, i, j) == (r.y + j) * Width + r.x + i
PixelsOf(r) == {Pixel(r, o[1], o[2]) : o \in Offsets(r)}

GraphicsInit ==
    /\ fb = [p \in Pixels |-> [rgb |-> Black, opaque |-> FALSE]]
    /\ blt = [l \in {"app", "callback"} |-> NoWalk]
    /\ drawn = [p \in Pixels |-> Black]
    /\ raced = {} /\ owed = {} /\ draws = 0
-----------------------------------------------------------------------------
\* Mutant: the walk is of pairs only, and an odd last pixel is not in one.
GroupOfPairs(r, j, k) ==
    {Pixel(r, i, j) : i \in {i \in {2 * k, 2 * k + 1} : 2 * k + 1 < r.w}} \cap Pixels
\* The groups a row is walked in: pairs, and what is left of an odd width.
Group(r, j, k) == {Pixel(r, i, j) : i \in {2 * k, 2 * k + 1} \cap 0 .. r.w - 1} \cap Pixels
LastGroup(r) == (r.w - 1) \div 2

\* The pixels of the group a walk is at, which registers hold from load to store.
InWalk(l) == Group(blt[l].dest, blt[l].row, blt[l].group)
InRegisters(l) == IF blt[l].step = "store" THEN InWalk(l) ELSE {}

\* An application goes on only when no callback is in a Blt.
MayRun(l) == l = "app" => blt["callback"] = NoWalk

\* What FrameBufferBlt or a console has drawn: new is the pixels it wrote, as they
\* now are, and opaque those of them that its driver answers for.
Draws(new, opaque) ==
    LET held == InRegisters("app") \cup InRegisters("callback")
    IN  /\ fb' = [p \in Pixels |-> IF p \in DOMAIN new THEN new[p] ELSE fb[p]]
        /\ drawn' = [p \in Pixels |-> IF p \in DOMAIN new THEN new[p].rgb ELSE drawn[p]]
        /\ raced' = (raced \ DOMAIN new) \cup (DOMAIN new \cap held)
        /\ owed' = (owed \ DOMAIN new) \cup opaque

DrawsNothing == UNCHANGED <<fb, drawn, raced, owed>>

Walk(dest) == [NoWalk EXCEPT !.step = "load", !.dest = dest]

VideoFill(l, c, r) ==
    /\ IF OnScreen(r)
         THEN Draws([p \in PixelsOf(r) |-> [rgb |-> c, opaque |-> FALSE]], PixelsOf(r))
         ELSE DrawsNothing
    /\ blt' = [blt EXCEPT ![l] = Walk(r)]

\* The driver sets the alpha bytes of the buffer first: those of its first rows
\* and columns, wherever the source begins.
BufferToVideo(l, c, sx, sy, r) ==
    LET FromCorner == {Pixel(r, o[1], o[2]) :
                          o \in {o \in Offsets(r) : sx + o[1] < r.w /\ sy + o[2] < r.h}}
    IN  /\ IF OnScreen(r)
             THEN Draws([p \in PixelsOf(r) |-> [rgb |-> c, opaque |-> p \in FromCorner]],
                        FromCorner)
             ELSE DrawsNothing
        /\ UNCHANGED blt

VideoToVideo(l, sx, sy, r) ==
    LET source == [r EXCEPT !.x = sx, !.y = sy]
        From(p) == CHOOSE q \in PixelsOf(source) :
                      \E o \in Offsets(r) : p = Pixel(r, o[1], o[2]) /\ q = Pixel(source, o[1], o[2])
    IN  /\ IF OnScreen(r) /\ OnScreen(source)
             THEN Draws([p \in PixelsOf(r) |-> fb[From(p)]], PixelsOf(r))
             ELSE DrawsNothing
        /\ blt' = [blt EXCEPT ![l] = Walk(r)]

\* Nothing is drawn, yet the walk goes over the screen: the destination is a
\* place in the caller's buffer.
VideoToBltBuffer(l, r) ==
    /\ DrawsNothing
    /\ blt' = [blt EXCEPT ![l] = Walk(r)]

DisplayBlt(l) ==
    /\ MayRun(l) /\ blt[l] = NoWalk
    /\ draws < MaxDraws /\ draws' = draws + 1
    /\ \E r \in Rectangles :
          \/ \E c \in Colours : VideoFill(l, c, r)
          \/ \E c \in Colours, sx \in 0 .. Width - 1, sy \in 0 .. Height - 1 :
                BufferToVideo(l, c, sx, sy, r)
          \/ \E sx \in 0 .. Width - 1, sy \in 0 .. Height - 1 : VideoToVideo(l, sx, sy, r)
          \/ VideoToBltBuffer(l, r)

\* FbConPutCharWithFactor paints a cell of the font or clears a line, of which the
\* pixels on the screen are taken.  Within the critical section of a Blt no handler
\* runs; in a walk one of a higher priority may, and it prints.
Prints ==
    /\ draws < MaxDraws /\ draws' = draws + 1
    /\ \E r \in Rectangles :
          /\ OnScreen(r)
          /\ \/ \E c \in Colours \cup {Black} :
                   Draws([p \in PixelsOf(r) |-> [rgb |-> c, opaque |-> TRUE]], PixelsOf(r))
             \/ /\ r.w = Width
                /\ Draws([p \in PixelsOf(r) |-> [rgb |-> Black, opaque |-> FALSE]], {})
    /\ UNCHANGED blt
-----------------------------------------------------------------------------
\* Mutant: the whole destination is loaded before the first store.
LoadAhead(l) ==
    /\ MayRun(l) /\ blt[l].step = "load"
    /\ blt' = [blt EXCEPT ![l] = [@ EXCEPT !.step = "store",
                   !.loaded = [p \in PixelsOf(blt[l].dest) \cap Pixels |-> fb[p]]]]
    /\ UNCHANGED <<fb, drawn, raced, owed, draws>>

Load(l) ==
    /\ MayRun(l) /\ blt[l].step = "load"
    /\ blt' = [blt EXCEPT ![l] = [@ EXCEPT !.step = "store",
                                          !.loaded = [p \in InWalk(l) |-> fb[p]]]]
    /\ UNCHANGED <<fb, drawn, raced, owed, draws>>

Onward(w) == IF w.group < LastGroup(w.dest)
               THEN [w EXCEPT !.step = "load", !.group = @ + 1, !.loaded = <<>>]
               ELSE IF w.row < w.dest.h - 1
                      THEN [w EXCEPT !.step = "load", !.row = @ + 1, !.group = 0,
                                     !.loaded = <<>>]
                      ELSE NoWalk

Store(l) ==
    /\ MayRun(l) /\ blt[l].step = "store"
    /\ fb' = [p \in Pixels |-> IF p \in DOMAIN blt[l].loaded
                                 THEN [blt[l].loaded[p] EXCEPT !.opaque = TRUE] ELSE fb[p]]
    /\ blt' = [blt EXCEPT ![l] = Onward(@)]
    /\ UNCHANGED <<drawn, raced, owed, draws>>

GraphicsNext == Prints \/ \E l \in {"app", "callback"} : DisplayBlt(l) \/ Load(l) \/ Store(l)
-----------------------------------------------------------------------------
GraphicsTypeOK ==
    /\ fb \in [Pixels -> [rgb : Colours \cup {Black}, opaque : BOOLEAN]]
    /\ drawn \in [Pixels -> Colours \cup {Black}]
    /\ raced \subseteq Pixels /\ owed \subseteq Pixels
    /\ \A l \in DOMAIN blt : blt[l] = NoWalk \/ blt[l].dest \in Rectangles

AtRest == \A l \in DOMAIN blt : blt[l] = NoWalk

\* When no Blt is under way, every pixel drawn last by one that was accepted, or by
\* a glyph, is opaque, whoever drew it and whatever interrupted the walk; only what
\* a BufferToVideo takes from outside the corner of its buffer is left as it was.
DrawnIsOpaque == AtRest => \A p \in owed : fb[p].opaque

\* The screen shows what was drawn last, but for one case: a pixel drawn, by a
\* callback's Blt or a console, in the very group an interrupted walk was at may
\* show again what was there before.
ShowsLastDrawn == \A p \in Pixels : fb[p].rgb # drawn[p] => p \in raced

\* A Blt is an atomic write to the frame buffer: no timer based event comes in
\* while it is under way, so that between Blts the screen shows what was drawn
\* last on every pixel (SimpleFbDxe.c:141-145).
BltIsAtomic == AtRest => \A p \in Pixels : fb[p].rgb = drawn[p]
=============================================================================
