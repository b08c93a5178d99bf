--------------------------------- MODULE Lcd ---------------------------------
(***************************************************************************)
(* The screen thread writing to the panel: boot, lcd_show and              *)
(* lcd_write_string of screen.c over the driver rgb_lcd.c.  Each message   *)
(* of the driver may be lost on the bus: the driver returns the error, and *)
(* no caller looks at it.  The board may be reset at any moment, with the  *)
(* panel left as it is.                                                    *)
(*                                                                         *)
(* Left out: the pauses the panel needs between messages, which the code   *)
(* grants, and rgb_init, which sends nothing to a light at address 0x2D.   *)
(***************************************************************************)
EXTENDS Integers, Sequences

CONSTANTS Cols,       \* characters of a line one sees: 16
          LineLength, \* characters of a line the panel stores: 40
          Texts,      \* the lines the views may show
          Blank       \* the character of a cleared place

Rows == {0, 1}

ASSUME PanelAssumption == Cols \in Nat \ {0} /\ LineLength \in Nat /\ LineLength >= Cols

VARIABLES
    pc,       \* the message the screen thread sends next
    dev,      \* whether lcd.dev was set: boot found the bus ready
    lines,    \* line1 and line2 of the view
    row,      \* the line being written
    i,        \* how much of it is written
    ddram,    \* the characters the panel stores (external)
    cursor,   \* where it puts the next one (external)
    on,       \* whether it shows them (external)
    two,      \* whether it has two lines, not one (external)
    colour,   \* how many of the registers red, green, blue are set (external)
    lost,     \* history: a message of this view was lost
    failures  \* history: messages lost of those that set the panel up

vars == <<pc, dev, lines, row, i, ddram, cursor, on, two, colour, lost, failures>>

panel == <<ddram, cursor, on, two, colour>>
light == <<on, two, colour>>

Chars == {Blank} \cup UNION {{t[n] : n \in 1 .. Len(t)} : t \in Texts}

ASSUME TextsAssumption == Texts \subseteq Seq(Chars)

FunctionSets == 3    \* lcd_function_set is sent so often
MaxFailures  == 6    \* bound of the count: rgb_lcd_1602_init and set_rgb send no more

TypeOK ==
    /\ pc \in {"boot", "function set", "display control", "first clear", "set rgb", "view",
              "clear", "cursor", "write", "shown",
              "fault"}
    /\ dev \in BOOLEAN
    /\ lines \in [Rows -> Texts \cup {<<>>}]
    /\ row \in Rows
    /\ i \in 0 .. Cols \cup 0 .. FunctionSets - 1
    /\ ddram \in [Rows -> [0 .. LineLength - 1 -> Chars]]
    /\ cursor \in [row : Rows, col : 0 .. LineLength - 1]
    /\ on \in BOOLEAN /\ two \in BOOLEAN /\ colour \in 0 .. 3
    /\ lost \in BOOLEAN /\ failures \in 0 .. MaxFailures

Cleared == [r \in Rows |-> [c \in 0 .. LineLength - 1 |-> Blank]]

Init ==
    /\ pc = "boot" /\ dev = FALSE
    /\ lines = [r \in Rows |-> <<>>] /\ row = 0 /\ i = 0
    /\ ddram = Cleared /\ cursor = [row |-> 0, col |-> 0]
    /\ on = FALSE /\ two = FALSE /\ colour = 0
    /\ lost = FALSE /\ failures = 0

-----------------------------------------------------------------------------
(***************************************************************************)
(* External: a message to a device arrives and has its effect, or it is    *)
(* lost.                                                                   *)
(***************************************************************************)
Setting == {"function set", "display control", "first clear"}

Lose == /\ UNCHANGED panel
        /\ lost' = TRUE
        /\ failures' = IF pc \in Setting THEN failures + 1 ELSE failures

Message(Effect) == /\ dev
                   /\ \/ Effect /\ UNCHANGED <<lost, failures>>
                      \/ Lose

Goto(from, to) == pc = from /\ pc' = to

\* boot ends early if the bus is not ready, and the views follow all the same.
boot ==
    /\ pc = "boot"
    /\ \/ dev' = TRUE /\ pc' = "function set"
       \/ dev' = FALSE /\ pc' = "view"
    /\ i' = 0 /\ failures' = 0
    /\ UNCHANGED <<lines, row, panel, lost>>

\* Mutant: once has to do.
lcd_function_set_once ==
    /\ pc = "function set"
    /\ Message(two' = TRUE /\ UNCHANGED <<ddram, cursor, on, colour>>)
    /\ pc' = "display control" /\ UNCHANGED i
    /\ UNCHANGED <<dev, lines, row>>

lcd_function_set ==
    /\ pc = "function set"
    /\ Message(two' = TRUE /\ UNCHANGED <<ddram, cursor, on, colour>>)
    /\ i' = (i + 1) % FunctionSets
    /\ pc' = IF i' = 0 THEN "display control" ELSE "function set"
    /\ UNCHANGED <<dev, lines, row>>

lcd_display_control ==
    /\ Goto("display control", "first clear")
    /\ Message(on' = TRUE /\ UNCHANGED <<ddram, cursor, two, colour>>)
    /\ UNCHANGED <<dev, lines, row, i>>

Clear(from, to) ==
    /\ Goto(from, to)
    /\ Message(ddram' = Cleared /\ cursor' = [row |-> 0, col |-> 0] /\ UNCHANGED light)
    /\ UNCHANGED <<dev, lines, row, i>>

FirstClear == Clear("first clear", "set rgb")

\* The first of the three registers that cannot be written ends the function.
rgb_lcd_1602_set_rgb ==
    /\ Goto("set rgb", "view")
    /\ \/ colour' = 3 /\ UNCHANGED failures
       \/ /\ \E n \in 0 .. 2 : colour' = IF n > colour THEN n ELSE colour
          /\ failures' = failures + 1
    /\ UNCHANGED <<dev, lines, row, i, ddram, cursor, on, two, lost>>

\* A view (the splash of boot is the first) calls lcd_show with two texts.
View ==
    /\ Goto("view", "clear")
    /\ lines' \in [Rows -> Texts]
    /\ lost' = FALSE /\ failures' = 0
    /\ row' = 0
    /\ UNCHANGED <<dev, i, panel>>

\* The first message of a view after a boot that ended early: the driver's device is
\* NULL, the processor faults, and nothing runs until it is reset.
Fault ==
    /\ ~dev /\ Goto("clear", "fault")
    /\ UNCHANGED <<dev, lines, row, i, panel, lost, failures>>

\* Mutant: a view is written over the one before it.
HomeOnly ==
    /\ Goto("clear", "cursor")
    /\ Message(cursor' = [row |-> 0, col |-> 0] /\ UNCHANGED <<ddram, light>>)
    /\ UNCHANGED <<dev, lines, row, i>>

rgb_lcd_1602_clear == Clear("clear", "cursor")

rgb_lcd_1602_set_cursor ==
    /\ Goto("cursor", "write")
    /\ Message(cursor' = [row |-> row, col |-> 0] /\ UNCHANGED <<ddram, light>>)
    /\ i' = 0
    /\ UNCHANGED <<dev, lines, row>>

\* External: after the last character of a line comes the first of the other.
Advanced(at) == IF at.col + 1 < LineLength THEN [at EXCEPT !.col = @ + 1]
                                           ELSE [row |-> 1 - at.row, col |-> 0]

\* Mutant: the text is not cut to the width of the panel.
MoreOfTheLineUncut == i < Len(lines[row])

MoreOfTheLine == i < Len(lines[row]) /\ i < Cols

rgb_lcd_1602_write_char ==
    /\ pc = "write" /\ MoreOfTheLine
    /\ Message(/\ ddram' = [ddram EXCEPT ![cursor.row][cursor.col] = lines[row][i + 1]]
               /\ cursor' = Advanced(cursor)
               /\ UNCHANGED light)
    /\ i' = i + 1
    /\ UNCHANGED <<pc, dev, lines, row>>

FirstLineDone ==
    /\ row = 0 /\ ~MoreOfTheLine
    /\ Goto("write", "cursor")
    /\ row' = 1
    /\ UNCHANGED <<dev, lines, i, panel, lost, failures>>

SecondLineDone ==
    /\ row = 1 /\ ~MoreOfTheLine
    /\ Goto("write", "shown")
    /\ UNCHANGED <<dev, lines, row, i, panel, lost, failures>>

\* k_sleep between two views
NextView == Goto("shown", "view") /\ UNCHANGED <<dev, lines, row, i, panel, lost, failures>>

\* External: the board starts again, the panel keeps what it has.
Reset == /\ pc # "boot" /\ pc' = "boot"
         /\ dev' = FALSE /\ lines' = [r \in Rows |-> <<>>] /\ row' = 0 /\ i' = 0
         /\ lost' = FALSE /\ failures' = 0
         /\ UNCHANGED panel

Next == \/ boot \/ lcd_function_set \/ lcd_display_control \/ FirstClear
        \/ rgb_lcd_1602_set_rgb \/ Reset \/ View \/ Fault \/ rgb_lcd_1602_clear
        \/ rgb_lcd_1602_set_cursor \/ rgb_lcd_1602_write_char
        \/ FirstLineDone \/ SecondLineDone \/ NextView

Spec == Init /\ [][Next]_vars

-----------------------------------------------------------------------------
Shows(r, c) == IF c < Len(lines[r]) THEN lines[r][c + 1] ELSE Blank

\* A view of which no message was lost is on the panel from the first column to
\* the last, whatever was lost of the views before it, wherever they left the cursor
\* and even if a reset cut one short: an error lasts for one view only (clear and
\* the two set_cursor).
ErrorsLastOneView ==
    pc = "shown" /\ ~lost =>
        \A r \in Rows, c \in 0 .. Cols - 1 : ddram[r][c] = Shows(r, c)

\* After rgb_lcd_1602_init and set_rgb the panel has its two lines if no more than two
\* messages were lost, whichever they were; it is on and has its colour only if none
\* was, because each of those commands is sent once and no view sends it again.
SetUpSurvivesLosses ==
    [][pc = "set rgb" /\ pc' = "view" =>
           /\ failures' < FunctionSets => two'
           /\ failures' = 0 => on' /\ colour' = 3]_vars
=============================================================================
