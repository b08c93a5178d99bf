----------------------------- MODULE LcdProofs -----------------------------
(***************************************************************************)
(* Theorems about Lcd, for every panel and every text: whatever was lost   *)
(* of the messages before, a view of which none was lost is on the panel,  *)
(* and the panel is set up if not too many were lost of those that do it.  *)
(***************************************************************************)
EXTENDS Lcd, TLAPS

(***************************************************************************)
(* What has been sent since boot decides how many messages can have been   *)
(* lost; two and on, once set, stay.                                       *)
(***************************************************************************)
Views == {"boot", "clear", "cursor", "write", "shown", "fault"}

CountInv ==
    /\ failures \in Nat
    /\ pc = "function set" => i \in {0, 1, 2} /\ failures <= i /\ (two \/ failures = i)
    /\ pc \in {"display control", "first clear", "set rgb"} => two \/ failures >= FunctionSets
    /\ pc \in {"first clear", "set rgb"} => on \/ failures >= 1
    /\ pc = "display control" => failures <= 3
    /\ pc = "first clear" => failures <= 4
    /\ pc = "set rgb" => failures <= 5
    /\ pc = "view" => failures <= 6
    /\ pc \in Views => failures = 0

(***************************************************************************)
(* As long as nothing of the view is lost, the cursor follows row and i,   *)
(* and what is written is on the panel, with nothing beside it.            *)
(***************************************************************************)
Written(r, c) == \/ r < row
                 \/ r = row /\ (pc = "shown" \/ (pc = "write" /\ c < i))

OnPanel == \A r \in Rows, c \in 0 .. Cols - 1 :
              ddram[r][c] = IF Written(r, c) THEN Shows(r, c) ELSE Blank

ViewInv ==
    /\ pc = "clear" => row = 0
    /\ pc = "write" => i \in 0 .. Cols
    /\ pc = "shown" => row = 1
    /\ ~lost /\ pc \in {"cursor", "write", "shown"} => OnPanel
    /\ ~lost /\ pc = "write" /\ i < Cols => cursor = [row |-> row, col |-> i]

LcdInv == TypeOK /\ CountInv /\ ViewInv

\* A message adds one loss or none.
LEMMA OneMore ==
  ASSUME NEW f \in Nat, NEW n \in Nat, f <= n, NEW g \in {f, f + 1}
  PROVE  /\ g \in Nat /\ g <= n + 1
         /\ \A k \in Nat : f >= k => g >= k
         /\ f = n /\ g # f => g = n + 1
OBVIOUS

LEMMA Comparisons ==
  \A f \in Nat : /\ f >= 1 => f # 0
                 /\ f + 1 # 0
                 /\ f >= FunctionSets => ~(f < FunctionSets) /\ ~(f + 1 < FunctionSets)
BY DEF FunctionSets

LEMMA CountInvKept == TypeOK /\ CountInv /\ [Next]_vars => CountInv'
<1> SUFFICES ASSUME TypeOK, CountInv, [Next]_vars PROVE CountInv'
  OBVIOUS
<1>0. failures \in Nat /\ FunctionSets \in Nat
  BY DEF CountInv, FunctionSets
<1>a. 0 \in Nat /\ 0 <= 6
  OBVIOUS
<1>1. ASSUME pc' \in Views, failures' = 0 PROVE CountInv'
  BY <1>1, <1>a, Zenon DEF CountInv, Views
<1>2. CASE boot
  <2>1. i' = 0 /\ failures' = 0 /\ pc' \in {"function set", "view"}
    BY <1>2 DEF boot
  <2>2. 0 \in {0, 1, 2} /\ 0 <= 0
    OBVIOUS
  <2> QED BY <1>a, <2>1, <2>2, Zenon DEF CountInv, Views
<1>3. CASE lcd_function_set
  <2>1. pc = "function set" /\ i \in {0, 1, 2} /\ (two \/ failures = i) /\ failures <= i
    BY <1>3 DEF lcd_function_set, CountInv
  <2>2. \/ two' /\ failures' = failures
        \/ two' = two /\ failures' = failures + 1
    BY <1>3, <2>1 DEF lcd_function_set, Message, Lose, Setting, panel
  <2>a. i \in {0, 1, 2} /\ failures <= i
    BY <2>1
  <2>3. i \in {0, 1, 2} /\ i \in Nat /\ failures <= i
    BY <2>a
  <2>4. failures' \in {failures, failures + 1}
    BY <2>2
  <2>5. failures' \in Nat /\ failures' <= i + 1 /\ (failures = i /\ failures' # failures => failures' = i + 1)
    BY <1>0, <2>3, <2>4, OneMore
  <2>6. two' \/ failures' = i + 1
    <3>1. failures + 1 # failures
      BY <1>0
    <3> QED BY <2>1, <2>2, <2>5, <3>1, Zenon
  <2>7. i' = (i + 1) % FunctionSets /\ pc' = IF i' = 0 THEN "display control" ELSE "function set"
    BY <1>3 DEF lcd_function_set
  <2>8. CASE i \in {0, 1}
    <3>1. (i + 1) % FunctionSets = i + 1 /\ i + 1 # 0 /\ i + 1 \in {0, 1, 2}
      BY <2>8 DEF FunctionSets
    <3>2. i' = i + 1 /\ i' # 0 /\ i' \in {0, 1, 2}
      BY <2>7, <3>1, Zenon
    <3>3. pc' = "function set"
      BY <2>7, <3>2, Zenon
    <3> QED BY <2>5, <2>6, <3>2, <3>3 DEF CountInv, Views
  <2>9. CASE i = 2
    <3>1. (i + 1) % FunctionSets = 0 /\ i + 1 = 3 /\ FunctionSets = 3
      BY <2>9 DEF FunctionSets
    <3>2. pc' = "display control"
      BY <2>7, <3>1, Zenon
    <3>3. failures' <= 3
      BY <2>5, <3>1
    <3>4. failures' = i + 1 => failures' >= FunctionSets
      BY <3>1
    <3> QED BY <2>5, <2>6, <3>2, <3>3, <3>4, Zenon DEF CountInv, Views
  <2> QED BY <2>3, <2>8, <2>9
<1>4. CASE lcd_display_control
  <2>1. pc = "display control" /\ pc' = "first clear"
    BY <1>4 DEF lcd_display_control, Goto
  <2>2. failures <= 3
    BY <2>1 DEF CountInv
  <2>3. two \/ failures >= FunctionSets
    BY <2>1 DEF CountInv
  <2>4. /\ two' = two
        /\ \/ on' /\ failures' = failures
           \/ on' = on /\ failures' = failures + 1
    BY <1>4, <2>1 DEF lcd_display_control, Message, Lose, Setting, panel
  <2>5. failures' \in {failures, failures + 1}
    BY <2>4
  <2>6. /\ failures' \in Nat /\ failures' <= 4
        /\ failures >= FunctionSets => failures' >= FunctionSets
    BY <1>0, <2>2, <2>5, OneMore
  <2>7. on' \/ failures' >= 1
    <3>1. failures + 1 >= 1
      BY <1>0
    <3> QED BY <2>4, <3>1
  <2> QED BY <2>1, <2>3, <2>4, <2>6, <2>7 DEF CountInv, Views
<1>5. CASE FirstClear
  <2>1. pc = "first clear" /\ pc' = "set rgb"
    BY <1>5 DEF FirstClear, Clear, Goto
  <2>2. failures <= 4
    BY <2>1 DEF CountInv
  <2>3. (two \/ failures >= FunctionSets) /\ (on \/ failures >= 1)
    BY <2>1 DEF CountInv
  <2>4. two' = two /\ on' = on /\ failures' \in {failures, failures + 1}
    BY <1>5, <2>1 DEF FirstClear, Clear, Message, Lose, Setting, panel, light
  <2>5. /\ failures' \in Nat /\ failures' <= 5
        /\ failures >= FunctionSets => failures' >= FunctionSets
        /\ failures >= 1 => failures' >= 1
    <3>1. failures' \in {failures, failures + 1} /\ 4 \in Nat /\ 1 \in Nat /\ 4 + 1 = 5
      BY <2>4
    <3> QED BY <1>0, <2>2, <3>1, OneMore
  <2> QED BY <2>1, <2>3, <2>4, <2>5 DEF CountInv, Views
<1>6. CASE rgb_lcd_1602_set_rgb
  <2>1. pc = "set rgb" /\ pc' = "view"
    BY <1>6 DEF rgb_lcd_1602_set_rgb, Goto
  <2>2. failures <= 5
    BY <2>1 DEF CountInv
  <2>3. failures' \in {failures, failures + 1}
    BY <1>6 DEF rgb_lcd_1602_set_rgb
  <2>4. failures' \in Nat /\ failures' <= 6
    BY <1>0, <2>2, <2>3, OneMore
  <2> QED BY <2>1, <2>4 DEF CountInv, Views
<1>7. CASE Reset \/ View
  BY <1>1, <1>7 DEF Reset, View, Goto, Views
<1>8. CASE rgb_lcd_1602_clear \/ rgb_lcd_1602_set_cursor \/ rgb_lcd_1602_write_char
  <2>1. /\ pc \in {"clear", "cursor", "write"} /\ pc' \in {"cursor", "write"}
        /\ pc \notin Setting => failures' = failures
    BY <1>8 DEF rgb_lcd_1602_clear, rgb_lcd_1602_set_cursor, rgb_lcd_1602_write_char, Clear, Message, Lose, Goto
  <2>2. failures' = failures /\ pc \in Views /\ pc' \in Views
    BY <2>1 DEF Setting, Views
  <2>3. failures = 0
    BY <2>2 DEF CountInv
  <2> QED BY <1>1, <2>2, <2>3
<1>9. CASE FirstLineDone \/ SecondLineDone \/ Fault
  <2>1. failures' = failures /\ pc \in Views /\ pc' \in Views
    BY <1>9 DEF FirstLineDone, SecondLineDone, Fault, Goto, Views
  <2>2. failures = 0
    BY <2>1 DEF CountInv
  <2> QED BY <1>1, <2>1, <2>2
<1>10. CASE NextView
  <2>1. pc = "shown" /\ pc' = "view" /\ failures' = failures
    BY <1>10 DEF NextView, Goto
  <2>2. failures' = 0
    BY <2>1 DEF CountInv, Views
  <2> QED BY <1>a, <2>1, <2>2 DEF CountInv, Views
<1>11. CASE UNCHANGED vars
  BY <1>11 DEF vars, CountInv
<1> QED BY <1>2, <1>3, <1>4, <1>5, <1>6, <1>7, <1>8, <1>9, <1>10, <1>11 DEF Next

Panels  == [Rows -> [0 .. LineLength - 1 -> Chars]]
Cursors == [row : Rows, col : 0 .. LineLength - 1]

LEMMA ConstantsType ==
  /\ Cols \in Nat /\ Cols > 0 /\ LineLength \in Nat /\ Cols <= LineLength /\ LineLength > 0
  /\ 0 \in Rows /\ 1 \in Rows /\ 0 \in 0 .. LineLength - 1
BY PanelAssumption DEF Rows

LEMMA PlacesType ==
  /\ Cleared \in Panels
  /\ \A r \in Rows : [row |-> r, col |-> 0] \in Cursors
  /\ \A at \in Cursors : Advanced(at) \in Cursors
<1>1. Cleared \in Panels
  <2>1. Blank \in Chars
    BY DEF Chars
  <2> QED BY <2>1 DEF Cleared, Panels
<1>2. \A r \in Rows : [row |-> r, col |-> 0] \in Cursors
  BY ConstantsType DEF Cursors
<1>3. ASSUME NEW at \in Cursors PROVE Advanced(at) \in Cursors
  <2>1. at.row \in {0, 1} /\ at.col \in Nat
    BY <1>3, ConstantsType DEF Cursors, Rows
  <2>2. CASE at.col + 1 < LineLength
    <3>1. at.col + 1 \in 0 .. LineLength - 1
      BY <2>1, <2>2, ConstantsType
    <3>2. Advanced(at) = [at EXCEPT !.col = at.col + 1]
      BY <2>2 DEF Advanced
    <3> QED BY <3>1, <3>2 DEF Cursors
  <2>3. CASE ~(at.col + 1 < LineLength)
    <3>1. 1 - at.row \in Rows
      BY <2>1 DEF Rows
    <3> QED BY <2>3, <3>1, ConstantsType DEF Advanced, Cursors
  <2> QED BY <2>2, <2>3
<1> QED BY <1>1, <1>2, <1>3

LEMMA LineType ==
  ASSUME TypeOK
  PROVE  /\ Len(lines[row]) \in Nat
         /\ \A n \in 1 .. Len(lines[row]) : lines[row][n] \in Chars
<1>1. lines[row] \in Texts \cup {<<>>}
  BY DEF TypeOK
<1>2. lines[row] \in Seq(Chars)
  <2>1. <<>> \in Seq(Chars)
    OBVIOUS
  <2> QED BY <1>1, <2>1, TextsAssumption, Zenon
<1> QED BY <1>2

LEMMA ViewInvKept == TypeOK /\ ViewInv /\ [Next]_vars => ViewInv'
<1> SUFFICES ASSUME TypeOK, ViewInv, [Next]_vars PROVE ViewInv'
  OBVIOUS
<1>0. row \in {0, 1} /\ ddram \in Panels /\ lost \in BOOLEAN
  BY DEF TypeOK, Panels, Rows
<1>1. CASE boot \/ lcd_function_set \/ lcd_display_control \/ FirstClear \/ rgb_lcd_1602_set_rgb
           \/ Reset \/ NextView \/ Fault
  <2>1. pc' \in {"boot", "fault", "function set", "display control", "first clear", "set rgb", "view"}
    BY <1>1 DEF boot, lcd_function_set, lcd_display_control, FirstClear, Clear, rgb_lcd_1602_set_rgb,
       Reset, NextView, Fault, Goto
  <2> QED BY <2>1 DEF ViewInv
<1>2. CASE View
  BY <1>2 DEF View, Goto, ViewInv
<1>3. CASE rgb_lcd_1602_clear
  <2>1. pc = "clear" /\ pc' = "cursor" /\ row' = row /\ row = 0
    BY <1>3 DEF rgb_lcd_1602_clear, Clear, Goto, ViewInv
  <2>2. ~lost' => ddram' = Cleared
    BY <1>3 DEF rgb_lcd_1602_clear, Clear, Message, Lose
  <2>3. ASSUME ~lost' PROVE OnPanel'
    <3>1. \A r \in Rows, c \in 0 .. Cols - 1 : ddram'[r][c] = Blank
      BY <2>2, <2>3, ConstantsType DEF Cleared
    <3>2. \A r \in Rows : \A c : ~Written(r, c)'
      BY <2>1 DEF Written, Rows
    <3> QED BY <3>1, <3>2 DEF OnPanel
  <2> QED BY <2>1, <2>3 DEF ViewInv
<1>4. CASE rgb_lcd_1602_set_cursor
  <2>1. pc = "cursor" /\ pc' = "write" /\ i' = 0 /\ UNCHANGED <<row, lines>>
    BY <1>4 DEF rgb_lcd_1602_set_cursor, Goto
  <2>2. ~lost' => ~lost /\ ddram' = ddram /\ cursor' = [row |-> row, col |-> 0]
    BY <1>4 DEF rgb_lcd_1602_set_cursor, Message, Lose
  <2>3. ASSUME ~lost' PROVE OnPanel'
    <3>1. OnPanel
      BY <2>1, <2>2, <2>3 DEF ViewInv
    <3>2. \A r \in Rows, c \in 0 .. Cols - 1 : Written(r, c)' <=> Written(r, c)
      BY <2>1 DEF Written
    <3>3. \A r, c : Shows(r, c)' = Shows(r, c)
      BY <2>1 DEF Shows
    <3> QED BY <2>2, <2>3, <3>1, <3>2, <3>3 DEF OnPanel
  <2>4. 0 \in 0 .. Cols
    BY ConstantsType
  <2> QED BY <2>1, <2>2, <2>3, <2>4 DEF ViewInv
<1>5. CASE rgb_lcd_1602_write_char
  <2>1. pc = "write" /\ pc' = "write" /\ i' = i + 1 /\ UNCHANGED <<row, lines>> /\ i < Len(lines[row]) /\ i < Cols
    BY <1>5 DEF rgb_lcd_1602_write_char, MoreOfTheLine
  <2>2. i \in Nat /\ i < Cols /\ i' \in 0 .. Cols
    <3>1. i \in 0 .. Cols /\ i < Cols /\ i' = i + 1
      BY <2>1 DEF ViewInv
    <3> QED BY <3>1, ConstantsType
  <2>3. ~lost' => /\ ~lost /\ cursor' = Advanced(cursor)
                  /\ ddram' = [ddram EXCEPT ![cursor.row][cursor.col] = lines[row][i + 1]]
    BY <1>5 DEF rgb_lcd_1602_write_char, Message, Lose
  <2>4. ASSUME ~lost' PROVE OnPanel' /\ (i' < Cols => cursor' = [row |-> row, col |-> i + 1])
    <3>1. OnPanel /\ cursor = [row |-> row, col |-> i]
      BY <2>1, <2>3, <2>4 DEF ViewInv
    <3>2. ddram' = [ddram EXCEPT ![row][i] = lines[row][i + 1]]
      BY <2>3, <2>4, <3>1
    <3>3. ASSUME NEW r \in Rows, NEW c \in 0 .. Cols - 1
          PROVE  ddram'[r][c] = IF Written(r, c)' THEN Shows(r, c)' ELSE Blank
      <4>0. c \in Nat /\ c \in 0 .. LineLength - 1 /\ Shows(r, c)' = Shows(r, c)
        BY <2>1, ConstantsType DEF Shows
      <4>1. ddram[r][c] = IF Written(r, c) THEN Shows(r, c) ELSE Blank
        BY <3>1 DEF OnPanel
      <4>2. CASE r = row /\ c = i
        <5>1. ddram'[r][c] = lines[row][i + 1]
          BY <1>0, <3>2, <4>0, <4>2 DEF Panels
        <5>2. Written(r, c)' /\ Shows(r, c) = lines[row][i + 1]
          BY <2>1, <2>2, <4>2 DEF Written, Shows
        <5> QED BY <4>0, <5>1, <5>2
      <4>3. CASE ~(r = row /\ c = i)
        <5>1. ddram'[r][c] = ddram[r][c]
          BY <1>0, <3>2, <4>0, <4>3 DEF Panels
        <5>2. r = row => (c < i + 1 <=> c < i)
          BY <2>2, <4>0, <4>3
        <5>3. Written(r, c)' <=> Written(r, c)
          BY <2>1, <5>2 DEF Written
        <5> QED BY <4>0, <4>1, <5>1, <5>3
      <4> QED BY <4>2, <4>3
    <3>4. i' < Cols => cursor' = [row |-> row, col |-> i + 1]
      <4>1. i' < Cols => i + 1 < LineLength
        BY <2>1, <2>2, ConstantsType
      <4> QED BY <2>3, <2>4, <3>1, <4>1 DEF Advanced
    <3> QED BY <3>3, <3>4 DEF OnPanel
  <2> QED BY <2>1, <2>2, <2>4 DEF ViewInv
<1>6. CASE FirstLineDone \/ SecondLineDone
  <2>1. /\ pc = "write" /\ UNCHANGED <<lines, i, ddram, lost>>
        /\ ~(i < Len(lines[row]) /\ i < Cols)
        /\ \/ row = 0 /\ row' = 1 /\ pc' = "cursor"
           \/ row = 1 /\ row' = 1 /\ pc' = "shown"
    BY <1>6 DEF FirstLineDone, SecondLineDone, MoreOfTheLine, Goto, panel
  <2>2. i \in 0 .. Cols
    BY <2>1 DEF ViewInv
  <2>3. i \in Nat
    BY <2>2, ConstantsType
  <2>4. ASSUME ~lost' PROVE OnPanel'
    <3>1. OnPanel
      BY <2>1, <2>4 DEF ViewInv
    <3>2. ASSUME NEW r \in Rows, NEW c \in 0 .. Cols - 1
          PROVE  ddram'[r][c] = IF Written(r, c)' THEN Shows(r, c)' ELSE Blank
      <4>0. c \in Nat /\ c < Cols /\ r \in {0, 1} /\ Shows(r, c)' = Shows(r, c)
        BY <2>1, ConstantsType DEF Shows, Rows
      <4>1. ddram[r][c] = IF Written(r, c) THEN Shows(r, c) ELSE Blank
        BY <3>1 DEF OnPanel
      <4>2. Written(r, c)' <=> r < row \/ r = row
        BY <1>0, <2>1, <4>0 DEF Written
      <4>3. CASE r = row /\ ~(c < i)
        <5>1. ~(i < Len(lines[row]))
          BY <2>1, <2>3, <4>0, <4>3, ConstantsType
        <5>2. ~(c < Len(lines[row]))
          BY <2>3, <4>0, <4>3, <5>1, LineType
        <5>3. Shows(r, c) = Blank
          BY <4>3, <5>2 DEF Shows
        <5> QED BY <2>1, <4>0, <4>1, <5>3
      <4>4. CASE r # row \/ c < i
        <5>1. Written(r, c)' <=> Written(r, c)
          BY <2>1, <4>2, <4>4 DEF Written
        <5> QED BY <2>1, <4>0, <4>1, <5>1
      <4> QED BY <4>3, <4>4
    <3> QED BY <3>2 DEF OnPanel
  <2> QED BY <2>1, <2>4 DEF ViewInv
<1>7. CASE UNCHANGED vars
  BY <1>7 DEF vars, ViewInv, OnPanel, Written, Shows
<1> QED BY <1>1, <1>2, <1>3, <1>4, <1>5, <1>6, <1>7 DEF Next

\* Losses of a set-up are never more than its messages.
LEMMA FewLosses ==
  /\ \A f \in Nat : f <= 3 \/ f <= 4 \/ f <= 5 \/ f <= 6 => f \in 0 .. MaxFailures
  /\ \A f \in Nat, k \in {0, 1, 2} : f <= k => f \in 0 .. MaxFailures
BY DEF MaxFailures

LEMMA TypeKept == TypeOK /\ ViewInv /\ CountInv' /\ [Next]_vars => TypeOK'
<1> SUFFICES ASSUME TypeOK, ViewInv, CountInv', [Next]_vars PROVE TypeOK'
  OBVIOUS
<1> DEFINE Lines  == [Rows -> Texts \cup {<<>>}]
           States == {"boot", "function set", "display control", "first clear", "set rgb",
                      "view", "clear", "cursor", "write", "shown", "fault"}
           Counts == 0 .. Cols \cup 0 .. FunctionSets - 1
           Losses == 0 .. MaxFailures
           Places == ddram' \in Panels /\ cursor' \in Cursors
           Light  == on' \in BOOLEAN /\ two' \in BOOLEAN /\ colour' \in 0 .. 3
<1>0. /\ pc \in States /\ dev \in BOOLEAN /\ lines \in Lines /\ row \in Rows /\ i \in Counts
      /\ ddram \in Panels /\ cursor \in Cursors
      /\ on \in BOOLEAN /\ two \in BOOLEAN /\ colour \in 0 .. 3 /\ lost \in BOOLEAN /\ failures \in Losses
  BY DEF TypeOK, Panels, Cursors
<1>1. 0 \in Counts /\ 0 \in Rows /\ 1 \in Rows /\ 0 \in Losses /\ 3 \in 0 .. 3
  BY ConstantsType DEF MaxFailures, FunctionSets
<1>2. [r \in Rows |-> <<>>] \in Lines
  OBVIOUS
<1>3. failures' \in Losses
  <2>1. CASE UNCHANGED failures
    BY <1>0, <2>1
  <2>2. CASE pc' \in Views
    BY <1>1, <2>2 DEF CountInv
  <2>3. CASE pc' = "function set"
    BY <2>3, FewLosses DEF CountInv
  <2>5. CASE pc' \in {"display control", "first clear", "set rgb", "view"}
    BY <2>5, FewLosses DEF CountInv
  <2>4. pc' \in States
    BY <1>0 DEF Next, boot, lcd_function_set, lcd_display_control, FirstClear, rgb_lcd_1602_set_rgb, Reset,
       View, rgb_lcd_1602_clear, rgb_lcd_1602_set_cursor, rgb_lcd_1602_write_char, FirstLineDone,
       SecondLineDone, NextView, Fault, Clear, Goto, vars
  <2> QED BY <2>2, <2>3, <2>4, <2>5 DEF Views
<1>4. ASSUME dev' \in BOOLEAN, pc' \in States, lines' \in Lines, row' \in Rows, i' \in Counts,
             lost' \in BOOLEAN, Places, Light
      PROVE  TypeOK'
  <2> HIDE DEF Losses, Lines, Counts
  <2> QED BY <1>3, <1>4, Zenon DEF TypeOK, Panels, Cursors, Losses, Lines, Counts
<1> HIDE DEF Lines, Counts, Losses
<1>5. CASE boot
  BY <1>0, <1>1, <1>4, <1>5 DEF boot, panel
<1>6. CASE lcd_function_set
  <2>1. i' \in Counts
    <3>0. i \in Int
      <4>1. \A k \in 0 .. Cols \cup 0 .. FunctionSets - 1 : k \in Int
        BY ConstantsType DEF FunctionSets
      <4> QED BY <1>0, <4>1, Zenon DEF Counts
    <3>1. i \in Int /\ i' = (i + 1) % 3
      BY <1>6, <3>0 DEF lcd_function_set, FunctionSets
    <3>2. (i + 1) % 3 \in 0 .. 2
      BY <3>1
    <3> QED BY <3>1, <3>2 DEF Counts, FunctionSets
  <2>2. Places /\ Light /\ lost' \in BOOLEAN
    BY <1>0, <1>6 DEF lcd_function_set, Message, Lose, panel
  <2>3. pc' \in States /\ UNCHANGED <<dev, lines, row>>
    BY <1>6, Zenon DEF lcd_function_set
  <2> QED BY <1>0, <1>4, <2>1, <2>2, <2>3
<1>7. CASE lcd_display_control
  <2>1. Places /\ Light /\ lost' \in BOOLEAN
    BY <1>0, <1>7 DEF lcd_display_control, Message, Lose, panel
  <2> QED BY <1>0, <1>4, <1>7, <2>1 DEF lcd_display_control, Goto
<1>8. ASSUME NEW from, NEW to \in States, Clear(from, to) PROVE TypeOK'
  <2>1. Places
    BY <1>0, <1>1, <1>8, PlacesType DEF Clear, Message, Lose, panel
  <2>2. Light /\ lost' \in BOOLEAN
    BY <1>0, <1>8 DEF Clear, Message, Lose, panel, light
  <2> QED BY <1>0, <1>4, <1>8, <2>1, <2>2 DEF Clear, Goto
<1>9. CASE rgb_lcd_1602_set_rgb
  <2>1. colour' \in 0 .. 3
    <3>1. colour' = 3 \/ \E n \in 0 .. 2 : colour' = IF n > colour THEN n ELSE colour
      BY <1>9 DEF rgb_lcd_1602_set_rgb
    <3>2. \A n \in 0 .. 2 : n \in 0 .. 3
      OBVIOUS
    <3> QED BY <1>0, <1>1, <3>1, <3>2, Zenon
  <2> QED BY <1>0, <1>4, <1>9, <2>1 DEF rgb_lcd_1602_set_rgb, Goto
<1>10. CASE Reset
  BY <1>0, <1>1, <1>2, <1>4, <1>10 DEF Reset, panel
<1>11. CASE View
  <2>1. lines' \in Lines
    BY <1>11 DEF View, Lines
  <2> QED BY <1>0, <1>1, <1>4, <1>11, <2>1 DEF View, Goto, panel
<1>12. CASE rgb_lcd_1602_set_cursor
  <2>1. Places
    BY <1>0, <1>12, PlacesType DEF rgb_lcd_1602_set_cursor, Message, Lose, panel
  <2>2. Light /\ lost' \in BOOLEAN
    BY <1>0, <1>12 DEF rgb_lcd_1602_set_cursor, Message, Lose, panel, light
  <2> QED BY <1>0, <1>1, <1>4, <1>12, <2>1, <2>2 DEF rgb_lcd_1602_set_cursor, Goto
<1>13. CASE rgb_lcd_1602_write_char
  <2>1. i' \in Counts
    <3>1. i \in 0 .. Cols /\ i < Cols /\ i' = i + 1
      BY <1>13 DEF rgb_lcd_1602_write_char, MoreOfTheLine, ViewInv
    <3> QED BY <3>1, ConstantsType DEF Counts
  <2>2. lines[row][i + 1] \in Chars
    <3>1. i \in 0 .. Cols /\ i < Len(lines[row])
      BY <1>13 DEF rgb_lcd_1602_write_char, MoreOfTheLine, ViewInv
    <3> QED BY <3>1, LineType, ConstantsType
  <2>3. Places
    <3>1. cursor.row \in Rows /\ cursor.col \in 0 .. LineLength - 1
      BY <1>0 DEF Cursors
    <3>2. [ddram EXCEPT ![cursor.row][cursor.col] = lines[row][i + 1]] \in Panels
      BY <1>0, <2>2, <3>1 DEF Panels
    <3> QED BY <1>0, <1>13, <3>2, PlacesType DEF rgb_lcd_1602_write_char, Message, Lose, panel
  <2>4. Light /\ lost' \in BOOLEAN
    BY <1>0, <1>13 DEF rgb_lcd_1602_write_char, Message, Lose, panel, light
  <2> QED BY <1>0, <1>4, <1>13, <2>1, <2>3, <2>4 DEF rgb_lcd_1602_write_char
<1>14. CASE FirstLineDone \/ SecondLineDone \/ NextView \/ Fault
  BY <1>0, <1>1, <1>4, <1>14 DEF Fault, FirstLineDone, SecondLineDone, NextView, Goto, panel
<1>15. CASE UNCHANGED vars
  BY <1>0, <1>4, <1>15 DEF vars
<1> QED BY <1>5, <1>6, <1>7, <1>8, <1>9, <1>10, <1>11, <1>12, <1>13, <1>14, <1>15
        DEF Next, FirstClear, rgb_lcd_1602_clear

LEMMA LcdInvAlways == Spec => []LcdInv
<1>1. Init => LcdInv
  <2> SUFFICES ASSUME Init PROVE LcdInv
    OBVIOUS
  <2>1. /\ 0 \in 0 .. Cols \cup 0 .. FunctionSets - 1 /\ 0 \in 0 .. MaxFailures /\ 0 \in 0 .. 3
        /\ 0 \in Rows /\ 0 \in Nat
    BY ConstantsType DEF MaxFailures
  <2>2. [r \in Rows |-> <<>>] \in [Rows -> Texts \cup {<<>>}]
    OBVIOUS
  <2>3. Cleared \in Panels /\ [row |-> 0, col |-> 0] \in Cursors
    BY <2>1, PlacesType
  <2>4. TypeOK
    BY <2>1, <2>2, <2>3, Zenon DEF Init, TypeOK, Panels, Cursors
  <2>5. CountInv
    BY <2>1 DEF Init, CountInv
  <2>6. ViewInv
    BY DEF Init, ViewInv
  <2> QED BY <2>4, <2>5, <2>6 DEF LcdInv
<1>2. LcdInv /\ [Next]_vars => LcdInv'
  BY CountInvKept, ViewInvKept, TypeKept DEF LcdInv
<1> QED BY <1>1, <1>2, PTL DEF Spec

\* The driver writes no place beyond the panel's, and boot no more than its messages.
THEOREM LcdTyping == Spec => []TypeOK
<1>1. LcdInv => TypeOK
  BY DEF LcdInv
<1> QED BY <1>1, LcdInvAlways, PTL

\* A view of which nothing was lost is on the panel, whatever was before.
THEOREM OneViewHeals == Spec => []ErrorsLastOneView
<1>1. LcdInv => ErrorsLastOneView
  <2> SUFFICES ASSUME LcdInv, pc = "shown", ~lost, NEW r \in Rows, NEW c \in 0 .. Cols - 1
               PROVE  ddram[r][c] = Shows(r, c)
    BY DEF ErrorsLastOneView
  <2>1. OnPanel /\ row = 1
    BY DEF LcdInv, ViewInv
  <2>2. Written(r, c)
    BY <2>1 DEF Written, Rows
  <2> QED BY <2>1, <2>2 DEF OnPanel
<1> QED BY <1>1, LcdInvAlways, PTL

\* The function set is sent often enough to lose two messages; nothing else is.
THEOREM SetUpIsSafe == Spec => SetUpSurvivesLosses
<1>1. LcdInv /\ [Next]_vars =>
        [pc = "set rgb" /\ pc' = "view" =>
           /\ failures' < FunctionSets => two'
           /\ failures' = 0 => on' /\ colour' = 3]_vars
  <2> SUFFICES ASSUME LcdInv, [Next]_vars, pc = "set rgb", pc' = "view"
               PROVE  /\ failures' < FunctionSets => two'
                      /\ failures' = 0 => on' /\ colour' = 3
    OBVIOUS
  <2>1. rgb_lcd_1602_set_rgb
    BY DEF Next, boot, lcd_function_set, lcd_display_control, FirstClear, Reset, View, rgb_lcd_1602_clear,
       rgb_lcd_1602_set_cursor, rgb_lcd_1602_write_char, FirstLineDone, SecondLineDone, NextView, Fault,
       Clear, Goto, vars
  <2>2. /\ two' = two /\ on' = on
        /\ (colour' = 3 /\ failures' = failures) \/ failures' = failures + 1
    BY <2>1 DEF rgb_lcd_1602_set_rgb
  <2>3. /\ two \/ failures >= FunctionSets
        /\ on \/ failures >= 1
    BY DEF LcdInv, CountInv
  <2>4. failures \in Nat /\ FunctionSets \in Nat
    BY DEF LcdInv, CountInv, FunctionSets
  <2>5. /\ failures >= 1 => failures # 0
        /\ failures + 1 # 0
        /\ failures >= FunctionSets => ~(failures < FunctionSets) /\ ~(failures + 1 < FunctionSets)
    BY <2>4, Comparisons, Zenon
  <2> QED BY <2>2, <2>3, <2>5, Zenon
<1> QED BY <1>1, LcdInvAlways, PTL DEF Spec, SetUpSurvivesLosses


=============================================================================
