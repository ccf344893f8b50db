------------------------------- MODULE Pcd8544 -------------------------------
(***************************************************************************)
(* projects/lcdtest-3310/pcd8544.c as its Makefile builds it, with         *)
(* PCD8544_FIX_YALIGN: the driver of a display whose controller is larger  *)
(* than the screen.  The driver keeps a cursor of its own, and moves the   *)
(* controller's when a row of the screen is full.                          *)
(*                                                                         *)
(* The controller's address goes right with each byte and, at its last     *)
(* column, to the next row.  The screen shows its columns from 0 and its   *)
(* rows from 1.  All drawing is a call of lcd_cursor() and a run of bytes. *)
(***************************************************************************)
EXTENDS Naturals

CONSTANTS LCD_X_RES, LCD_ROWS,   \* columns and rows of the screen: 84 and 6
          CY_MODULUS,            \* values of cy, an unsigned char: 256
          X_RES, Y_ROWS,         \* columns and rows of the controller
          Run                    \* bytes of a character, a glyph or a text

VARIABLES cx, cy,         \* the driver's cursor
          x_addr, y_addr, \* the controller's
          left, ink,      \* the bytes of this run still to be sent: how many, set or clear
          clear_row,      \* lcd_clear(): i, and Outside of it
          inked           \* the cells of the screen that are not blank

cursor == <<cx, cy, x_addr, y_addr>>
run == <<left, ink>>
vars == <<cursor, run, clear_row, inked>>

Outside == LCD_ROWS + 1
Screen == (0 .. LCD_X_RES - 1) \X (1 .. LCD_ROWS)

\* lcd_init() before its lcd_clear(): the address is unknown (all of them), and
\* what the screen shows is taken to be all set.
Init == /\ cx = 0 /\ cy = 0
        /\ x_addr \in 0 .. X_RES - 1 /\ y_addr \in 0 .. Y_ROWS - 1
        /\ left = 0 /\ ink = FALSE /\ clear_row = 0
        /\ inked = Screen

MoveTo(column, row) == cx' = column /\ cy' = row /\ x_addr' = column /\ y_addr' = row + 1

\* lcd_cursor(): nothing happens outside the screen.
SetCursor(column, row) ==
  IF column < LCD_X_RES /\ row < LCD_ROWS THEN MoveTo(column, row) ELSE UNCHANGED cursor

\* The controller takes a byte.
Advance == /\ x_addr' = (x_addr + 1) % X_RES
           /\ y_addr' = IF x_addr + 1 = X_RES THEN (y_addr + 1) % Y_ROWS ELSE y_addr

Put == inked' = IF ink THEN inked \cup ({<<x_addr, y_addr>>} \cap Screen)
                       ELSE inked \ {<<x_addr, y_addr>>}

NextRow == (cy + 1) % CY_MODULUS

\* lcd_send() of a byte of data: behind the last column the controller follows
\* the cursor, if that is on the screen.  (The other form lets it go on.)
lcd_sendHard == /\ Advance
                /\ cx' = (cx + 1) % LCD_X_RES
                /\ cy' = IF cx + 1 = LCD_X_RES THEN NextRow ELSE cy

lcd_send == IF cx + 1 < LCD_X_RES
            THEN Advance /\ cx' = cx + 1 /\ UNCHANGED cy
            ELSE IF NextRow < LCD_ROWS THEN MoveTo(0, NextRow)
            ELSE Advance /\ cx' = 0 /\ cy' = NextRow

SendByte == /\ left > 0 /\ left' = left - 1
            /\ lcd_send /\ Put
            /\ UNCHANGED <<ink, clear_row>>

Idle == left = 0 /\ clear_row = Outside

Start(n, set) == left' = n /\ ink' = set /\ UNCHANGED inked

lcd_cursor(column, row) == Idle /\ SetCursor(column, row) /\ UNCHANGED <<run, clear_row, inked>>

\* lcd_write_byte(), lcd_put_char(), putchar()
lcd_put(n, set) == Idle /\ Start(n, set) /\ UNCHANGED <<cursor, clear_row>>

\* lcd_draw_glyph(), lcd_tile_glyph(), lcd_draw_text(), lcd_draw_text_block()
lcd_draw(n, set, column, row) ==
  Idle /\ SetCursor(column, row) /\ Start(n, set) /\ UNCHANGED clear_row

lcd_clear_line(row) ==
  Idle /\ SetCursor(0, row) /\ Start(LCD_X_RES, FALSE) /\ UNCHANGED clear_row

lcd_clear == Idle /\ clear_row' = 0 /\ UNCHANGED <<cursor, run, inked>>

ClearRow == /\ left = 0 /\ clear_row < LCD_ROWS
            /\ SetCursor(0, clear_row)
            /\ Start(LCD_X_RES, FALSE)
            /\ clear_row' = clear_row + 1

ClearReturn == /\ left = 0 /\ clear_row = LCD_ROWS
               /\ clear_row' = Outside
               /\ UNCHANGED <<cursor, run, inked>>

Next == \/ SendByte \/ lcd_clear \/ ClearRow \/ ClearReturn
        \/ \E set \in BOOLEAN, n \in Run : lcd_put(n, set)
        \/ \E column \in 0 .. LCD_X_RES, row \in 0 .. LCD_ROWS :
             \/ lcd_cursor(column, row) \/ lcd_clear_line(row)
             \/ \E set \in BOOLEAN, n \in Run : lcd_draw(n, set, column, row)
Spec == Init /\ [][Next]_vars
------------------------------------------------------------------------------
\* "Automatically moves on to the correct position when you are writing beyond
\* the visible width of the row" (README): as long as the driver's cursor is on
\* the screen the next byte lands there, through any drawing and wrapping, even
\* after text has run off the last row; and when lcd_clear() returns the screen
\* is blank.  (A cursor behind the last row does not go back to the first one,
\* as the original controller's would: bytes then land anywhere.)
BytesLandAtCursor ==
  /\ left > 0 /\ cy < LCD_ROWS => x_addr = cx /\ y_addr = cy + 1
  /\ clear_row = LCD_ROWS /\ left = 0 => inked = {}
==============================================================================
