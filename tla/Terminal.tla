------------------------------ MODULE Terminal ------------------------------
(***************************************************************************)
(* The screen of ie15lcd.c: the task that takes the characters the         *)
(* machine sends (module Console has the ring they come through) and keeps *)
(* a cursor, a copy of the screen in dispmem and the picture itself, which *)
(* it draws one character at a time, or all of it after a scroll or an     *)
(* erasure.                                                                *)
(*                                                                         *)
(* The cursor may be in the column behind the last, Columns.  A character  *)
(* printed there falls on no pixel and in the first cell of the next row   *)
(* of dispmem, which has one row more than the screen.                     *)
(*                                                                         *)
(* ESC Y takes any two characters for row and column, and nothing checks   *)
(* them.  A column is put right at the end of the turn, a row below the    *)
(* screen is not: every turn scrolls, and brings it one row nearer.  What  *)
(* is printed or erased further down meanwhile lies outside of dispmem.    *)
(* The outcome of such a write is undefined, and the model ends there.     *)
(***************************************************************************)
EXTENDS Integers, FiniteSets

CONSTANTS
    Columns, ScreenRows,    \* 80 and 24
    TabStops,         \* 8, 16 .. 72
    Letters,          \* printing characters
    AddressRows,      \* the unsigned characters after ESC Y, less 32: rows and
    AddressColumns    \* columns, these not less than -Columns

VARIABLES
    term,             \* cursor px, py, character set, escape sequence; history:
                      \* ESC Y has named a row below the screen (until it is left)
    dispmem,          \* what the task remembers, row after row
    picture           \* what is drawn

termvars == <<term, dispmem, picture>>

Blank == <<"blank", FALSE>>
Size  == Columns * (ScreenRows + 1)
Cell(x, y) == y * Columns + x

(* What the display shows of a cell; it has no other. *)
draw_char(p, glyph, x, y) ==
    IF x \in 0 .. Columns - 1 /\ y \in 0 .. ScreenRows - 1 THEN [p EXCEPT ![Cell(x, y)] = glyph] ELSE p

Redrawn(mem) == [i \in 0 .. Columns * ScreenRows - 1 |-> mem[i]]

TermInit ==
    /\ term = [px |-> 0, py |-> 0, altchar |-> FALSE, esc |-> "none", below |-> FALSE]
    /\ dispmem = [i \in 0 .. Size - 1 |-> Blank]
    /\ picture = [i \in 0 .. Columns * ScreenRows - 1 |-> Blank]

-----------------------------------------------------------------------------
(* What ends the turn of every character: the cursor comes back into the   *)
(* screen, which may move up a line, and the picture is drawn if asked.    *)

(* Mutant: the last row is looked at before a full line is left. *)
WrappedLate(px, py) ==
    LET left == px < 0
        y1   == IF left THEN py - 1 ELSE py
        y2   == IF y1 < 0 THEN 0 ELSE y1
        over == px > Columns
        up   == y2 > ScreenRows - 1
        y3   == IF up THEN y2 - 1 ELSE y2
    IN [px |-> IF left THEN px + Columns ELSE IF over THEN 0 ELSE px,
        py |-> IF over THEN y3 + 1 ELSE y3, scroll |-> up]

Wrapped(px, py) ==
    LET left == px < 0
        y1   == IF left THEN py - 1 ELSE py
        y2   == IF y1 < 0 THEN 0 ELSE y1
        over == px > Columns
        y3   == IF over THEN y2 + 1 ELSE y2
        up   == y3 > ScreenRows - 1
    IN [px |-> IF left THEN px + Columns ELSE IF over THEN 0 ELSE px,
        py |-> IF up THEN y3 - 1 ELSE y3, scroll |-> up]

(* The row below the screen is not cleared. *)
Scrolled(mem) ==
    [i \in DOMAIN mem |->
        CASE i < Columns * (ScreenRows - 1) -> mem[i + Columns]
          [] i \in Columns * (ScreenRows - 1) .. Columns * ScreenRows - 1 -> Blank
          [] i >= Columns * ScreenRows -> mem[i]]

(* The rest of a turn with the cursor at px, py, the memory mem and the    *)
(* picture pic. *)
Turn(px, py, alt, mem, pic, need_redraw) ==
    LET w   == Wrapped(px, py)
        new == IF w.scroll THEN Scrolled(mem) ELSE mem
    IN /\ term' = [px |-> w.px, py |-> w.py, altchar |-> alt, esc |-> "none",
                   below |-> term.below /\ w.py > ScreenRows - 1]
       /\ dispmem' = new
       /\ picture' = IF w.scroll \/ need_redraw THEN Redrawn(new) ELSE pic

(* A write outside of dispmem. *)
Overrun ==
    /\ term' = [term EXCEPT !.esc = "overrun"]
    /\ UNCHANGED <<dispmem, picture>>

Idle == term.esc = "none"
Move(px, py) == Turn(px, py, term.altchar, dispmem, picture, FALSE)
Shift(alt) == Turn(term.px, term.py, alt, dispmem, picture, FALSE)

(* Mutant: an erasure is not drawn. *)
ErasedQuietly(cells) ==
    Turn(term.px, term.py, term.altchar,
         [i \in DOMAIN dispmem |-> IF i \in cells THEN Blank ELSE dispmem[i]], picture, FALSE)

Erased(cells) ==
    Turn(term.px, term.py, term.altchar,
         [i \in DOMAIN dispmem |-> IF i \in cells THEN Blank ELSE dispmem[i]], picture, TRUE)

-----------------------------------------------------------------------------
(* Characters outside an escape sequence. *)

PutLetter ==
    /\ Idle
    /\ \E c \in Letters :
          LET glyph == <<c, term.altchar>>
              cell  == Cell(term.px, term.py)
          IN IF cell \in DOMAIN dispmem
             THEN Turn(term.px + 1, term.py, term.altchar, [dispmem EXCEPT ![cell] = glyph],
                       draw_char(picture, glyph, term.px, term.py), FALSE)
             ELSE Overrun

Return    == Idle /\ Move(0, term.py)
LineFeed  == Idle /\ Move(term.px, term.py + 1)
Backspace == Idle /\ Move(term.px - 1, term.py)
ShiftOut  == Idle /\ Shift(TRUE)
ShiftIn   == Idle /\ Shift(FALSE)

(* To the next tab stop; behind the last one the cursor stays. *)
Tab ==
    /\ Idle
    /\ LET next == {t \in TabStops : t > term.px}
       IN Move(IF next = {} THEN term.px ELSE CHOOSE t \in next : \A u \in next : t <= u, term.py)

Escape ==
    /\ Idle
    /\ term' = [term EXCEPT !.esc = "ESC"]
    /\ UNCHANGED <<dispmem, picture>>

-----------------------------------------------------------------------------
(* Escape sequences. *)

Sequence == term.esc = "ESC"

EscUp      == Sequence /\ Move(term.px, term.py - 1)         \* A
EscDown    == Sequence /\ Move(term.px, term.py + 1)         \* B
EscC       == Sequence /\ Move(term.px - 1, term.py)
EscD       == Sequence /\ Move(term.px + 1, term.py)
EscAlt     == Sequence /\ \E alt \in BOOLEAN : Shift(alt)    \* F, G
EscHome    == Sequence /\ Move(0, 0)                         \* H
EscOther   == Sequence /\ Move(term.px, term.py)             \* I, L, M and unknown ones

(* J and K: from the cursor to the end of the screen, of the line. *)
EscErase   == Sequence /\ Erased(Cell(term.px, term.py) .. Columns * ScreenRows - 1)
EscKill ==
    /\ Sequence
    /\ LET cells == Cell(term.px, term.py) .. Cell(Columns - 1, term.py)
       IN IF cells \subseteq DOMAIN dispmem THEN Erased(cells) ELSE Overrun

(* Y: two more characters, which are the row and the column. *)
EscAddress ==
    /\ Sequence
    /\ term' = [term EXCEPT !.esc = "Y"]
    /\ UNCHANGED <<dispmem, picture>>
AddressRow ==
    /\ term.esc = "Y"
    /\ \E y \in AddressRows :
          term' = [term EXCEPT !.py = y, !.esc = "YX", !.below = @ \/ y > ScreenRows - 1]
    /\ UNCHANGED <<dispmem, picture>>
AddressColumn ==
    /\ term.esc = "YX"
    /\ \E x \in AddressColumns : Move(x, term.py)

TermNext ==
    \/ PutLetter \/ Return \/ LineFeed \/ Backspace \/ ShiftOut \/ ShiftIn \/ Tab \/ Escape
    \/ EscUp \/ EscDown \/ EscC \/ EscD \/ EscAlt \/ EscHome \/ EscOther \/ EscErase \/ EscKill
    \/ EscAddress \/ AddressRow \/ AddressColumn

-----------------------------------------------------------------------------
(* After every character the picture is what dispmem says, which the next  *)
(* scroll or erasure would draw, except in the first column: there dispmem *)
(* may have a character that was printed behind the last column of the row *)
(* above and was never seen.  The cursor is in one of the columns dispmem  *)
(* has, or behind the last; and nothing but ESC Y takes it below the       *)
(* screen, from where alone a write can fall outside of dispmem.           *)
PictureKept ==
    /\ \A i \in DOMAIN picture : picture[i] = dispmem[i] \/ i % Columns = 0
    /\ term.px \in 0 .. Columns
    /\ term.esc # "YX" => term.py >= 0
    /\ term.py > ScreenRows - 1 \/ term.esc = "overrun" => term.below
=============================================================================
