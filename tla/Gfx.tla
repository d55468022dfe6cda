-------------------------------- MODULE Gfx --------------------------------
(***************************************************************************)
(* The framebuffer console (src/src/kernel/gfx.cpp), as functions on a     *)
(* record: the character cells, the cursor, x in cells and y in lines of   *)
(* pixels, and the cells shown inverted.  The cursor is drawn by inverting *)
(* a cell, so it disappears only when the same cell is inverted again.     *)
(* A store below the framebuffer, where nothing is mapped, or behind the   *)
(* end of a row, in the lines of pixels below, sets stray.                 *)
(***************************************************************************)
EXTENDS VGAText, FiniteSetsExt

CONSTANTS
  Columns,   \* fb_width / CHAR_W
  CHAR_H     \* lines of pixels of a character

ASSUME GfxAssumption == Columns \in Nat \ {0} /\ CHAR_H \in Nat \ {0}

GfxCells(g) == 0 .. (g.height \div CHAR_H) * Columns - 1

CellAt(g) == (g.y \div CHAR_H) * Columns + g.x

Inside(g) == g.x < Columns /\ g.y + CHAR_H <= g.height

gfx_invert_cell(g) ==
  IF Inside(g) THEN [g EXCEPT !.inverted = SymDiff(@, {CellAt(g)})]
               ELSE [g EXCEPT !.stray = TRUE]

Filled(g, c) ==
  IF Inside(g) THEN [g EXCEPT !.cells[CellAt(g)] = c, !.inverted = @ \ {CellAt(g)}]
               ELSE [g EXCEPT !.stray = TRUE]

(* The contents move up by one row; the cursor does not.                   *)
gfx_scroll(g) ==
  [g EXCEPT !.cells = [i \in GfxCells(g) |->
                         IF i + Columns \in GfxCells(g) THEN g.cells[i + Columns] ELSE Blank],
            !.inverted = {i - Columns : i \in @ \ 0 .. Columns - 1},
            !.scrolled = TRUE]

gfx_clear(height) ==
  [cells |-> [i \in 0 .. (height \div CHAR_H) * Columns - 1 |-> Blank],
   x |-> 0, y |-> 0, height |-> height,
   inverted |-> {0}, scrolled |-> FALSE, stray |-> FALSE]

(* Mutant: scrolls only when the row lies entirely outside. *)
LineFeed_late(g) ==
  LET d == [g EXCEPT !.x = 0, !.y = @ + CHAR_H]
  IN  IF d.y >= d.height + CHAR_H THEN gfx_scroll(d) ELSE d

LineFeed(g) ==
  LET d == [g EXCEPT !.x = 0, !.y = @ + CHAR_H]
  IN  IF d.y + CHAR_H >= d.height THEN gfx_scroll(d) ELSE d

StepBack(g) ==
  IF g.x >= 1 THEN [g EXCEPT !.x = @ - 1]
  ELSE IF g.y >= CHAR_H THEN [g EXCEPT !.y = @ - CHAR_H, !.x = Columns - 1]
  ELSE g

StepOn(g) == IF g.x + 2 > Columns THEN LineFeed(g) ELSE [g EXCEPT !.x = @ + 1]

(* Mutant: the cursor is not taken away first. *)
gfx_hide_cursor_not(g) == g

gfx_hide_cursor(g) == gfx_invert_cell(g)

gfx_putchar(g, c) ==
  LET hidden == gfx_hide_cursor(g)
  IN  gfx_invert_cell(IF c = Newline THEN LineFeed(hidden)
                      ELSE IF c = Erase THEN Filled(StepBack(hidden), Blank)
                      ELSE StepOn(Filled(hidden, c)))

gfx_move_cursor(g, x, y) ==
  gfx_invert_cell([gfx_invert_cell(g) EXCEPT !.x = x, !.y = y])

=============================================================================
