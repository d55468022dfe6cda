------------------------------ MODULE Terminal ------------------------------
(***************************************************************************)
(* What is on the screen while a line is edited: terminal_putchar and      *)
(* redraw_input (src/src/kernel/kernel.cpp) on the text terminal or, when  *)
(* the loader set up a framebuffer, on the graphics console, called by the *)
(* keyboard handler and by the serial loop.  line is the text left of the  *)
(* cursor: it is all that redraw_input draws.  Characters also go to the   *)
(* serial port; that output is left out.                                   *)
(***************************************************************************)
EXTENDS Gfx, SequencesExt

CONSTANTS
  Chars,      \* characters typed
  Outputs,    \* what commands print
  FbHeights   \* heights of the framebuffer, in lines of pixels

(* What is typed is printable, a line fits on the text terminal above its  *)
(* last row, commands end what they print with a new line, and the         *)
(* framebuffer holds a row.                                                *)
ASSUME TerminalAssumption ==
  /\ \A c \in Chars : c \notin {Newline, Erase}
  /\ \A i \in 1 .. Len(PromptText) : PromptText[i] \notin {Newline, Erase}
  /\ Len(PromptText) + Room <= (VGA_HEIGHT - 1) * VGA_WIDTH
  /\ Outputs \subseteq Seq(STRING) /\ \A out \in Outputs : out # <<>> /\ Last(out) = Newline
  /\ FbHeights \subseteq Nat /\ \A height \in FbHeights : height >= CHAR_H

VARIABLES
  use_framebuffer,
  screen,     \* a record of VGAText or of Gfx
  line        \* input_buffer[0 .. input_pos - 1]

tvars == <<use_framebuffer, screen, line>>

Texts == BoundedSeq(Chars, Room)

-----------------------------------------------------------------------------
terminal_putchar(s, c) == IF use_framebuffer THEN gfx_putchar(s, c) ELSE vga_putchar(s, c)

terminal_write(s, text) == FoldLeft(terminal_putchar, s, text)

terminal_clear(s) == IF use_framebuffer THEN gfx_clear(s.height) ELSE vga_clear(s)

(* In graphics the row is blanked by writing spaces to its end, which      *)
(* takes the cursor to the next row, and scrolls, before it is moved back. *)
gfx_redraw(g, text) ==
  LET home    == gfx_move_cursor(g, 0, g.y)
      blanked == terminal_write(home, [i \in 1 .. Columns |-> Blank])
      written == terminal_write(gfx_move_cursor(blanked, 0, g.y), PromptText \o text)
  IN  gfx_move_cursor(written, Len(PromptText) + Len(text), g.y)

redraw_input(s, text) == IF use_framebuffer THEN gfx_redraw(s, text) ELSE vga_redraw(s, text)

-----------------------------------------------------------------------------
(* terminal_clear, the banner and the first prompt.                        *)
TInit ==
  /\ line = <<>>
  /\ \/ /\ use_framebuffer = FALSE
        /\ screen = terminal_write(vga_clear([cells |-> [i \in TextMemory |-> Blank]]),
                                   <<"N", Newline>> \o PromptText)
     \/ /\ use_framebuffer = TRUE
        /\ \E height \in FbHeights :
             screen = terminal_write(gfx_clear(height), <<"N", Newline>> \o PromptText)

(* A store outside the framebuffer has raised a page fault, and the fault  *)
(* handler never returns: nothing runs any more.                           *)
Stray == use_framebuffer /\ screen.stray

Running == ~Stray /\ UNCHANGED use_framebuffer

(* A character from the keyboard; the text right of the cursor, if any,    *)
(* moves on unseen.                                                        *)
TypeKey(c) ==
  /\ Running /\ Len(line) < Room
  /\ line' = Append(line, c)
  /\ screen' = redraw_input(terminal_putchar(screen, c), line')

TypeSerial(c) ==
  /\ Running /\ Len(line) < Room
  /\ line' = Append(line, c)
  /\ screen' = terminal_putchar(screen, c)

Backspace ==
  /\ Running /\ line # <<>>
  /\ line' = Front(line)
  /\ screen' = terminal_putchar(screen, Erase)

(* Arrows, Home, End, Delete: another text left of the cursor, redrawn.    *)
MoveOrReplace(text) ==
  /\ Running
  /\ line' = text
  /\ screen' = redraw_input(screen, text)

(* What follows the new line, on the serial port as on the keyboard: the   *)
(* command, unless the line is empty, and the prompt.  When the new line   *)
(* took the cursor out of the framebuffer no command gets to clear it.     *)
RunLine(fed) ==
  /\ line' = <<>>
  /\ \/ line = <<>> /\ screen' = terminal_write(fed, PromptText)
     \/ /\ line # <<>>
        /\ \/ \E out \in Outputs : screen' = terminal_write(fed, out \o PromptText)
           \/ /\ use_framebuffer => ~fed.stray
              /\ screen' = terminal_write(terminal_clear(fed), PromptText)

Enter == Running /\ RunLine(terminal_putchar(screen, Newline))

TNext ==
  \/ \E c \in Chars : TypeKey(c) \/ TypeSerial(c)
  \/ Backspace
  \/ \E text \in Texts : MoveOrReplace(text)
  \/ Enter

TSpec == TInit /\ [][TNext]_tvars

-----------------------------------------------------------------------------
(* Properties *)

(* The column may pass the width, but not what prompt and line take.       *)
ScreenTypeOK ==
  /\ line \in Texts
  /\ IF use_framebuffer
     THEN /\ screen.inverted \subseteq GfxCells(screen)
          /\ ~screen.stray => screen.x \in 0 .. Columns - 1
          /\ screen.y % CHAR_H = 0
     ELSE /\ screen.row \in 0 .. VGA_HEIGHT - 1
          /\ screen.column \in 0 .. VGA_WIDTH - 1 \/ screen.column <= Len(PromptText) + Len(line)

(* Where the user sees the cursor.                                         *)
Cursor == IF use_framebuffer THEN CellAt(screen) ELSE screen.cursor

Shown == PromptText \o line

Start == Cursor - Len(Shown)

(* The cells before the cursor spell the prompt and the text left of it,   *)
(* whichever mixture of keyboard, serial port and redrawing put them       *)
(* there, over the ends of rows and through scrolling; in graphics until   *)
(* the screen scrolls for the first time.                                  *)
LineShown ==
  (use_framebuffer => ~screen.scrolled /\ ~screen.stray) =>
    \A i \in 1 .. Len(Shown) : screen.cells[Start + i - 1] = Shown[i]

(* In graphics exactly one cell is inverted, the cursor's: every inversion *)
(* is taken back before the cursor or the contents move.                   *)
OneCursorShown ==
  use_framebuffer /\ ~screen.stray => screen.inverted = {CellAt(screen)}

(* The cursor leaves the framebuffer only at the bottom, after the screen  *)
(* has scrolled, or to the right, with a line that fills the row.          *)
InFramebufferUntilScrolled ==
  Stray => screen.scrolled \/ Len(Shown) >= Columns

(* On the text terminal, editing leaves what is above the line alone: all  *)
(* that can happen to it is to move up by one row, when a character fills  *)
(* the last cell of the screen.                                            *)
EditingKeepsTranscript ==
  [][(~use_framebuffer /\ ~Enter) =>
       LET shift == IF At(screen) = VGA_HEIGHT * VGA_WIDTH - 1 /\ Len(line') > Len(line)
                    THEN {0, VGA_WIDTH} ELSE {0}
       IN  \E k \in shift : \A i \in 0 .. Start - 1 - k : screen'.cells[i] = screen.cells[i + k]]_tvars

(* What the comment on the call in the keyboard handler says: in graphics  *)
(* redraw_input, called after a character was displayed, does nothing.     *)
RedrawDoesNothing ==
  [][\A c \in Chars : use_framebuffer /\ TypeKey(c) => screen' = terminal_putchar(screen, c)]_tvars

=============================================================================
