------------------------------ MODULE VGAText ------------------------------
(***************************************************************************)
(* The VGA text terminal (src/src/kernel/kernel.cpp), as functions on a    *)
(* record: the cells of text memory, terminal_row and terminal_column, and *)
(* the position the hardware shows its cursor at.  Text memory goes on     *)
(* behind the last row that is displayed.  Colours are left out.           *)
(***************************************************************************)
EXTENDS Integers, Sequences

CONSTANTS
  VGA_WIDTH, VGA_HEIGHT,
  PromptText,   \* "nyrix> "
  Room          \* sizeof(input_buffer) - 1

Blank == " "
Newline == "\\n"
Erase == "\\b"

ASSUME VGAAssumption ==
  /\ VGA_WIDTH \in Nat \ {0} /\ VGA_HEIGHT \in Nat \ {0} /\ Room \in Nat
  /\ PromptText \in Seq(STRING)

VGACells == 0 .. VGA_HEIGHT * VGA_WIDTH - 1

(* What a line of the greatest length on the last row reaches.             *)
TextMemory == 0 .. VGA_HEIGHT * VGA_WIDTH + Len(PromptText) + Room

At(v) == v.row * VGA_WIDTH + v.column

update_cursor(v) == [v EXCEPT !.cursor = At(v)]

vga_entry(v, c) == [v EXCEPT !.cells[At(v)] = c]

(* Mutant: the last row is blanked, the others are not copied. *)
vga_scroll_none(v) ==
  [v EXCEPT !.cells = [i \in TextMemory |->
     IF i \in VGACells /\ i + VGA_WIDTH \notin VGACells THEN Blank ELSE v.cells[i]]]

vga_scroll(v) ==
  [v EXCEPT !.cells = [i \in TextMemory |->
     IF i \notin VGACells THEN v.cells[i]
     ELSE IF i + VGA_WIDTH \in VGACells THEN v.cells[i + VGA_WIDTH] ELSE Blank]]

vga_clear(v) ==
  [cells |-> [i \in TextMemory |-> IF i \in VGACells THEN Blank ELSE v.cells[i]],
   row |-> 0, column |-> 0, cursor |-> 0]

(* Mutant: ++terminal_row > VGA_HEIGHT. *)
NextRow_late(v) ==
  LET d == [v EXCEPT !.column = 0, !.row = @ + 1]
  IN  IF d.row > VGA_HEIGHT THEN [vga_scroll(d) EXCEPT !.row = VGA_HEIGHT - 1] ELSE d

NextRow(v) ==
  LET d == [v EXCEPT !.column = 0, !.row = @ + 1]
  IN  IF d.row = VGA_HEIGHT THEN [vga_scroll(d) EXCEPT !.row = VGA_HEIGHT - 1] ELSE d

CellBefore(v) ==
  IF v.column > 0 THEN [v EXCEPT !.column = @ - 1]
  ELSE IF v.row > 0 THEN [v EXCEPT !.row = @ - 1, !.column = VGA_WIDTH - 1]
  ELSE v

(* The column is compared with ==: from beyond the width it goes on.       *)
Advance(v) ==
  LET d == [v EXCEPT !.column = @ + 1]
  IN  IF d.column = VGA_WIDTH THEN NextRow(d) ELSE d

vga_putchar(v, c) ==
  update_cursor(IF c = Newline THEN NextRow(v)
                ELSE IF c = Erase THEN vga_entry(CellBefore(v), Blank)
                ELSE Advance(vga_entry(v, c)))

(* Mutant: terminal_row forgotten. *)
RowStart_top(v) == 0

RowStart(v) == v.row * VGA_WIDTH

(* redraw_input: the prompt and the text left of the cursor replace the    *)
(* row, and run on behind its end; the row stays.                          *)
vga_redraw(v, line) ==
  LET text  == PromptText \o line
      start == RowStart(v)
      Drawn(i) == IF i - start \in 0 .. Len(text) - 1 THEN text[i - start + 1]
                  ELSE IF i - start \in 0 .. VGA_WIDTH - 1 THEN Blank
                  ELSE v.cells[i]
  IN  update_cursor([v EXCEPT !.cells = [i \in TextMemory |-> Drawn(i)],
                              !.column = Len(text)])

=============================================================================
