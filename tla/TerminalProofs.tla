--------------------------- MODULE TerminalProofs ---------------------------
(***************************************************************************)
(* Theorems about the two terminals: the type invariant, the one cursor of *)
(* graphics, which stays in the framebuffer until the first scroll, what   *)
(* the cells before the cursor spell, and what is above the line.          *)
(***************************************************************************)
EXTENDS Terminal, Numbers, SequenceTheorems

-----------------------------------------------------------------------------
(* Writing a text *)

(* The greatest number of an interval is its end.                          *)
LEMMA MaxOfInterval ==
  ASSUME NEW k \in Nat, NEW S \in SUBSET (1 .. k + 1), k + 1 \in S
  PROVE  Max(S) = k + 1
<1>1. \A x \in S : k + 1 >= x
  OBVIOUS
<1>2. \A x \in S : (\A y \in S : x >= y) => x = k + 1
  OBVIOUS
<1> QED
  BY <1>1, <1>2 DEF Max

(* A fold over sets of positions, as FoldLeft is defined.                  *)
Folds(f, s, text, k) ==
  f = [S \in SUBSET (1 .. k) |->
         IF S = {} THEN s ELSE terminal_putchar(f[S \ {Max(S)}], text[Max(S)])]

(* What it is at a set of positions.                                       *)
LEMMA FoldAt ==
  ASSUME NEW s, NEW text, NEW k, NEW f, Folds(f, s, text, k)
  PROVE  /\ f[{}] = s
         /\ \A S \in SUBSET (1 .. k) : S # {} =>
              f[S] = terminal_putchar(f[S \ {Max(S)}], text[Max(S)])
<1> DEFINE F == [R \in SUBSET (1 .. k) |->
                   IF R = {} THEN s ELSE terminal_putchar(f[R \ {Max(R)}], text[Max(R)])]
<1>1. f = F
  BY DEF Folds
<1>2. /\ F[{}] = s
      /\ \A S \in SUBSET (1 .. k) : S # {} =>
           F[S] = terminal_putchar(f[S \ {Max(S)}], text[Max(S)])
  <2>1. {} \in SUBSET (1 .. k)
    OBVIOUS
  <2> QED BY <2>1
<1> HIDE DEF F
<1> QED
  BY <1>1, <1>2

(* There is such a fold, one position after the other.                     *)
LEMMA FoldExists ==
  ASSUME NEW s, NEW text, NEW n \in Nat
  PROVE  \E f : Folds(f, s, text, n)
<1> DEFINE T == {k \in Nat : \E f : Folds(f, s, text, k)}
<1>1. 0 \in T
  <2> DEFINE f == [S \in SUBSET (1 .. 0) |-> s]
  <2>1. \A S \in SUBSET (1 .. 0) : S = {}
    OBVIOUS
  <2>2. Folds(f, s, text, 0)
    BY <2>1 DEF Folds
  <2> QED BY <2>2
<1>2. ASSUME NEW k \in 0 .. n - 1, k \in T PROVE k + 1 \in T
  <2>1. PICK f : Folds(f, s, text, k)
    BY <1>2
  <2>9. /\ f[{}] = s
        /\ \A S \in SUBSET (1 .. k) : S # {} =>
             f[S] = terminal_putchar(f[S \ {Max(S)}], text[Max(S)])
    BY <2>1, FoldAt
  <2> DEFINE g == [S \in SUBSET (1 .. k + 1) |->
                     IF k + 1 \in S THEN terminal_putchar(f[S \ {k + 1}], text[k + 1]) ELSE f[S]]
             h == [S \in SUBSET (1 .. k + 1) |->
                     IF S = {} THEN s ELSE terminal_putchar(g[S \ {Max(S)}], text[Max(S)])]
  <2>2. ASSUME NEW S \in SUBSET (1 .. k + 1) PROVE g[S] = h[S]
    <3>1. CASE k + 1 \in S
      <4>1. Max(S) = k + 1
        BY <3>1, MaxOfInterval
      <4>2. S \ {k + 1} \in SUBSET (1 .. k + 1) /\ k + 1 \notin S \ {k + 1}
        OBVIOUS
      <4>3. g[S \ {k + 1}] = f[S \ {k + 1}]
        BY <4>2
      <4> QED BY <3>1, <4>1, <4>3
    <3>2. CASE k + 1 \notin S
      <4>0. 1 .. k + 1 = (1 .. k) \cup {k + 1}
        OBVIOUS
      <4>1. S \in SUBSET (1 .. k)
        BY <3>2, <4>0
      <4>2. g[S \ {Max(S)}] = f[S \ {Max(S)}]
        <5> DEFINE m == Max(S)
        <5> HIDE DEF m
        <5>1. S \ {m} \in SUBSET (1 .. k + 1) /\ k + 1 \notin S \ {m}
          BY <3>2
        <5>2. g[S \ {m}] = f[S \ {m}]
          BY <5>1
        <5> QED BY <5>2 DEF m
      <4>3. f[S] = IF S = {} THEN s ELSE terminal_putchar(f[S \ {Max(S)}], text[Max(S)])
        BY <2>9, <4>1
      <4> QED BY <3>2, <4>2, <4>3
    <3> QED BY <3>1, <3>2
  <2>3. g = h
    BY <2>2
  <2>4. Folds(g, s, text, k + 1)
    BY <2>3 DEF Folds
  <2> HIDE DEF g
  <2> QED BY <2>4
<1> HIDE DEF T
<1>3. 0 .. n \subseteq T
  BY <1>1, <1>2, UpTo
<1>4. n \in T
  BY <1>3
<1> QED
  BY <1>4 DEF T

(* From one position to the next.                                          *)
LEMMA FoldSteps ==
  ASSUME NEW s, NEW text, NEW n \in Nat, NEW f, Folds(f, s, text, n)
  PROVE  /\ f[1 .. 0] = s
         /\ \A k \in 0 .. n - 1 : f[1 .. k + 1] = terminal_putchar(f[1 .. k], text[k + 1])
<1>1. /\ f[{}] = s
      /\ \A S \in SUBSET (1 .. n) : S # {} =>
           f[S] = terminal_putchar(f[S \ {Max(S)}], text[Max(S)])
  BY FoldAt
<1>2. 1 .. 0 = {}
  OBVIOUS
<1>3. ASSUME NEW k \in 0 .. n - 1
      PROVE  f[1 .. k + 1] = terminal_putchar(f[1 .. k], text[k + 1])
  <2>1. k \in Nat /\ 1 .. k + 1 \in SUBSET (1 .. n) /\ k + 1 \in 1 .. k + 1
    OBVIOUS
  <2>2. Max(1 .. k + 1) = k + 1
    BY <2>1, MaxOfInterval
  <2>3. (1 .. k + 1) \ {k + 1} = 1 .. k /\ 1 .. k + 1 # {}
    BY <2>1
  <2>4. f[1 .. k + 1] = terminal_putchar(f[(1 .. k + 1) \ {Max(1 .. k + 1)}], text[Max(1 .. k + 1)])
    BY <1>1, <2>1, <2>3
  <2> QED BY <2>2, <2>3, <2>4
<1> QED
  BY <1>1, <1>2, <1>3

(* The screens on the way, one character after the other.                  *)
Steps(w, s, text, n) ==
  /\ w[0] = s
  /\ \A k \in 0 .. n - 1 : w[k + 1] = terminal_putchar(w[k], text[k + 1])
  /\ w[n] = terminal_write(s, text)

(* terminal_write puts one character after the other.                      *)
LEMMA WriteSteps ==
  ASSUME NEW s, NEW text, NEW n \in Nat, DOMAIN text = 1 .. n
  PROVE  \E w : Steps(w, s, text, n)
<1> DEFINE f == CHOOSE f : Folds(f, s, text, n)
<1>1. terminal_write(s, text) = f[1 .. n]
  BY DEF terminal_write, FoldLeft, MapThenFoldSet, Folds
<1>2. Folds(f, s, text, n)
  BY FoldExists
<1>x. \A d : Folds(d, s, text, n) =>
        /\ d[1 .. 0] = s
        /\ \A k \in 0 .. n - 1 : d[1 .. k + 1] = terminal_putchar(d[1 .. k], text[k + 1])
  BY FoldSteps
<1> HIDE DEF f
<1>3. /\ f[1 .. 0] = s
      /\ \A k \in 0 .. n - 1 : f[1 .. k + 1] = terminal_putchar(f[1 .. k], text[k + 1])
  BY <1>2, <1>x
<1> DEFINE w == [k \in 0 .. n |-> f[1 .. k]]
<1>4. Steps(w, s, text, n)
  <2>1. 0 \in 0 .. n /\ n \in 0 .. n /\ \A k \in 0 .. n - 1 : k \in 0 .. n /\ k + 1 \in 0 .. n
    OBVIOUS
  <2> QED BY <1>1, <1>3, <2>1 DEF Steps
<1> HIDE DEF w
<1> QED
  BY <1>4

-----------------------------------------------------------------------------
(* The graphics console *)

GfxFields == {"cells", "x", "y", "height", "inverted", "scrolled", "stray"}

GfxTypeOK(g) ==
  /\ DOMAIN g = GfxFields
  /\ g.x \in Nat /\ g.y \in Nat /\ g.y % CHAR_H = 0
  /\ g.height \in Nat /\ g.height >= CHAR_H
  /\ g.inverted \subseteq GfxCells(g)
  /\ DOMAIN g.cells = GfxCells(g)

(* The cursor is on the screen.                                            *)
Marked(g) == GfxTypeOK(g) /\ (~g.stray => Inside(g) /\ g.inverted = {CellAt(g)})

(* It was taken off.                                                       *)
Hidden(g) == GfxTypeOK(g) /\ (~g.stray => g.inverted = {})

(* What holds until the first scroll.                                      *)
Kept(g) == ~g.scrolled => Inside(g) /\ ~g.stray

(* From one screen to a later one.                                         *)
Keeps(g, d) ==
  /\ d.height = g.height
  /\ g.scrolled => d.scrolled
  /\ Kept(g) => Kept(d)

(* The position on the row above and on the row below is the start of a    *)
(* row too.                                                                *)
LEMMA RowsAlign ==
  ASSUME NEW y \in Nat, y % CHAR_H = 0
  PROVE  /\ (y + CHAR_H) % CHAR_H = 0
         /\ y >= CHAR_H => (y - CHAR_H) % CHAR_H = 0
<1> DEFINE q == y \div CHAR_H
<1>1. CHAR_H \in Nat \ {0} /\ 0 \in 0 .. CHAR_H - 1
  BY GfxAssumption
<1>2. q \in Int /\ y = CHAR_H * q
  BY <1>1, DivMod
<1> HIDE DEF q
<1>3. y + CHAR_H = CHAR_H * (q + 1) + 0 /\ y - CHAR_H = CHAR_H * (q - 1) + 0
  BY <1>1, <1>2, SMT
<1>4. (CHAR_H * (q + 1) + 0) % CHAR_H = 0 /\ (CHAR_H * (q - 1) + 0) % CHAR_H = 0
  BY <1>1, <1>2, Remainder
<1> QED
  BY <1>3, <1>4

(* The cell of a cursor inside the framebuffer is one of its cells.        *)
LEMMA CellInside ==
  ASSUME NEW g, g.x \in Nat, g.y \in Nat, g.height \in Nat, Inside(g)
  PROVE  CellAt(g) \in GfxCells(g)
<1> DEFINE y == g.y
           h == g.height
<1>1. /\ CHAR_H \in Nat \ {0} /\ Columns \in Nat \ {0}
      /\ g.x \in Nat /\ y \in Nat /\ h \in Nat
      /\ g.x < Columns /\ y + CHAR_H <= h
  BY GfxAssumption DEF Inside
<1> HIDE DEF y, h
<1>2. (y \div CHAR_H) * Columns + g.x \in 0 .. (h \div CHAR_H) * Columns - 1
  BY <1>1, CellOfGrid
<1> QED
  BY <1>2 DEF y, h, CellAt, GfxCells

(* Inverting the cursor's cell takes a cursor off.                         *)
LEMMA Hides ==
  ASSUME NEW g, Marked(g)
  PROVE  Hidden(gfx_invert_cell(g)) /\ Keeps(g, gfx_invert_cell(g))
<1> DEFINE h == gfx_invert_cell(g)
<1>1. CASE Inside(g)
  <2>1. h = [g EXCEPT !.inverted = SymDiff(@, {CellAt(g)})]
    BY <1>1 DEF gfx_invert_cell
  <2>2. CellAt(g) \in GfxCells(g)
    BY <1>1, CellInside DEF Marked, GfxTypeOK
  <2> QED BY <1>1, <2>1, <2>2 DEF Marked, Hidden, Keeps, Kept, GfxTypeOK, GfxFields, Inside, GfxCells, SymDiff
<1>2. CASE ~Inside(g)
  <2>1. h = [g EXCEPT !.stray = TRUE] /\ g.stray
    BY <1>2 DEF gfx_invert_cell, Marked
  <2> QED BY <1>2, <2>1 DEF Marked, Hidden, Keeps, Kept, GfxTypeOK, GfxFields, Inside, GfxCells
<1> QED
  BY <1>1, <1>2

(* Inverting it where nothing is inverted shows one.                       *)
LEMMA Shows ==
  ASSUME NEW g, Hidden(g)
  PROVE  Marked(gfx_invert_cell(g)) /\ Keeps(g, gfx_invert_cell(g))
<1> DEFINE h == gfx_invert_cell(g)
<1>1. CASE Inside(g)
  <2>1. h = [g EXCEPT !.inverted = SymDiff(@, {CellAt(g)})]
    BY <1>1 DEF gfx_invert_cell
  <2>2. CellAt(g) \in GfxCells(g)
    BY <1>1, CellInside DEF Hidden, GfxTypeOK
  <2> QED BY <1>1, <2>1, <2>2 DEF Marked, Hidden, Keeps, Kept, GfxTypeOK, GfxFields, Inside, GfxCells, CellAt, SymDiff
<1>2. CASE ~Inside(g)
  <2>1. h = [g EXCEPT !.stray = TRUE]
    BY <1>2 DEF gfx_invert_cell
  <2> QED BY <1>2, <2>1 DEF Marked, Hidden, Keeps, Kept, GfxTypeOK, GfxFields, Inside, GfxCells
<1> QED
  BY <1>1, <1>2

(* A new line, with or without a scroll.                                   *)
LEMMA LineFeedHidden ==
  ASSUME NEW g, Hidden(g)
  PROVE  Hidden(LineFeed(g)) /\ Keeps(g, LineFeed(g))
<1> DEFINE d == [g EXCEPT !.x = 0, !.y = @ + CHAR_H]
<1>1. CHAR_H \in Nat \ {0} /\ Columns \in Nat \ {0}
  BY GfxAssumption
<1>2. /\ GfxTypeOK(d) /\ d.inverted = g.inverted /\ d.stray = g.stray /\ d.scrolled = g.scrolled
      /\ d.x = 0 /\ d.y = g.y + CHAR_H /\ d.height = g.height
  <2>1. (g.y + CHAR_H) % CHAR_H = 0 /\ g.y + CHAR_H \in Nat
    BY <1>1, RowsAlign DEF Hidden, GfxTypeOK
  <2> QED BY <2>1, <1>1 DEF Hidden, GfxTypeOK, GfxFields, GfxCells
<1> HIDE DEF d
<1>3. CASE d.y + CHAR_H >= d.height
  <2> DEFINE up == {i - Columns : i \in d.inverted \ 0 .. Columns - 1}
             C  == [i \in GfxCells(d) |->
                      IF i + Columns \in GfxCells(d) THEN d.cells[i + Columns] ELSE Blank]
             e  == [d EXCEPT !.cells = C, !.inverted = up, !.scrolled = TRUE]
  <2>1. LineFeed(g) = e
    BY <1>3 DEF LineFeed, gfx_scroll, d
  <2>2. up \subseteq GfxCells(d) /\ (d.inverted = {} => up = {})
    <3>1. (d.height \div CHAR_H) * Columns \in Int /\ d.inverted \subseteq 0 .. (d.height \div CHAR_H) * Columns - 1
      BY <1>1, <1>2 DEF GfxTypeOK, GfxCells
    <3> DEFINE top == (d.height \div CHAR_H) * Columns
    <3> HIDE DEF top
    <3>2. top \in Int /\ d.inverted \subseteq 0 .. top - 1
      BY <3>1 DEF top
    <3>3. up \subseteq 0 .. top - 1
      BY <1>1, <3>2
    <3> QED BY <3>3 DEF top, GfxCells
  <2>4. DOMAIN C = GfxCells(d)
    OBVIOUS
  <2> HIDE DEF up, C
  <2>3. /\ DOMAIN e = GfxFields /\ e.x = d.x /\ e.y = d.y /\ e.height = d.height
        /\ e.inverted = up /\ e.stray = d.stray /\ e.scrolled = TRUE
        /\ DOMAIN e.cells = GfxCells(d)
    BY <1>2, <2>4 DEF GfxTypeOK, GfxFields
  <2> HIDE DEF e
  <2> QED BY <1>2, <2>1, <2>2, <2>3 DEF Hidden, GfxTypeOK, Keeps, Kept, GfxCells
<1>4. CASE ~(d.y + CHAR_H >= d.height)
  <2>1. LineFeed(g) = d
    BY <1>4 DEF LineFeed, d
  <2>2. Inside(d)
    BY <1>1, <1>2, <1>4 DEF Inside, GfxTypeOK
  <2> QED BY <1>2, <2>1, <2>2 DEF Hidden, Keeps, Kept
<1> QED
  BY <1>3, <1>4

(* Back by one cell, over the start of a row to the end of the one above.  *)
LEMMA StepBackHidden ==
  ASSUME NEW g, Hidden(g)
  PROVE  Hidden(StepBack(g)) /\ Keeps(g, StepBack(g))
<1>1. CHAR_H \in Nat \ {0} /\ Columns \in Nat \ {0} /\ g.x \in Nat /\ g.y \in Nat /\ g.height \in Nat
  BY GfxAssumption DEF Hidden, GfxTypeOK
<1>2. CASE g.x >= 1
  <2>1. StepBack(g) = [g EXCEPT !.x = @ - 1]
    BY <1>2 DEF StepBack
  <2> QED BY <1>1, <1>2, <2>1 DEF Hidden, GfxTypeOK, GfxFields, Keeps, Kept, Inside, GfxCells
<1>3. CASE g.x < 1 /\ g.y >= CHAR_H
  <2>1. StepBack(g) = [g EXCEPT !.y = @ - CHAR_H, !.x = Columns - 1]
    BY <1>1, <1>3 DEF StepBack
  <2>2. (g.y - CHAR_H) % CHAR_H = 0 /\ g.y - CHAR_H \in Nat /\ Columns - 1 \in Nat /\ Columns - 1 < Columns
    BY <1>1, <1>3, RowsAlign DEF Hidden, GfxTypeOK
  <2> QED BY <1>1, <1>3, <2>1, <2>2 DEF Hidden, GfxTypeOK, GfxFields, Keeps, Kept, Inside, GfxCells
<1>4. CASE g.x < 1 /\ g.y < CHAR_H
  <2>1. StepBack(g) = g
    BY <1>1, <1>4 DEF StepBack
  <2> QED BY <2>1 DEF Keeps
<1> QED
  BY <1>1, <1>2, <1>3, <1>4

(* A glyph.                                                                *)
LEMMA FilledHidden ==
  ASSUME NEW g, NEW c, Hidden(g)
  PROVE  Hidden(Filled(g, c)) /\ Keeps(g, Filled(g, c))
<1>1. CASE Inside(g)
  <2>1. Filled(g, c) = [g EXCEPT !.cells[CellAt(g)] = c, !.inverted = @ \ {CellAt(g)}]
    BY <1>1 DEF Filled
  <2> QED BY <1>1, <2>1 DEF Hidden, GfxTypeOK, GfxFields, Keeps, Kept, Inside, GfxCells
<1>2. CASE ~Inside(g)
  <2>1. Filled(g, c) = [g EXCEPT !.stray = TRUE]
    BY <1>2 DEF Filled
  <2> QED BY <1>2, <2>1 DEF Hidden, GfxTypeOK, GfxFields, Keeps, Kept, Inside, GfxCells
<1> QED
  BY <1>1, <1>2

(* On by one cell, or to the next row.                                     *)
LEMMA StepOnHidden ==
  ASSUME NEW g, Hidden(g)
  PROVE  Hidden(StepOn(g)) /\ Keeps(g, StepOn(g))
<1>1. Columns \in Nat \ {0} /\ g.x \in Nat
  BY GfxAssumption DEF Hidden, GfxTypeOK
<1>2. CASE g.x + 2 > Columns
  BY <1>2, LineFeedHidden DEF StepOn
<1>3. CASE ~(g.x + 2 > Columns)
  <2>1. StepOn(g) = [g EXCEPT !.x = @ + 1]
    BY <1>3 DEF StepOn
  <2> QED BY <1>1, <1>3, <2>1 DEF Hidden, GfxTypeOK, GfxFields, Keeps, Kept, Inside, GfxCells
<1> QED
  BY <1>2, <1>3

(* A character leaves one cursor, and the first scroll ahead or behind.    *)
LEMMA PutcharMarked ==
  ASSUME NEW g, NEW c, Marked(g)
  PROVE  Marked(gfx_putchar(g, c)) /\ Keeps(g, gfx_putchar(g, c))
<1> DEFINE h == gfx_invert_cell(g)
           d == IF c = Newline THEN LineFeed(h)
                ELSE IF c = Erase THEN Filled(StepBack(h), Blank)
                ELSE StepOn(Filled(h, c))
<1>1. Hidden(h) /\ Keeps(g, h)
  BY Hides
<1> HIDE DEF h
<1>2. Hidden(LineFeed(h)) /\ Keeps(h, LineFeed(h))
  BY <1>1, LineFeedHidden
<1>3. /\ Hidden(Filled(StepBack(h), Blank))
      /\ Keeps(h, Filled(StepBack(h), Blank))
  <2>1. Hidden(StepBack(h)) /\ Keeps(h, StepBack(h))
    BY <1>1, StepBackHidden
  <2> QED BY <2>1, FilledHidden DEF Keeps
<1>4. Hidden(StepOn(Filled(h, c))) /\ Keeps(h, StepOn(Filled(h, c)))
  <2>1. Hidden(Filled(h, c)) /\ Keeps(h, Filled(h, c))
    BY <1>1, FilledHidden
  <2> QED BY <2>1, StepOnHidden DEF Keeps
<1>5. Hidden(d) /\ Keeps(h, d)
  BY <1>2, <1>3, <1>4, Zenon
<1>6. gfx_putchar(g, c) = gfx_invert_cell(d)
  BY DEF gfx_putchar, gfx_hide_cursor, h
<1> HIDE DEF d
<1>7. Marked(gfx_invert_cell(d)) /\ Keeps(d, gfx_invert_cell(d))
  BY <1>5, Shows
<1> QED
  BY <1>1, <1>5, <1>6, <1>7 DEF Keeps

(* Moving the cursor keeps it one.                                         *)
LEMMA MoveMarked ==
  ASSUME NEW g, NEW x \in Nat, NEW y \in Nat, Marked(g), y % CHAR_H = 0
  PROVE  /\ Marked(gfx_move_cursor(g, x, y))
         /\ gfx_move_cursor(g, x, y).height = g.height
         /\ g.scrolled => gfx_move_cursor(g, x, y).scrolled
         /\ (Kept(g) /\ (~g.scrolled => x < Columns /\ y + CHAR_H <= g.height)) =>
              Kept(gfx_move_cursor(g, x, y))
<1> DEFINE h == gfx_invert_cell(g)
           d == [h EXCEPT !.x = x, !.y = y]
<1>1. Hidden(h) /\ Keeps(g, h)
  BY Hides
<1> HIDE DEF h
<1>2. /\ d.x = x /\ d.y = y /\ d.height = h.height
      /\ d.stray = h.stray /\ d.scrolled = h.scrolled /\ Hidden(d)
  BY <1>1 DEF Hidden, GfxTypeOK, GfxFields, GfxCells
<1>3. gfx_move_cursor(g, x, y) = gfx_invert_cell(d)
  BY DEF gfx_move_cursor, h
<1> HIDE DEF d
<1>4. (Kept(g) /\ (~g.scrolled => x < Columns /\ y + CHAR_H <= g.height)) => Kept(d)
  BY <1>1, <1>2 DEF Keeps, Kept, Inside
<1> DEFINE m == gfx_invert_cell(d)
<1>5. Marked(m) /\ Keeps(d, m)
  BY <1>2, Shows
<1> HIDE DEF m
<1>6. /\ Marked(m) /\ m.height = g.height /\ (g.scrolled => m.scrolled)
      /\ (Kept(g) /\ (~g.scrolled => x < Columns /\ y + CHAR_H <= g.height)) => Kept(m)
  BY <1>1, <1>2, <1>4, <1>5 DEF Keeps
<1> QED
  BY <1>3, <1>6 DEF m

(* Inverting changes nothing of the text and of the cursor.                *)
LEMMA InvertKeepsText ==
  ASSUME NEW g, GfxTypeOK(g)
  PROVE  LET h == gfx_invert_cell(g) IN
         /\ DOMAIN h = GfxFields /\ h.cells = g.cells /\ h.x = g.x /\ h.y = g.y /\ h.height = g.height
         /\ h.scrolled = g.scrolled /\ CellAt(h) = CellAt(g)
BY DEF gfx_invert_cell, GfxTypeOK, GfxFields, CellAt

(* Moving the cursor leaves the text.                                      *)
LEMMA MoveKeepsText ==
  ASSUME NEW g, NEW x, NEW y, Marked(g)
  PROVE  LET d == gfx_move_cursor(g, x, y) IN
         /\ d.cells = g.cells /\ d.scrolled = g.scrolled
         /\ CellAt(d) = (y \div CHAR_H) * Columns + x
<1> DEFINE h == gfx_invert_cell(g)
           e == [h EXCEPT !.x = x, !.y = y]
           d == gfx_invert_cell(e)
<1>1. DOMAIN h = GfxFields /\ h.cells = g.cells /\ h.scrolled = g.scrolled
  BY InvertKeepsText DEF Marked
<1> HIDE DEF h
<1>2. DOMAIN e = GfxFields /\ e.x = x /\ e.y = y /\ e.cells = g.cells /\ e.scrolled = g.scrolled
  BY <1>1 DEF GfxFields
<1>3. gfx_move_cursor(g, x, y) = d
  BY DEF gfx_move_cursor, h
<1> HIDE DEF e
<1>4. d.cells = e.cells /\ d.scrolled = e.scrolled /\ d.x = e.x /\ d.y = e.y
  BY <1>2 DEF gfx_invert_cell, GfxFields
<1> HIDE DEF d
<1>5. CellAt(d) = (y \div CHAR_H) * Columns + x
  BY <1>2, <1>4 DEF CellAt
<1> QED
  BY <1>2, <1>3, <1>4, <1>5

(* A cleared screen.                                                       *)
LEMMA ClearMarked ==
  ASSUME NEW height \in Nat, height >= CHAR_H
  PROVE  Marked(gfx_clear(height)) /\ Kept(gfx_clear(height))
<1> DEFINE g == gfx_clear(height)
<1>1. CHAR_H \in Nat \ {0} /\ Columns \in Nat \ {0}
  BY GfxAssumption
<1>2. /\ DOMAIN g = GfxFields /\ g.x = 0 /\ g.y = 0 /\ g.height = height
      /\ g.inverted = {0} /\ g.scrolled = FALSE /\ g.stray = FALSE
      /\ DOMAIN g.cells = GfxCells(g)
  BY DEF gfx_clear, GfxFields, GfxCells
<1> HIDE DEF g
<1>3. 0 % CHAR_H = 0 /\ 0 \div CHAR_H = 0
  BY <1>1, ZeroDivMod
<1>4. Inside(g)
  BY <1>1, <1>2 DEF Inside
<1>5. CellAt(g) = 0
  BY <1>1, <1>2, <1>3 DEF CellAt
<1>6. 0 \in GfxCells(g)
  BY <1>2, <1>4, <1>5, CellInside
<1>7. Marked(g) /\ Kept(g)
  BY <1>2, <1>3, <1>4, <1>5, <1>6 DEF Marked, GfxTypeOK, Kept
<1> QED
  BY <1>7 DEF g

(* A text leaves one cursor too.                                           *)
LEMMA WriteMarked ==
  ASSUME use_framebuffer = TRUE,
         NEW s, NEW text, NEW n \in Nat, DOMAIN text = 1 .. n, Marked(s)
  PROVE  Marked(terminal_write(s, text)) /\ Keeps(s, terminal_write(s, text))
<1>p. PICK w : Steps(w, s, text, n)
  BY WriteSteps
<1>1. /\ w[0] = s
      /\ \A k \in 0 .. n - 1 : w[k + 1] = terminal_putchar(w[k], text[k + 1])
      /\ w[n] = terminal_write(s, text)
  BY <1>p DEF Steps
<1> DEFINE T == {k \in 0 .. n : Marked(w[k]) /\ Keeps(s, w[k])}
<1>2. 0 \in T
  BY <1>1 DEF Keeps
<1>3. ASSUME NEW k \in 0 .. n - 1, k \in T PROVE k + 1 \in T
  <2> DEFINE g == w[k]
             d == w[k + 1]
  <2>1. Marked(g) /\ Keeps(s, g) /\ k + 1 \in 0 .. n
    BY <1>3
  <2>2. d = gfx_putchar(g, text[k + 1])
    BY <1>1 DEF terminal_putchar
  <2> HIDE DEF g, d
  <2>3. Marked(d) /\ Keeps(g, d)
    BY <2>1, <2>2, PutcharMarked
  <2>4. Keeps(s, d)
    BY <2>1, <2>3 DEF Keeps
  <2> QED BY <2>1, <2>3, <2>4 DEF d
<1> HIDE DEF T
<1>4. n \in 0 .. n /\ 0 .. n \subseteq T
  BY <1>2, <1>3, UpTo
<1>5. n \in T
  BY <1>4
<1> QED
  BY <1>1, <1>5 DEF T

-----------------------------------------------------------------------------
(* The text terminal *)

VgaTypeOK(v) ==
  /\ DOMAIN v = {"cells", "row", "column", "cursor"}
  /\ v.row \in 0 .. VGA_HEIGHT - 1
  /\ v.column \in Nat
  /\ DOMAIN v.cells = TextMemory

InRow(v) == VgaTypeOK(v) /\ v.column < VGA_WIDTH

(* The next row, with or without a scroll.                                 *)
LEMMA NextRowInRow ==
  ASSUME NEW v, VgaTypeOK(v)
  PROVE  InRow(NextRow(v)) /\ NextRow(v).column = 0
<1> DEFINE d == [v EXCEPT !.column = 0, !.row = @ + 1]
<1>1. VGA_WIDTH \in Nat \ {0} /\ VGA_HEIGHT \in Nat \ {0}
  BY VGAAssumption
<1>2. /\ DOMAIN d = {"cells", "row", "column", "cursor"}
      /\ d.row = v.row + 1 /\ d.column = 0 /\ DOMAIN d.cells = TextMemory
  BY DEF VgaTypeOK
<1> HIDE DEF d
<1>3. CASE d.row = VGA_HEIGHT
  <2> DEFINE C == [i \in TextMemory |->
                     IF i \notin VGACells THEN d.cells[i]
                     ELSE IF i + VGA_WIDTH \in VGACells THEN d.cells[i + VGA_WIDTH] ELSE Blank]
             e == [d EXCEPT !.cells = C]
  <2>1. NextRow(v) = [e EXCEPT !.row = VGA_HEIGHT - 1]
    BY <1>3 DEF NextRow, vga_scroll, d
  <2>2. DOMAIN C = TextMemory
    OBVIOUS
  <2> HIDE DEF C
  <2> QED BY <1>1, <1>2, <2>1, <2>2 DEF InRow, VgaTypeOK
<1>4. CASE d.row # VGA_HEIGHT
  <2>1. NextRow(v) = d
    BY <1>4 DEF NextRow, d
  <2> QED BY <1>1, <1>2, <1>4, <2>1 DEF InRow, VgaTypeOK
<1> QED
  BY <1>3, <1>4

(* What a character does to the column.                                    *)
LEMMA PutcharColumn ==
  ASSUME NEW v, NEW c, VgaTypeOK(v)
  PROVE  LET p == vga_putchar(v, c) IN
         /\ VgaTypeOK(p)
         /\ p.column < VGA_WIDTH \/ p.column = v.column + (IF c = Erase THEN -1 ELSE 1)
         /\ c = Newline => p.column = 0
         /\ v.column < VGA_WIDTH => p.column < VGA_WIDTH
         /\ p.cursor = At(p)
<1> DEFINE e == [v EXCEPT !.cells[At(v)] = c]
           b == CellBefore(v)
           r == [b EXCEPT !.cells[At(b)] = Blank]
           d == IF c = Newline THEN NextRow(v) ELSE IF c = Erase THEN r ELSE Advance(e)
<1>1. VGA_WIDTH \in Nat \ {0} /\ VGA_HEIGHT \in Nat \ {0} /\ Newline # Erase
  BY VGAAssumption DEF Newline, Erase
<1>2. InRow(NextRow(v)) /\ NextRow(v).column = 0
  BY NextRowInRow
<1>3. /\ VgaTypeOK(r) /\ (r.column < VGA_WIDTH \/ r.column = v.column - 1)
      /\ v.column < VGA_WIDTH => r.column < VGA_WIDTH
  <2>1. /\ VgaTypeOK(b) /\ (b.column < VGA_WIDTH \/ b.column = v.column - 1)
        /\ v.column < VGA_WIDTH => b.column < VGA_WIDTH
    <3>1. CASE v.column > 0
      <4>1. b = [v EXCEPT !.column = @ - 1]
        BY <3>1 DEF CellBefore
      <4> QED BY <1>1, <3>1, <4>1 DEF VgaTypeOK
    <3>2. CASE ~(v.column > 0) /\ v.row > 0
      <4>1. b = [v EXCEPT !.row = @ - 1, !.column = VGA_WIDTH - 1]
        BY <3>2 DEF CellBefore
      <4> QED BY <1>1, <3>2, <4>1 DEF VgaTypeOK
    <3>3. CASE ~(v.column > 0) /\ ~(v.row > 0)
      <4>1. b = v /\ v.column = 0
        BY <3>3 DEF CellBefore, VgaTypeOK
      <4> QED BY <1>1, <4>1
    <3> QED BY <3>1, <3>2, <3>3
  <2> HIDE DEF b
  <2> QED BY <2>1 DEF VgaTypeOK
<1>4. /\ VgaTypeOK(Advance(e)) /\ (Advance(e).column < VGA_WIDTH \/ Advance(e).column = v.column + 1)
      /\ v.column < VGA_WIDTH => Advance(e).column < VGA_WIDTH
  <2> DEFINE a == [e EXCEPT !.column = @ + 1]
  <2>1. VgaTypeOK(e) /\ e.column = v.column
    BY DEF VgaTypeOK
  <2> HIDE DEF e
  <2>2. VgaTypeOK(a) /\ a.column = v.column + 1
    BY <2>1 DEF VgaTypeOK
  <2>3. CASE a.column = VGA_WIDTH
    <3>1. Advance(e) = NextRow(a)
      BY <2>3 DEF Advance
    <3> HIDE DEF a
    <3> QED BY <2>2, <3>1, NextRowInRow DEF InRow
  <2>4. CASE a.column # VGA_WIDTH
    <3>1. Advance(e) = a
      BY <2>4 DEF Advance
    <3> HIDE DEF a
    <3> QED BY <1>1, <2>1, <2>2, <2>4, <3>1 DEF VgaTypeOK
  <2> QED BY <2>3, <2>4
<1>5. vga_putchar(v, c) = [d EXCEPT !.cursor = At(d)]
  BY DEF vga_putchar, update_cursor, vga_entry
<1> HIDE DEF e, r
<1>6. /\ VgaTypeOK(d)
      /\ d.column < VGA_WIDTH \/ d.column = v.column + (IF c = Erase THEN -1 ELSE 1)
      /\ c = Newline => d.column = 0
      /\ v.column < VGA_WIDTH => d.column < VGA_WIDTH
  <2>1. CASE c = Newline
    BY <1>1, <1>2, <2>1 DEF InRow
  <2>2. CASE c # Newline /\ c = Erase
    <3>1. d = r
      BY <2>2
    <3>2. v.column \in Nat /\ r.column \in Nat
      BY <1>3 DEF VgaTypeOK
    <3> HIDE DEF d
    <3> QED BY <1>1, <1>3, <2>2, <3>1, <3>2
  <2>3. CASE c # Newline /\ c # Erase
    <3>1. d = Advance(e)
      BY <2>3
    <3> HIDE DEF d
    <3> QED BY <1>1, <1>4, <2>3, <3>1
  <2> QED BY <2>1, <2>2, <2>3
<1> HIDE DEF d
<1> QED
  BY <1>5, <1>6 DEF VgaTypeOK, At

(* A text written from within a row ends within one.                       *)
LEMMA WriteInRow ==
  ASSUME use_framebuffer = FALSE,
         NEW s, NEW text, NEW n \in Nat, DOMAIN text = 1 .. n, InRow(s)
  PROVE  InRow(terminal_write(s, text))
<1>p. PICK w : Steps(w, s, text, n)
  BY WriteSteps
<1>1. /\ w[0] = s
      /\ \A k \in 0 .. n - 1 : w[k + 1] = terminal_putchar(w[k], text[k + 1])
      /\ w[n] = terminal_write(s, text)
  BY <1>p DEF Steps
<1> DEFINE T == {k \in 0 .. n : InRow(w[k])}
<1>2. 0 \in T
  BY <1>1
<1>3. ASSUME NEW k \in 0 .. n - 1, k \in T PROVE k + 1 \in T
  <2> DEFINE v == w[k]
             d == w[k + 1]
  <2>1. InRow(v) /\ k + 1 \in 0 .. n
    BY <1>3
  <2>2. d = vga_putchar(v, text[k + 1])
    BY <1>1 DEF terminal_putchar
  <2> HIDE DEF v, d
  <2>3. InRow(d)
    BY <2>1, <2>2, PutcharColumn DEF InRow
  <2> QED BY <2>1, <2>3 DEF d
<1> HIDE DEF T
<1>4. n \in 0 .. n /\ 0 .. n \subseteq T
  BY <1>2, <1>3, UpTo
<1>5. n \in T
  BY <1>4
<1> QED
  BY <1>1, <1>5 DEF T

-----------------------------------------------------------------------------
(* Lines *)

(* A line left of the cursor, alone and behind the prompt.                 *)
LEMMA LineFits ==
  ASSUME NEW text \in Texts
  PROVE  /\ text \in Seq(Chars) /\ Len(text) \in 0 .. Room
         /\ Len(PromptText) \in Nat
         /\ Len(PromptText \o text) = Len(PromptText) + Len(text)
         /\ DOMAIN (PromptText \o text) = 1 .. Len(PromptText) + Len(text)
<1>1. Room \in Nat /\ PromptText \in Seq(STRING)
  BY VGAAssumption
<1>2. PICK m \in 0 .. Room : text \in [1 .. m -> Chars]
  BY DEF Texts, BoundedSeq, SeqOf
<1>3. text \in Seq(Chars) /\ Len(text) = m
  BY <1>1, <1>2, SeqDef
<1>4. PromptText \in Seq(STRING \cup Chars) /\ text \in Seq(STRING \cup Chars)
  BY <1>1, <1>3
<1>5. /\ PromptText \o text \in Seq(STRING \cup Chars)
      /\ Len(PromptText \o text) = Len(PromptText) + Len(text)
  BY <1>4
<1> QED
  BY <1>1, <1>2, <1>3, <1>5

(* A text of the right length and of characters is one.                    *)
LEMMA IsLine ==
  ASSUME NEW text \in Seq(Chars), Len(text) <= Room
  PROVE  text \in Texts
<1>1. Len(text) \in 0 .. Room /\ text \in [1 .. Len(text) -> Chars]
  BY VGAAssumption
<1> QED
  BY <1>1 DEF Texts, BoundedSeq, SeqOf

(* What is typed and what Enter leaves are lines again.                    *)
LEMMA LinesEdited ==
  /\ <<>> \in Texts
  /\ \A text \in Texts : \A c \in Chars : Len(text) < Room =>
       Append(text, c) \in Texts /\ Len(Append(text, c)) = Len(text) + 1
  /\ \A text \in Texts : text # <<>> =>
       Front(text) \in Texts /\ Len(Front(text)) = Len(text) - 1
<1>0. Room \in Nat
  BY VGAAssumption
<1>1. <<>> \in Texts
  <2>1. <<>> \in Seq(Chars) /\ Len(<<>>) <= Room
    BY <1>0
  <2> QED BY <2>1, IsLine
<1>2. ASSUME NEW text \in Texts, NEW c \in Chars, Len(text) < Room
      PROVE  Append(text, c) \in Texts /\ Len(Append(text, c)) = Len(text) + 1
  <2>1. text \in Seq(Chars) /\ Len(text) \in Nat
    BY <1>0, LineFits
  <2>2. Append(text, c) \in Seq(Chars) /\ Len(Append(text, c)) = Len(text) + 1
    BY <2>1
  <2>3. Len(Append(text, c)) <= Room
    BY <1>0, <1>2, <2>1, <2>2
  <2> QED BY <2>2, <2>3, IsLine
<1>3. ASSUME NEW text \in Texts, text # <<>>
      PROVE  Front(text) \in Texts /\ Len(Front(text)) = Len(text) - 1
  <2>1. text \in Seq(Chars) /\ Len(text) \in 0 .. Room
    BY LineFits
  <2>2. Len(text) # 0
    BY <1>3, <2>1
  <2>3. /\ SubSeq(text, 1, Len(text) - 1) \in Seq(Chars)
        /\ Len(SubSeq(text, 1, Len(text) - 1)) = Len(text) - 1
    <3>1. /\ 1 \in Int /\ Len(text) - 1 \in Int /\ 1 <= Len(text)
          /\ \A i \in 1 .. Len(text) - 1 : text[i] \in Chars
      BY <1>0, <2>1, <2>2
    <3>2. /\ SubSeq(text, 1, Len(text) - 1) \in Seq(Chars)
          /\ Len(SubSeq(text, 1, Len(text) - 1))
               = IF 1 <= Len(text) - 1 THEN Len(text) - 1 - 1 + 1 ELSE 0
      BY <3>1, SubSeqProperties
    <3> DEFINE front == SubSeq(text, 1, Len(text) - 1)
               n == Len(text)
    <3> HIDE DEF front, n
    <3>3. /\ front \in Seq(Chars) /\ n \in Nat /\ 1 <= n
          /\ Len(front) = IF 1 <= n - 1 THEN n - 1 - 1 + 1 ELSE 0
      BY <1>0, <2>1, <3>1, <3>2 DEF front, n
    <3>4. Len(front) = n - 1
      BY <3>3
    <3> QED BY <3>3, <3>4 DEF front, n
  <2>4. /\ Front(text) \in Seq(Chars) /\ Len(Front(text)) = Len(text) - 1
        /\ Len(Front(text)) <= Room
    BY <1>0, <2>1, <2>3 DEF Front
  <2> QED BY <2>4, IsLine
<1> QED
  BY <1>1, <1>2, <1>3

(* Texts that precede the prompt, output of commands for one.              *)
LEMMA BeforePrompt ==
  ASSUME NEW S, NEW text \in Seq(S)
  PROVE  \E n \in Nat : DOMAIN (text \o PromptText) = 1 .. n
<1>1. PromptText \in Seq(STRING)
  BY VGAAssumption
<1>2. text \in Seq(S \cup STRING) /\ PromptText \in Seq(S \cup STRING)
  BY <1>1
<1>3. text \o PromptText \in Seq(S \cup STRING)
  BY <1>2
<1> QED
  BY <1>3

-----------------------------------------------------------------------------
(* Redrawing *)

(* In graphics: from the start of the row, blanked, prompt and line are    *)
(* written and the cursor is put behind them.                              *)
LEMMA RedrawParts ==
  ASSUME use_framebuffer = TRUE, NEW g, NEW text \in Texts, Marked(g)
  PROVE  \E back :
           /\ Marked(back) /\ back.height = g.height
           /\ g.scrolled => back.scrolled
           /\ Kept(g) => Kept(back)
           /\ CellAt(back) = (g.y \div CHAR_H) * Columns + 0
           /\ gfx_redraw(g, text) =
                gfx_move_cursor(terminal_write(back, PromptText \o text), Len(PromptText) + Len(text), g.y)
<1> DEFINE m == Len(PromptText) + Len(text)
           blanks == [i \in 1 .. Columns |-> Blank]
           full == PromptText \o text
           home == gfx_move_cursor(g, 0, g.y)
           blanked == terminal_write(home, blanks)
           back == gfx_move_cursor(blanked, 0, g.y)
<1>1. /\ Columns \in Nat \ {0} /\ CHAR_H \in Nat
      /\ g.y \in Nat /\ g.height \in Nat /\ g.y % CHAR_H = 0
      /\ DOMAIN blanks = 1 .. Columns
  BY GfxAssumption DEF Marked, GfxTypeOK
<1>2. gfx_redraw(g, text) = gfx_move_cursor(terminal_write(back, full), m, g.y)
  BY DEF gfx_redraw
<1> HIDE DEF m, full, blanks
<1>3. Kept(g) => (~g.scrolled => g.y + CHAR_H <= g.height)
  BY DEF Kept, Inside
<1>m. \A d : Marked(d) =>
        /\ Marked(gfx_move_cursor(d, 0, g.y))
        /\ gfx_move_cursor(d, 0, g.y).height = d.height
        /\ d.scrolled => gfx_move_cursor(d, 0, g.y).scrolled
        /\ (Kept(d) /\ (~d.scrolled => g.y + CHAR_H <= d.height)) => Kept(gfx_move_cursor(d, 0, g.y))
        /\ CellAt(gfx_move_cursor(d, 0, g.y)) = (g.y \div CHAR_H) * Columns + 0
  <2>1. 0 \in Nat /\ 0 < Columns
    BY <1>1
  <2>2. \A d : Marked(d) => CellAt(gfx_move_cursor(d, 0, g.y)) = (g.y \div CHAR_H) * Columns + 0
    BY MoveKeepsText
  <2>3. ASSUME NEW d, Marked(d)
        PROVE  /\ Marked(gfx_move_cursor(d, 0, g.y))
               /\ gfx_move_cursor(d, 0, g.y).height = d.height
               /\ d.scrolled => gfx_move_cursor(d, 0, g.y).scrolled
               /\ (Kept(d) /\ (~d.scrolled => g.y + CHAR_H <= d.height)) => Kept(gfx_move_cursor(d, 0, g.y))
    BY <1>1, <2>1, <2>3, MoveMarked
  <2> QED BY <2>2, <2>3
<1>4. Marked(home) /\ home.height = g.height /\ (g.scrolled => home.scrolled) /\ (Kept(g) => Kept(home))
  BY <1>3, <1>m
<1> HIDE DEF home
<1>5. Marked(blanked) /\ Keeps(home, blanked)
  BY <1>1, <1>4, WriteMarked
<1> HIDE DEF blanked
<1>6. /\ blanked.height = g.height /\ (g.scrolled => blanked.scrolled)
      /\ Kept(g) => Kept(blanked)
  BY <1>4, <1>5 DEF Keeps
<1>7. /\ Marked(back) /\ back.height = blanked.height
      /\ blanked.scrolled => back.scrolled
      /\ (Kept(blanked) /\ (~blanked.scrolled => g.y + CHAR_H <= blanked.height)) => Kept(back)
      /\ CellAt(back) = (g.y \div CHAR_H) * Columns + 0
  BY <1>5, <1>m
<1> HIDE DEF back
<1>8. /\ Marked(back) /\ back.height = g.height /\ (g.scrolled => back.scrolled)
      /\ Kept(g) => Kept(back)
      /\ CellAt(back) = (g.y \div CHAR_H) * Columns + 0
  BY <1>3, <1>6, <1>7
<1> QED
  BY <1>2, <1>8 DEF m, full

(* It leaves one cursor.                                                   *)
LEMMA RedrawMarked ==
  ASSUME use_framebuffer = TRUE, NEW g, NEW text \in Texts, Marked(g)
  PROVE  /\ Marked(gfx_redraw(g, text))
         /\ g.scrolled => gfx_redraw(g, text).scrolled
         /\ Kept(g) /\ Len(PromptText) + Len(text) < Columns => Kept(gfx_redraw(g, text))
<1> DEFINE m == Len(PromptText) + Len(text)
           full == PromptText \o text
<1>1. PICK back : /\ Marked(back) /\ back.height = g.height
                  /\ g.scrolled => back.scrolled
                  /\ Kept(g) => Kept(back)
                  /\ gfx_redraw(g, text) = gfx_move_cursor(terminal_write(back, full), m, g.y)
  BY RedrawParts
<1> DEFINE written == terminal_write(back, full)
           end == gfx_move_cursor(written, m, g.y)
<1>2. /\ m \in Nat /\ DOMAIN full = 1 .. m /\ g.y \in Nat /\ g.y % CHAR_H = 0
      /\ Kept(g) => (~g.scrolled => g.y + CHAR_H <= g.height)
  BY LineFits DEF Marked, GfxTypeOK, Kept, Inside
<1>3. gfx_redraw(g, text) = end
  BY <1>1
<1> HIDE DEF m, full
<1>4. Marked(written) /\ Keeps(back, written)
  BY <1>1, <1>2, WriteMarked
<1>5. /\ written.height = g.height /\ (g.scrolled => written.scrolled)
      /\ Kept(g) => Kept(written)
  BY <1>1, <1>4 DEF Keeps
<1> HIDE DEF written
<1>6. /\ Marked(end) /\ (written.scrolled => end.scrolled)
      /\ (Kept(written) /\ (~written.scrolled => m < Columns /\ g.y + CHAR_H <= written.height)) => Kept(end)
  BY <1>2, <1>4, MoveMarked
<1> HIDE DEF end
<1> QED
  BY <1>2, <1>3, <1>5, <1>6 DEF m

(* On the text terminal: the column is the one behind prompt and line.     *)
LEMMA RedrawColumn ==
  ASSUME NEW v, NEW text \in Texts, VgaTypeOK(v)
  PROVE  /\ VgaTypeOK(vga_redraw(v, text))
         /\ vga_redraw(v, text).column = Len(PromptText) + Len(text)
<1> DEFINE full == PromptText \o text
           C == [i \in TextMemory |->
                   IF i - RowStart(v) \in 0 .. Len(full) - 1 THEN full[i - RowStart(v) + 1]
                   ELSE IF i - RowStart(v) \in 0 .. VGA_WIDTH - 1 THEN Blank
                   ELSE v.cells[i]]
           d == [v EXCEPT !.cells = C, !.column = Len(full)]
<1>1. Len(full) = Len(PromptText) + Len(text) /\ Len(full) \in Nat
  BY VGAAssumption, LineFits
<1>2. vga_redraw(v, text) = [d EXCEPT !.cursor = At(d)]
  BY DEF vga_redraw, update_cursor
<1>3. DOMAIN C = TextMemory
  OBVIOUS
<1> HIDE DEF full, C
<1>4. VgaTypeOK(d) /\ d.column = Len(full)
  BY <1>1, <1>3 DEF VgaTypeOK
<1> HIDE DEF d
<1> QED
  BY <1>1, <1>2, <1>4 DEF VgaTypeOK

-----------------------------------------------------------------------------
(* Spelling *)

Plain(c) == c # Newline /\ c # Erase

(* The m cells in front of place p spell the first m characters of t.      *)
Spelled(cells, p, m, t) ==
  /\ m <= p
  /\ \A i \in 1 .. m : cells[p - m + i - 1] = t[i]

(* The m characters at the end of a text of n are those of t.              *)
EndsWith(text, n, m, t) ==
  /\ DOMAIN text = 1 .. n
  /\ m <= n
  /\ \A i \in 1 .. m : text[n - m + i] = t[i] /\ Plain(t[i])

(* One more character.                                                     *)
LEMMA SpelledOn ==
  ASSUME NEW cells, NEW p \in Nat, NEW m \in Nat, NEW t,
         0 .. p \subseteq DOMAIN cells, Spelled(cells, p, m, t)
  PROVE  Spelled([cells EXCEPT ![p] = t[m + 1]], p + 1, m + 1, t)
<1> DEFINE d == [cells EXCEPT ![p] = t[m + 1]]
<1>1. d[p] = t[m + 1] /\ \A j \in 0 .. p - 1 : d[j] = cells[j]
  OBVIOUS
<1> HIDE DEF d
<1>2. m <= p /\ \A i \in 1 .. m : cells[p - m + i - 1] = t[i]
  BY DEF Spelled
<1>3. ASSUME NEW i \in 1 .. m + 1 PROVE d[p + 1 - (m + 1) + i - 1] = t[i]
  <2>1. CASE i = m + 1
    <3>1. p + 1 - (m + 1) + i - 1 = p
      BY <2>1
    <3> QED BY <1>1, <2>1, <3>1
  <2>2. CASE i \in 1 .. m
    <3>1. p + 1 - (m + 1) + i - 1 = p - m + i - 1 /\ p - m + i - 1 \in 0 .. p - 1
      BY <1>2, <2>2
    <3> QED BY <1>1, <1>2, <2>2, <3>1
  <2> QED BY <2>1, <2>2
<1>4. Spelled(d, p + 1, m + 1, t)
  BY <1>2, <1>3 DEF Spelled
<1> QED
  BY <1>4 DEF d

(* One less, where the place in front is blanked.                          *)
LEMMA SpelledBack ==
  ASSUME NEW cells, NEW p \in Nat, NEW m \in Nat \ {0}, NEW t, NEW b,
         0 .. p - 1 \subseteq DOMAIN cells, Spelled(cells, p, m, t)
  PROVE  Spelled([cells EXCEPT ![p - 1] = b], p - 1, m - 1, t)
<1> DEFINE d == [cells EXCEPT ![p - 1] = b]
<1>1. m <= p /\ \A i \in 1 .. m : cells[p - m + i - 1] = t[i]
  BY DEF Spelled
<1>2. \A j \in 0 .. p - 2 : d[j] = cells[j]
  <2>1. \A j \in 0 .. p - 2 : j # p - 1 /\ j \in DOMAIN cells
    OBVIOUS
  <2> QED BY <2>1
<1> HIDE DEF d
<1>3. ASSUME NEW i \in 1 .. m - 1 PROVE d[p - 1 - (m - 1) + i - 1] = t[i]
  <2>1. p - 1 - (m - 1) + i - 1 = p - m + i - 1 /\ p - m + i - 1 \in 0 .. p - 2 /\ i \in 1 .. m
    BY <1>1
  <2> QED BY <1>1, <1>2, <2>1
<1>4. Spelled(d, p - 1, m - 1, t)
  BY <1>1, <1>3 DEF Spelled
<1> QED
  BY <1>4 DEF d

(* The same cells further up, after a scroll.                              *)
LEMMA SpelledUp ==
  ASSUME NEW cells, NEW d, NEW p \in Nat, NEW w \in Nat, NEW m \in Nat, NEW t,
         m + w <= p, Spelled(cells, p, m, t),
         \A j \in p - w - m .. p - w - 1 : d[j] = cells[j + w]
  PROVE  Spelled(d, p - w, m, t)
<1>1. ASSUME NEW i \in 1 .. m PROVE d[p - w - m + i - 1] = t[i]
  <2>1. /\ p - w - m + i - 1 \in p - w - m .. p - w - 1
        /\ p - w - m + i - 1 + w = p - m + i - 1
    OBVIOUS
  <2> QED BY <2>1 DEF Spelled
<1> QED
  BY <1>1 DEF Spelled

-----------------------------------------------------------------------------
(* Spelling on the text terminal *)

(* The place in a row, and a row further down.                             *)
LEMMA Places ==
  ASSUME NEW v, VgaTypeOK(v)
  PROVE  /\ At(v) \in Nat /\ VGA_WIDTH \in Nat \ {0}
         /\ (VGA_HEIGHT - 1) * VGA_WIDTH \in Nat
         /\ VGA_HEIGHT * VGA_WIDTH = (VGA_HEIGHT - 1) * VGA_WIDTH + VGA_WIDTH
         /\ At(v) - v.column <= (VGA_HEIGHT - 1) * VGA_WIDTH
         /\ (v.row + 1) * VGA_WIDTH = At(v) - v.column + VGA_WIDTH
         /\ (v.row - 1) * VGA_WIDTH = At(v) - v.column - VGA_WIDTH
         /\ v.row = 0 => At(v) = v.column
         /\ At(v) - v.column \in Nat
<1> DEFINE r == v.row
           w == VGA_WIDTH
           h == VGA_HEIGHT
<1>1. r \in Nat /\ w \in Nat \ {0} /\ h \in Nat \ {0} /\ r <= h - 1 /\ v.column \in Nat
  BY VGAAssumption DEF VgaTypeOK
<1>2. At(v) = r * w + v.column
  BY DEF At
<1> HIDE DEF r, w, h
<1>3. w * 0 <= w * r /\ w * r <= w * (h - 1) /\ w * r \in Int /\ w * (h - 1) \in Int
  BY <1>1, TimesMonotone
<1>4. /\ w * 0 = 0 /\ r * w = w * r /\ (h - 1) * w = w * (h - 1) /\ h * w = w * (h - 1) + w
      /\ (r + 1) * w = w * r + w /\ (r - 1) * w = w * r - w /\ (r = 0 => r * w = 0)
  BY <1>1, SMT
<1>5. /\ At(v) \in Nat /\ (h - 1) * w \in Nat /\ h * w = (h - 1) * w + w
      /\ At(v) - v.column <= (h - 1) * w
      /\ (r + 1) * w = At(v) - v.column + w
      /\ (r - 1) * w = At(v) - v.column - w
      /\ r = 0 => At(v) = v.column
      /\ At(v) - v.column \in Nat
  BY <1>1, <1>2, <1>3, <1>4
<1> QED
  BY <1>1, <1>5 DEF r, w, h

(* Where it may be is text memory, up to it at any rate.                   *)
LEMMA PlacesInMemory ==
  ASSUME NEW v, VgaTypeOK(v), v.column < VGA_WIDTH \/ v.column <= Len(PromptText) + Room
  PROVE  0 .. At(v) \subseteq TextMemory
<1>1. Len(PromptText) \in Nat /\ Room \in Nat
  BY VGAAssumption
<1>2. At(v) <= VGA_HEIGHT * VGA_WIDTH + Len(PromptText) + Room /\ VGA_HEIGHT * VGA_WIDTH \in Nat
  <2> DEFINE a == (VGA_HEIGHT - 1) * VGA_WIDTH
             b == VGA_HEIGHT * VGA_WIDTH
             p == At(v)
  <2>1. /\ p \in Nat /\ VGA_WIDTH \in Nat \ {0} /\ a \in Nat /\ b = a + VGA_WIDTH
        /\ p - v.column <= a /\ v.column \in Nat
    BY Places DEF VgaTypeOK
  <2> HIDE DEF a, b, p
  <2>2. p <= b + Len(PromptText) + Room /\ b \in Nat
    BY <1>1, <2>1
  <2> QED BY <2>2 DEF b, p
<1>3. At(v) \in Nat
  BY Places
<1> QED
  BY <1>1, <1>2, <1>3 DEF TextMemory

(* A new row, from the end of a row, scrolled or not, leaves a text as it  *)
(* was, if the rows above the last one have room for it.                   *)
LEMMA NextRowSpelled ==
  ASSUME NEW v, VgaTypeOK(v), v.column = VGA_WIDTH,
         NEW m \in Nat, m <= (VGA_HEIGHT - 1) * VGA_WIDTH, NEW t,
         Spelled(v.cells, At(v), m, t)
  PROVE  Spelled(NextRow(v).cells, At(NextRow(v)), m, t)
<1> DEFINE d == [v EXCEPT !.column = 0, !.row = @ + 1]
           a == (VGA_HEIGHT - 1) * VGA_WIDTH
           p == At(v)
<1>1. /\ p \in Nat /\ VGA_WIDTH \in Nat \ {0} /\ a \in Nat /\ VGA_HEIGHT * VGA_WIDTH = a + VGA_WIDTH
      /\ (v.row + 1) * VGA_WIDTH = p
  BY Places DEF VgaTypeOK
<1>2. /\ DOMAIN d = {"cells", "row", "column", "cursor"}
      /\ d.row = v.row + 1 /\ d.column = 0 /\ d.cells = v.cells /\ DOMAIN d.cells = TextMemory
  BY DEF VgaTypeOK
<1>3. At(d) = p
  BY <1>1, <1>2 DEF At
<1>4. VGA_HEIGHT \in Nat /\ Len(PromptText) \in Nat /\ Room \in Nat
  BY VGAAssumption
<1>5. VGACells = 0 .. a + VGA_WIDTH - 1 /\ VGACells \subseteq TextMemory
  BY <1>1, <1>4 DEF VGACells, TextMemory
<1>6. CASE d.row = VGA_HEIGHT
  <2> DEFINE C == [i \in TextMemory |->
                     IF i \notin VGACells THEN d.cells[i]
                     ELSE IF i + VGA_WIDTH \in VGACells THEN d.cells[i + VGA_WIDTH] ELSE Blank]
             e == [d EXCEPT !.cells = C]
             f == [e EXCEPT !.row = VGA_HEIGHT - 1]
  <2>1. NextRow(v) = f
    BY <1>6 DEF NextRow, vga_scroll
  <2>2. p = a + VGA_WIDTH
    BY <1>1, <1>2, <1>6
  <2> HIDE DEF a, p, d
  <2>3. \A j \in p - VGA_WIDTH - m .. p - VGA_WIDTH - 1 : C[j] = d.cells[j + VGA_WIDTH]
    <3>1. ASSUME NEW j \in p - VGA_WIDTH - m .. p - VGA_WIDTH - 1
          PROVE  j \in VGACells /\ j + VGA_WIDTH \in VGACells /\ j \in TextMemory
      <4>1. m <= a
        BY DEF a
      <4> QED BY <1>1, <1>5, <2>2, <4>1
    <3> QED BY <3>1
  <2> HIDE DEF C
  <2>4. f.cells = C /\ f.row = VGA_HEIGHT - 1 /\ f.column = 0
    BY <1>2
  <2> HIDE DEF e, f
  <2>5. At(f) = p - VGA_WIDTH
    BY <1>1, <1>4, <2>2, <2>4 DEF At, a
  <2>6. Spelled(C, p - VGA_WIDTH, m, t)
    <3>1. m + VGA_WIDTH <= p /\ VGA_WIDTH \in Nat
      BY <1>1, <2>2 DEF a
    <3>2. Spelled(d.cells, p, m, t)
      BY <1>2 DEF p
    <3> QED BY <1>1, <2>3, <3>1, <3>2, SpelledUp
  <2> QED BY <2>1, <2>4, <2>5, <2>6
<1>7. CASE d.row # VGA_HEIGHT
  <2>1. NextRow(v) = d
    BY <1>7 DEF NextRow
  <2> QED BY <1>2, <1>3, <2>1
<1> QED
  BY <1>6, <1>7

(* A character is put behind the text.                                     *)
LEMMA PutcharSpelled ==
  ASSUME NEW v, VgaTypeOK(v), v.column < VGA_WIDTH \/ v.column <= Len(PromptText) + Room,
         NEW m \in Nat, m + 1 <= (VGA_HEIGHT - 1) * VGA_WIDTH, NEW t, Plain(t[m + 1]),
         Spelled(v.cells, At(v), m, t)
  PROVE  LET p == vga_putchar(v, t[m + 1]) IN Spelled(p.cells, At(p), m + 1, t)
<1> DEFINE c == t[m + 1]
           C == [v.cells EXCEPT ![At(v)] = c]
           e == [v EXCEPT !.cells[At(v)] = c]
           a == [e EXCEPT !.column = @ + 1]
           d == Advance(e)
<1>1. At(v) \in Nat /\ 0 .. At(v) \subseteq TextMemory /\ m + 1 \in Nat
  BY Places, PlacesInMemory
<1>2. Spelled(C, At(v) + 1, m + 1, t)
  BY <1>1, SpelledOn DEF VgaTypeOK
<1>3. DOMAIN C = TextMemory
  BY DEF VgaTypeOK
<1>4. e = [v EXCEPT !.cells = C]
  BY DEF VgaTypeOK
<1> HIDE DEF C, e
<1>5. VgaTypeOK(a) /\ a.cells = C /\ a.row = v.row /\ a.column = v.column + 1
  BY <1>3, <1>4 DEF VgaTypeOK
<1>6. At(a) = At(v) + 1
  <2>1. v.row * VGA_WIDTH \in Int /\ v.column \in Nat
    BY VGAAssumption DEF VgaTypeOK
  <2> QED BY <1>5, <2>1 DEF At
<1>7. Spelled(d.cells, At(d), m + 1, t)
  <2>1. CASE a.column = VGA_WIDTH
    <3>1. d = NextRow(a)
      BY <2>1 DEF Advance
    <3> HIDE DEF a, d
    <3> QED BY <1>1, <1>2, <1>5, <1>6, <2>1, <3>1, NextRowSpelled
  <2>2. CASE a.column # VGA_WIDTH
    <3>1. d = a
      BY <2>2 DEF Advance
    <3> QED BY <1>2, <1>5, <1>6, <3>1
  <2> QED BY <2>1, <2>2
<1>8. vga_putchar(v, c) = update_cursor(d)
  BY DEF vga_putchar, vga_entry, Plain, e
<1>9. VgaTypeOK(d)
  <2>1. VgaTypeOK(NextRow(a))
    BY <1>5, NextRowInRow DEF InRow
  <2> QED BY <1>5, <2>1 DEF Advance
<1> HIDE DEF d, c
<1>10. update_cursor(d).cells = d.cells /\ At(update_cursor(d)) = At(d)
  BY <1>9 DEF update_cursor, At, VgaTypeOK
<1> QED
  BY <1>7, <1>8, <1>10 DEF c

(* Erasing takes the last character of the text away.                      *)
LEMMA EraseSpelled ==
  ASSUME NEW v, VgaTypeOK(v), v.column < VGA_WIDTH \/ v.column <= Len(PromptText) + Room,
         NEW m \in Nat \ {0}, NEW t, Spelled(v.cells, At(v), m, t)
  PROVE  LET p == vga_putchar(v, Erase) IN Spelled(p.cells, At(p), m - 1, t)
<1> DEFINE b == CellBefore(v)
           C == [b.cells EXCEPT ![At(b)] = Blank]
           d == [b EXCEPT !.cells[At(b)] = Blank]
<1>1. At(v) \in Nat /\ 0 .. At(v) \subseteq TextMemory
  BY Places, PlacesInMemory
<1>2. m <= At(v)
  BY DEF Spelled
<1>3. b.cells = v.cells /\ VgaTypeOK(b) /\ At(b) = At(v) - 1
  <2>1. CASE v.column > 0
    <3>1. b = [v EXCEPT !.column = @ - 1]
      BY <2>1 DEF CellBefore
    <3>2. b.cells = v.cells /\ b.row = v.row /\ b.column = v.column - 1 /\ VgaTypeOK(b)
      BY <2>1, <3>1 DEF VgaTypeOK
    <3>3. v.row * VGA_WIDTH \in Int /\ v.column \in Nat
      BY VGAAssumption DEF VgaTypeOK
    <3> HIDE DEF b
    <3> QED BY <3>2, <3>3 DEF At
  <2>2. CASE v.column = 0 /\ v.row > 0
    <3>1. b = [v EXCEPT !.row = @ - 1, !.column = VGA_WIDTH - 1]
      BY <2>2 DEF CellBefore
    <3>2. b.cells = v.cells /\ b.row = v.row - 1 /\ b.column = VGA_WIDTH - 1 /\ VgaTypeOK(b)
      BY <2>2, <3>1, VGAAssumption DEF VgaTypeOK
    <3>3. VGA_WIDTH \in Nat /\ (v.row - 1) * VGA_WIDTH = At(v) - VGA_WIDTH
      BY <1>1, <2>2, Places
    <3> HIDE DEF b
    <3>4. At(b) = At(v) - VGA_WIDTH + (VGA_WIDTH - 1)
      BY <3>2, <3>3 DEF At
    <3> QED BY <1>1, <3>2, <3>3, <3>4
  <2>3. CASE v.column = 0 /\ v.row = 0
    <3>1. At(v) = 0
      BY <2>3, Places
    <3> QED BY <1>2, <3>1
  <2> QED BY <2>1, <2>2, <2>3 DEF VgaTypeOK
<1> HIDE DEF b
<1>4. Spelled(C, At(v) - 1, m - 1, t)
  <2>1. 0 .. At(v) - 1 \subseteq DOMAIN v.cells
    BY <1>1 DEF VgaTypeOK
  <2>2. Spelled([v.cells EXCEPT ![At(v) - 1] = Blank], At(v) - 1, m - 1, t)
    BY <1>1, <2>1, SpelledBack
  <2> QED BY <1>3, <2>2
<1>5. d = [b EXCEPT !.cells = C]
  BY <1>3 DEF VgaTypeOK
<1>6. vga_putchar(v, Erase) = update_cursor(d)
  BY DEF vga_putchar, vga_entry, b, Erase, Newline
<1> HIDE DEF C
<1>7. /\ update_cursor(d).cells = C /\ update_cursor(d).row = b.row
      /\ update_cursor(d).column = b.column
  BY <1>3, <1>5 DEF update_cursor, VgaTypeOK
<1>8. At(update_cursor(d)) = At(v) - 1
  BY <1>3, <1>7 DEF At
<1> QED
  BY <1>4, <1>6, <1>7, <1>8

(* What redrawing leaves.                                                  *)
LEMMA RedrawSpelled ==
  ASSUME NEW v, NEW text \in Texts, VgaTypeOK(v)
  PROVE  LET p == vga_redraw(v, text) IN
         /\ p.cursor = At(p)
         /\ Spelled(p.cells, At(p), Len(PromptText) + Len(text), PromptText \o text)
<1> DEFINE full == PromptText \o text
           m == Len(PromptText) + Len(text)
           s == RowStart(v)
           C == [i \in TextMemory |->
                   IF i - s \in 0 .. Len(full) - 1 THEN full[i - s + 1]
                   ELSE IF i - s \in 0 .. VGA_WIDTH - 1 THEN Blank
                   ELSE v.cells[i]]
           d == [v EXCEPT !.cells = C, !.column = Len(full)]
           p == [d EXCEPT !.cursor = At(d)]
<1>1. Len(full) = m /\ m \in Nat /\ m <= Len(PromptText) + Room
  BY VGAAssumption, LineFits
<1>2. vga_redraw(v, text) = p
  BY DEF vga_redraw, update_cursor
<1>3. s \in Nat /\ \A i \in 1 .. m : s + i - 1 \in TextMemory
  <2> DEFINE u == [v EXCEPT !.column = 0]
  <2>1. VgaTypeOK(u) /\ u.column = 0 /\ u.row = v.row
    BY DEF VgaTypeOK
  <2>2. s \in Nat /\ s <= (VGA_HEIGHT - 1) * VGA_WIDTH
    <3>1. v.row * VGA_WIDTH \in Int /\ v.column \in Nat
      BY VGAAssumption DEF VgaTypeOK
    <3>2. s = At(v) - v.column
      BY <3>1 DEF At, RowStart
    <3> QED BY <3>2, Places
  <2> HIDE DEF s
  <2>3. VGA_WIDTH \in Nat \ {0} /\ VGA_HEIGHT * VGA_WIDTH = (VGA_HEIGHT - 1) * VGA_WIDTH + VGA_WIDTH
        /\ (VGA_HEIGHT - 1) * VGA_WIDTH \in Nat
    BY Places
  <2> DEFINE b == VGA_HEIGHT * VGA_WIDTH
             a == (VGA_HEIGHT - 1) * VGA_WIDTH
  <2> HIDE DEF a, b
  <2>4. b = a + VGA_WIDTH /\ a \in Nat /\ s <= a /\ VGA_WIDTH \in Nat
    BY <2>2, <2>3 DEF a, b
  <2>5. \A i \in 1 .. m : s + i - 1 \in 0 .. b + Len(PromptText) + Room
    BY <1>1, <2>2, <2>4, VGAAssumption
  <2> QED BY <2>2, <2>5 DEF TextMemory, b
<1>4. \A i \in 1 .. m : C[s + i - 1] = full[i]
  <2>1. ASSUME NEW i \in 1 .. m PROVE C[s + i - 1] = full[i]
    <3> DEFINE j == s + i - 1
    <3>1. j \in TextMemory /\ j - s \in 0 .. Len(full) - 1 /\ j - s + 1 = i
      BY <1>1, <1>3
    <3> HIDE DEF full, s, j
    <3>2. C[j] = full[j - s + 1]
      BY <3>1
    <3> QED BY <3>1, <3>2, Zenon DEF j
  <2> QED BY <2>1
<1> HIDE DEF C
<1>5. p.cells = C /\ p.row = v.row /\ p.column = m /\ d.row = v.row /\ d.column = m /\ p.cursor = At(d)
  BY <1>1 DEF VgaTypeOK
<1> HIDE DEF p, d
<1>6. At(p) = s + m /\ At(d) = s + m
  BY <1>5 DEF At, RowStart
<1> HIDE DEF s, m, full
<1>7. Spelled(C, s + m, m, full)
  <2>1. m <= s + m /\ s \in Nat
    BY <1>1, <1>3
  <2> DEFINE q == s + m
  <2>2. ASSUME NEW i \in 1 .. m PROVE C[q - m + i - 1] = full[i]
    <3>1. q - m + i - 1 = s + i - 1
      BY <1>1, <2>1
    <3> QED BY <1>4, <3>1
  <2> HIDE DEF q
  <2>3. Spelled(C, q, m, full)
    BY <2>1, <2>2 DEF Spelled, q
  <2> QED BY <2>3 DEF q
<1> QED
  BY <1>2, <1>5, <1>6, <1>7 DEF m, full

(* A text, and what is in front of it.                                     *)
LEMMA WriteSpelled ==
  ASSUME use_framebuffer = FALSE, NEW s, InRow(s), s.cursor = At(s),
         NEW text, NEW n \in Nat, NEW m \in Nat, NEW t, EndsWith(text, n, m, t),
         m <= (VGA_HEIGHT - 1) * VGA_WIDTH
  PROVE  LET p == terminal_write(s, text) IN p.cursor = At(p) /\ Spelled(p.cells, At(p), m, t)
<1>0. DOMAIN text = 1 .. n
  BY DEF EndsWith
<1>p. PICK w : Steps(w, s, text, n)
  BY <1>0, WriteSteps
<1>1. /\ w[0] = s
      /\ \A k \in 0 .. n - 1 : w[k + 1] = terminal_putchar(w[k], text[k + 1])
      /\ w[n] = terminal_write(s, text)
  BY <1>p DEF Steps
<1> DEFINE T == {k \in 0 .. n : /\ InRow(w[k]) /\ w[k].cursor = At(w[k])
                                /\ n - m <= k => Spelled(w[k].cells, At(w[k]), k - (n - m), t)}
<1>2. \A v : InRow(v) => At(v) \in Nat /\ \A cells : Spelled(cells, At(v), 0, t)
  BY Places DEF InRow, Spelled
<1>3. m <= n
  BY DEF EndsWith
<1>4. 0 \in T
  <2>1. n - m <= 0 => 0 - (n - m) = 0
    BY <1>3
  <2> QED BY <1>1, <1>2, <2>1
<1>5. ASSUME NEW k \in 0 .. n - 1, k \in T PROVE k + 1 \in T
  <2> DEFINE v == w[k]
             d == w[k + 1]
             j == k - (n - m)
  <2>1. InRow(v) /\ k + 1 \in 0 .. n /\ (n - m <= k => Spelled(v.cells, At(v), j, t))
    BY <1>5
  <2>2. d = vga_putchar(v, text[k + 1])
    BY <1>1 DEF terminal_putchar
  <2> HIDE DEF v, d
  <2>3. InRow(d) /\ d.cursor = At(d)
    BY <2>1, <2>2, PutcharColumn DEF InRow
  <2>4. CASE n - m <= k
    <3>1. j \in Nat /\ j + 1 \in 1 .. m /\ n - m + (j + 1) = k + 1 /\ k + 1 - (n - m) = j + 1
      BY <1>3, <2>4
    <3>2. text[k + 1] = t[j + 1] /\ Plain(t[j + 1])
      <4>1. text[n - m + (j + 1)] = t[j + 1] /\ Plain(t[j + 1])
        BY <3>1 DEF EndsWith
      <4> QED BY <3>1, <4>1
    <3>3. j + 1 <= (VGA_HEIGHT - 1) * VGA_WIDTH
      <4> DEFINE a == (VGA_HEIGHT - 1) * VGA_WIDTH
      <4>1. a \in Nat /\ m <= a
        BY <2>1, Places DEF InRow
      <4> HIDE DEF a
      <4>2. j + 1 <= a
        BY <3>1, <4>1
      <4> QED BY <4>2 DEF a
    <3>4. VgaTypeOK(v) /\ v.column < VGA_WIDTH /\ Spelled(v.cells, At(v), j, t)
      BY <2>1, <2>4 DEF InRow
    <3> HIDE DEF j
    <3>5. Spelled(d.cells, At(d), j + 1, t)
      BY <2>2, <3>1, <3>2, <3>3, <3>4, PutcharSpelled
    <3> QED BY <2>1, <2>3, <3>1, <3>5 DEF d
  <2>5. CASE n - m = k + 1
    <3>1. k + 1 - (n - m) = 0
      BY <2>5
    <3>2. Spelled(d.cells, At(d), 0, t)
      BY <1>2, <2>3
    <3> QED BY <2>1, <2>3, <3>1, <3>2 DEF d
  <2>6. CASE ~(n - m <= k + 1)
    BY <2>1, <2>3, <2>6 DEF d
  <2> QED BY <2>4, <2>5, <2>6
<1> HIDE DEF T
<1>6. n \in 0 .. n /\ 0 .. n \subseteq T
  BY <1>4, <1>5, UpTo
<1>7. n \in T
  BY <1>6
<1>8. n - m <= n /\ n - (n - m) = m
  BY <1>3
<1>9. w[n].cursor = At(w[n]) /\ Spelled(w[n].cells, At(w[n]), m, t)
  BY <1>7, <1>8 DEF T
<1> QED
  BY <1>1, <1>9

-----------------------------------------------------------------------------
(* Spelling in graphics, until the first scroll *)

(* The rows of two positions one row apart.                                *)
LEMMA RowsApart ==
  ASSUME NEW y \in Nat, y % CHAR_H = 0
  PROVE  /\ (y + CHAR_H) \div CHAR_H = y \div CHAR_H + 1
         /\ (y - CHAR_H) \div CHAR_H = y \div CHAR_H - 1
         /\ y \div CHAR_H \in Int
         /\ y < CHAR_H => y = 0
<1> DEFINE q == y \div CHAR_H
<1>1. CHAR_H \in Nat \ {0} /\ 0 \in 0 .. CHAR_H - 1
  BY GfxAssumption
<1>2. q \in Int /\ y = CHAR_H * q + 0 /\ y = CHAR_H * q
  BY <1>1, DivMod
<1> HIDE DEF q
<1>3. y + CHAR_H = CHAR_H * (q + 1) + 0 /\ y - CHAR_H = CHAR_H * (q - 1) + 0
  BY <1>1, <1>2, SMT
<1>4. (CHAR_H * (q + 1) + 0) \div CHAR_H = q + 1 /\ (CHAR_H * (q - 1) + 0) \div CHAR_H = q - 1
  <2>1. \A s \in Int : (CHAR_H * s + 0) \div CHAR_H = s
    BY <1>1, Quotient
  <2>2. q + 1 \in Int /\ q - 1 \in Int
    BY <1>2
  <2> QED BY <2>1, <2>2
<1>5. y < CHAR_H => y = 0
  <2>1. CASE y < CHAR_H
    <3>1. y \in 0 .. CHAR_H - 1 /\ CHAR_H * 0 + y = y
      BY <1>1, <2>1, SMT
    <3>2. (CHAR_H * 0 + y) % CHAR_H = y
      BY <1>1, <3>1, Remainder
    <3> QED BY <3>1, <3>2
  <2> QED BY <2>1
<1>6. (y + CHAR_H) \div CHAR_H = q + 1 /\ (y - CHAR_H) \div CHAR_H = q - 1
  BY <1>3, <1>4, Zenon
<1> QED
  BY <1>2, <1>5, <1>6 DEF q

(* The cells up to a cursor inside.                                        *)
LEMMA CellsToCursor ==
  ASSUME NEW g, GfxTypeOK(g), Inside(g)
  PROVE  /\ 0 .. CellAt(g) \subseteq DOMAIN g.cells /\ CellAt(g) \in Nat
         /\ CellAt(g) = (g.y \div CHAR_H) * Columns + g.x /\ (g.y \div CHAR_H) * Columns \in Int
<1>1. CellAt(g) \in GfxCells(g) /\ g.y \div CHAR_H \in Int /\ Columns \in Nat /\ g.x \in Nat
  <2>1. g.y \in Nat /\ g.y % CHAR_H = 0
    BY DEF GfxTypeOK
  <2> QED BY <2>1, RowsApart, CellInside, GfxAssumption DEF GfxTypeOK
<1> DEFINE last == (g.height \div CHAR_H) * Columns - 1
<1>2. last \in Int
  <2>1. g.height \div CHAR_H \in Int
    BY DivMod, GfxAssumption DEF GfxTypeOK
  <2> QED BY <1>1, <2>1
<1>3. DOMAIN g.cells = 0 .. last /\ CellAt(g) \in 0 .. last
  BY <1>1 DEF GfxTypeOK, GfxCells
<1> HIDE DEF last
<1>4. CellAt(g) \in Nat /\ 0 .. CellAt(g) \subseteq DOMAIN g.cells
  BY <1>2, <1>3
<1>5. (g.y \div CHAR_H) * Columns \in Int
  BY <1>1
<1> QED
  BY <1>4, <1>5 DEF CellAt

(* A character is put behind the text.                                     *)
LEMMA GfxPutcharSpelled ==
  ASSUME NEW g, Marked(g), Kept(g), NEW m \in Nat, NEW t, Plain(t[m + 1]),
         ~gfx_putchar(g, t[m + 1]).scrolled, Spelled(g.cells, CellAt(g), m, t)
  PROVE  LET d == gfx_putchar(g, t[m + 1]) IN
         CellAt(d) = CellAt(g) + 1 /\ Spelled(d.cells, CellAt(d), m + 1, t)
<1> DEFINE c == t[m + 1]
           p == CellAt(g)
           h == gfx_invert_cell(g)
           C == [g.cells EXCEPT ![p] = c]
           f == Filled(h, c)
           s == StepOn(f)
           d == gfx_invert_cell(s)
<1>1. gfx_putchar(g, c) = d
  BY DEF gfx_putchar, gfx_hide_cursor, Plain
<1>2. ~g.scrolled /\ Inside(g) /\ GfxTypeOK(g)
  BY PutcharMarked DEF Keeps, Kept, Marked
<1>3. /\ 0 .. p \subseteq DOMAIN g.cells /\ p \in Nat
      /\ p = (g.y \div CHAR_H) * Columns + g.x /\ (g.y \div CHAR_H) * Columns \in Int
  BY <1>2, CellsToCursor
<1>4. Spelled(C, p + 1, m + 1, t)
  BY <1>3, SpelledOn
<1>5. /\ Hidden(h) /\ h.cells = g.cells /\ h.x = g.x /\ h.y = g.y /\ h.height = g.height
      /\ h.scrolled = g.scrolled /\ CellAt(h) = p /\ Inside(h)
  BY <1>2, Hides, InvertKeepsText DEF Inside
<1> HIDE DEF h
<1>6. Hidden(f) /\ f.cells = C /\ f.x = g.x /\ f.y = g.y /\ f.height = g.height
  <2>1. f = [h EXCEPT !.cells[CellAt(h)] = c, !.inverted = @ \ {CellAt(h)}]
    BY <1>5 DEF Filled
  <2>2. f.cells = [h.cells EXCEPT ![CellAt(h)] = c] /\ f.x = h.x /\ f.y = h.y /\ f.height = h.height
    BY <1>5, <2>1 DEF Hidden, GfxTypeOK, GfxFields
  <2> HIDE DEF f
  <2>3. Hidden(f)
    BY <1>5, FilledHidden DEF f
  <2> QED BY <1>5, <2>2, <2>3
<1> HIDE DEF C, f
<1>7. Hidden(s) /\ d.cells = s.cells /\ CellAt(d) = CellAt(s) /\ d.scrolled = s.scrolled
  <2>1. Hidden(s)
    BY <1>6, StepOnHidden
  <2> HIDE DEF s
  <2> QED BY <2>1, InvertKeepsText DEF Hidden
<1>8. ~s.scrolled
  BY <1>1, <1>7
<1> HIDE DEF d
<1>9. s.cells = C /\ CellAt(s) = p + 1
  <2>0. /\ Columns \in Nat \ {0} /\ CHAR_H \in Nat \ {0} /\ g.x \in Nat /\ g.x < Columns
        /\ g.y \in Nat /\ g.y % CHAR_H = 0 /\ DOMAIN f = GfxFields
    BY <1>2, <1>6, GfxAssumption DEF Inside, GfxTypeOK, Hidden
  <2>1. CASE g.x + 2 > Columns
    <3> DEFINE e == [f EXCEPT !.x = 0, !.y = @ + CHAR_H]
    <3>1. s = LineFeed(f)
      BY <1>6, <2>1 DEF StepOn
    <3>2. DOMAIN e = GfxFields /\ e.x = 0 /\ e.y = g.y + CHAR_H /\ e.cells = C
      BY <1>6, <2>0 DEF GfxFields
    <3>3. s = e
      <4>1. s = IF e.y + CHAR_H >= e.height THEN gfx_scroll(e) ELSE e
        BY <3>1 DEF LineFeed
      <4> HIDE DEF e
      <4>2. gfx_scroll(e).scrolled = TRUE
        BY <3>2 DEF gfx_scroll, GfxFields
      <4> HIDE DEF s
      <4> QED BY <1>8, <4>1, <4>2
    <3> HIDE DEF e, s
    <3>4. CellAt(s) = (g.y \div CHAR_H + 1) * Columns + 0 /\ g.y \div CHAR_H \in Int
      BY <2>0, <3>2, <3>3, RowsApart DEF CellAt
    <3>5. (g.y \div CHAR_H + 1) * Columns = (g.y \div CHAR_H) * Columns + Columns
      BY <2>0, <3>4, SMT
    <3>6. g.x + 1 = Columns
      BY <2>0, <2>1
    <3> QED BY <1>3, <2>0, <3>2, <3>3, <3>4, <3>5, <3>6
  <2>2. CASE ~(g.x + 2 > Columns)
    <3>1. s = [f EXCEPT !.x = @ + 1]
      BY <1>6, <2>2 DEF StepOn
    <3>2. s.x = g.x + 1 /\ s.y = g.y /\ s.cells = C
      BY <1>6, <2>0, <3>1 DEF GfxFields
    <3> HIDE DEF s
    <3> QED BY <1>3, <2>0, <3>2 DEF CellAt
  <2> QED BY <2>1, <2>2
<1> HIDE DEF s
<1>10. CellAt(d) = CellAt(g) + 1 /\ Spelled(d.cells, CellAt(d), m + 1, t)
  BY <1>4, <1>7, <1>9
<1> QED
  BY <1>1, <1>10

(* Erasing takes the last character of the text away.                      *)
LEMMA GfxEraseSpelled ==
  ASSUME NEW g, Marked(g), Kept(g), NEW m \in Nat \ {0}, NEW t,
         ~gfx_putchar(g, Erase).scrolled, Spelled(g.cells, CellAt(g), m, t)
  PROVE  LET d == gfx_putchar(g, Erase) IN Spelled(d.cells, CellAt(d), m - 1, t)
<1> DEFINE p == CellAt(g)
           h == gfx_invert_cell(g)
           b == StepBack(h)
           C == [b.cells EXCEPT ![CellAt(b)] = Blank]
           f == Filled(b, Blank)
           d == gfx_invert_cell(f)
<1>1. gfx_putchar(g, Erase) = d
  BY DEF gfx_putchar, gfx_hide_cursor, Erase, Newline
<1>2. ~g.scrolled /\ Inside(g) /\ GfxTypeOK(g)
  BY PutcharMarked DEF Keeps, Kept, Marked
<1>3. /\ 0 .. p \subseteq DOMAIN g.cells /\ p \in Nat /\ m <= p
      /\ p = (g.y \div CHAR_H) * Columns + g.x /\ (g.y \div CHAR_H) * Columns \in Int
  BY <1>2, CellsToCursor DEF Spelled
<1>4. /\ Hidden(h) /\ h.cells = g.cells /\ h.x = g.x /\ h.y = g.y /\ h.height = g.height
      /\ h.scrolled = g.scrolled /\ CellAt(h) = p /\ Inside(h) /\ DOMAIN h = GfxFields
  BY <1>2, Hides, InvertKeepsText DEF Inside
<1>5. /\ Columns \in Nat \ {0} /\ CHAR_H \in Nat \ {0} /\ g.x \in Nat /\ g.x < Columns
      /\ g.y \in Nat /\ g.y % CHAR_H = 0 /\ g.height \in Nat
  BY <1>2, GfxAssumption DEF Inside, GfxTypeOK
<1> HIDE DEF h
<1>6. Hidden(b) /\ Keeps(h, b)
  BY <1>4, StepBackHidden DEF Keeps
<1>7. b.cells = g.cells /\ CellAt(b) = p - 1 /\ Inside(b)
  <2>1. CASE g.x >= 1
    <3>1. b = [h EXCEPT !.x = @ - 1]
      BY <1>4, <2>1 DEF StepBack
    <3>2. b.x = g.x - 1 /\ b.y = g.y /\ b.cells = g.cells /\ b.height = g.height
      BY <1>4, <3>1 DEF GfxFields
    <3> HIDE DEF b
    <3> QED BY <1>2, <1>3, <1>5, <3>2 DEF CellAt, Inside
  <2>2. CASE g.x = 0 /\ g.y >= CHAR_H
    <3>1. b = [h EXCEPT !.y = @ - CHAR_H, !.x = Columns - 1]
      BY <1>4, <2>2 DEF StepBack
    <3>2. b.x = Columns - 1 /\ b.y = g.y - CHAR_H /\ b.cells = g.cells /\ b.height = g.height
      BY <1>4, <3>1 DEF GfxFields
    <3> HIDE DEF b
    <3>3. (g.y - CHAR_H) \div CHAR_H = g.y \div CHAR_H - 1 /\ g.y \div CHAR_H \in Int
      BY <1>5, RowsApart
    <3>4. CellAt(b) = (g.y \div CHAR_H - 1) * Columns + (Columns - 1)
      BY <3>2, <3>3 DEF CellAt
    <3>5. (g.y \div CHAR_H - 1) * Columns = (g.y \div CHAR_H) * Columns - Columns
      BY <1>5, <3>3, SMT
    <3>6. CellAt(b) = p - 1
      BY <1>3, <1>5, <2>2, <3>4, <3>5
    <3>7. Inside(b)
      BY <1>2, <1>5, <2>2, <3>2 DEF Inside
    <3> QED BY <3>2, <3>6, <3>7
  <2>3. CASE g.x = 0 /\ g.y < CHAR_H
    <3>1. g.y = 0
      BY <1>5, <2>3, RowsApart
    <3>2. 0 \div CHAR_H = 0
      BY <1>5, ZeroDivMod
    <3>3. p = 0
      BY <1>3, <1>5, <2>3, <3>1, <3>2
    <3> QED BY <1>3, <3>3
  <2> QED BY <1>5, <2>1, <2>2, <2>3
<1> HIDE DEF b
<1>8. Spelled(C, p - 1, m - 1, t)
  <2>1. 0 .. p - 1 \subseteq DOMAIN g.cells
    BY <1>3
  <2>2. Spelled([g.cells EXCEPT ![p - 1] = Blank], p - 1, m - 1, t)
    BY <1>3, <2>1, SpelledBack
  <2> QED BY <1>7, <2>2
<1>9. f.cells = C /\ CellAt(f) = p - 1 /\ Hidden(f)
  <2>1. f = [b EXCEPT !.cells[CellAt(b)] = Blank, !.inverted = @ \ {CellAt(b)}]
    BY <1>7 DEF Filled
  <2>2. f.cells = C /\ f.x = b.x /\ f.y = b.y
    BY <1>6, <2>1 DEF Hidden, GfxTypeOK, GfxFields
  <2>3. Hidden(f)
    BY <1>6, FilledHidden
  <2> HIDE DEF f, C
  <2> QED BY <1>7, <2>2, <2>3 DEF CellAt
<1> HIDE DEF C, f
<1>10. d.cells = f.cells /\ CellAt(d) = CellAt(f)
  BY <1>9, InvertKeepsText DEF Hidden
<1> HIDE DEF d
<1>11. Spelled(d.cells, CellAt(d), m - 1, t)
  BY <1>8, <1>9, <1>10
<1> QED
  BY <1>1, <1>11

(* A text, and what is in front of it; a whole text has its length.        *)
LEMMA GfxWriteSpelled ==
  ASSUME use_framebuffer = TRUE, NEW s, Marked(s), Kept(s),
         NEW text, NEW n \in Nat, NEW m \in Nat, NEW t, EndsWith(text, n, m, t),
         ~terminal_write(s, text).scrolled
  PROVE  LET d == terminal_write(s, text) IN
         /\ Spelled(d.cells, CellAt(d), m, t)
         /\ m = n => CellAt(d) = CellAt(s) + n
<1>0. DOMAIN text = 1 .. n
  BY DEF EndsWith
<1>p. PICK w : Steps(w, s, text, n)
  BY <1>0, WriteSteps
<1>1. /\ w[0] = s
      /\ \A k \in 0 .. n - 1 : w[k + 1] = terminal_putchar(w[k], text[k + 1])
      /\ w[n] = terminal_write(s, text)
  BY <1>p DEF Steps
<1> DEFINE T == {k \in 0 .. n :
                   /\ Marked(w[k]) /\ Keeps(s, w[k])
                   /\ ~w[k].scrolled =>
                        /\ n - m <= k => Spelled(w[k].cells, CellAt(w[k]), k - (n - m), t)
                        /\ m = n => CellAt(w[k]) = CellAt(s) + k}
<1>2. \A g : Marked(g) /\ Kept(g) /\ ~g.scrolled =>
        CellAt(g) \in Nat /\ \A cells : Spelled(cells, CellAt(g), 0, t)
  <2>1. \A g : Marked(g) /\ Kept(g) /\ ~g.scrolled => CellAt(g) \in Nat
    BY CellsToCursor DEF Marked, Kept
  <2> QED BY <2>1 DEF Spelled
<1>3. m <= n
  BY DEF EndsWith
<1>4. 0 \in T
  <2>1. Marked(s) /\ Keeps(s, s) /\ (n - m <= 0 => 0 - (n - m) = 0)
    BY <1>3 DEF Keeps
  <2>2. ~s.scrolled => CellAt(s) = CellAt(s) + 0 /\ Spelled(s.cells, CellAt(s), 0, t)
    BY <1>2
  <2> QED BY <1>1, <2>1, <2>2
<1>5. ASSUME NEW k \in 0 .. n - 1, k \in T PROVE k + 1 \in T
  <2> DEFINE g == w[k]
             d == w[k + 1]
             j == k - (n - m)
  <2>1. /\ Marked(g) /\ Keeps(s, g) /\ k + 1 \in 0 .. n
        /\ ~g.scrolled => /\ n - m <= k => Spelled(g.cells, CellAt(g), j, t)
                          /\ m = n => CellAt(g) = CellAt(s) + k
    BY <1>5
  <2>2. d = gfx_putchar(g, text[k + 1])
    BY <1>1 DEF terminal_putchar
  <2> HIDE DEF g, d
  <2>3. Marked(d) /\ Keeps(g, d) /\ Keeps(s, d) /\ Kept(g) /\ Kept(d)
    BY <2>1, <2>2, PutcharMarked DEF Keeps
  <2>4. ASSUME ~d.scrolled
        PROVE  /\ n - m <= k + 1 => Spelled(d.cells, CellAt(d), k + 1 - (n - m), t)
               /\ m = n => CellAt(d) = CellAt(s) + (k + 1)
    <3>1. ~g.scrolled
      BY <2>3, <2>4 DEF Keeps
    <3>2. CASE n - m <= k
      <4>1. j \in Nat /\ j + 1 \in 1 .. m /\ n - m + (j + 1) = k + 1 /\ k + 1 - (n - m) = j + 1
        BY <1>3, <3>2
      <4>2. text[k + 1] = t[j + 1] /\ Plain(t[j + 1])
        <5>1. text[n - m + (j + 1)] = t[j + 1] /\ Plain(t[j + 1])
          BY <4>1 DEF EndsWith
        <5> QED BY <4>1, <5>1
      <4>3. Spelled(g.cells, CellAt(g), j, t)
        BY <2>1, <3>1, <3>2
      <4> HIDE DEF j
      <4>4. CellAt(d) = CellAt(g) + 1 /\ Spelled(d.cells, CellAt(d), j + 1, t)
        <5>1. d = gfx_putchar(g, t[j + 1])
          BY <2>2, <4>2
        <5> QED BY <2>1, <2>3, <2>4, <4>1, <4>2, <4>3, <5>1, GfxPutcharSpelled
      <4>5. m = n => CellAt(g) = CellAt(s) + k /\ CellAt(s) \in Nat
        <5>1. Kept(s) /\ ~s.scrolled
          BY <2>1, <3>1 DEF Keeps
        <5> QED BY <1>2, <2>1, <3>1, <5>1
      <4> QED BY <4>1, <4>4, <4>5
    <3>3. CASE n - m = k + 1
      <4>1. k + 1 - (n - m) = 0 /\ m # n
        BY <3>3
      <4>2. Spelled(d.cells, CellAt(d), 0, t)
        BY <1>2, <2>3, <2>4
      <4> QED BY <4>1, <4>2
    <3>4. CASE ~(n - m <= k + 1)
      BY <3>4
    <3> QED BY <3>2, <3>3, <3>4
  <2> QED BY <2>1, <2>3, <2>4 DEF d
<1> HIDE DEF T
<1>6. n \in 0 .. n /\ 0 .. n \subseteq T
  BY <1>4, <1>5, UpTo
<1>7. n \in T
  BY <1>6
<1>8. n - m <= n /\ n - (n - m) = m
  BY <1>3
<1>9. ~w[n].scrolled => /\ Spelled(w[n].cells, CellAt(w[n]), m, t)
                        /\ m = n => CellAt(w[n]) = CellAt(s) + n
  BY <1>7, <1>8 DEF T
<1> QED
  BY <1>1, <1>9

(* What redrawing leaves.                                                  *)
LEMMA GfxRedrawSpelled ==
  ASSUME use_framebuffer = TRUE, NEW g, NEW text \in Texts, Marked(g), Kept(g),
         NEW m, m = Len(PromptText) + Len(text), EndsWith(PromptText \o text, m, m, PromptText \o text),
         ~gfx_redraw(g, text).scrolled
  PROVE  LET d == gfx_redraw(g, text) IN Spelled(d.cells, CellAt(d), m, PromptText \o text)
<1> DEFINE full == PromptText \o text
           row == (g.y \div CHAR_H) * Columns
<1>1. PICK back : /\ Marked(back) /\ Kept(back)
                  /\ CellAt(back) = row + 0
                  /\ gfx_redraw(g, text) = gfx_move_cursor(terminal_write(back, full), m, g.y)
  BY RedrawParts
<1>2. m \in Nat /\ row \in Int /\ DOMAIN full = 1 .. m /\ EndsWith(full, m, m, full)
  <2>1. g.y \in Nat /\ g.y % CHAR_H = 0 /\ Columns \in Nat
    BY GfxAssumption DEF Marked, GfxTypeOK
  <2>2. g.y \div CHAR_H \in Int
    BY <2>1, RowsApart
  <2> QED BY <2>1, <2>2, LineFits
<1> HIDE DEF full
<1> DEFINE written == terminal_write(back, full)
           end == gfx_move_cursor(written, m, g.y)
<1>3. Marked(written)
  BY <1>1, <1>2, WriteMarked
<1>4. end.cells = written.cells /\ end.scrolled = written.scrolled /\ CellAt(end) = row + m
  <2> HIDE DEF written
  <2> QED BY <1>3, MoveKeepsText
<1>5. ~written.scrolled
  BY <1>1, <1>4
<1>6. Spelled(written.cells, CellAt(written), m, full) /\ CellAt(written) = CellAt(back) + m
  BY <1>1, <1>2, <1>5, GfxWriteSpelled
<1> HIDE DEF written, row
<1>7. CellAt(end) = CellAt(written)
  BY <1>1, <1>2, <1>4, <1>6
<1>8. Spelled(end.cells, CellAt(end), m, full)
  BY <1>4, <1>6, <1>7
<1> QED
  BY <1>1, <1>8 DEF full, written

-----------------------------------------------------------------------------
(* Spelling prompt and line *)

(* Only the characters spelled matter.                                     *)
LEMMA SpelledSame ==
  ASSUME NEW cells, NEW p, NEW m \in Nat, NEW t, NEW u,
         \A i \in 1 .. m : t[i] = u[i], Spelled(cells, p, m, t)
  PROVE  Spelled(cells, p, m, u)
BY DEF Spelled

(* What prompt and line are made of.                                       *)
LEMMA LinePlain ==
  ASSUME NEW text \in Texts, NEW m, m = Len(PromptText) + Len(text)
  PROVE  EndsWith(PromptText \o text, m, m, PromptText \o text)
<1> DEFINE full == PromptText \o text
           k == Len(PromptText)
<1>1. m \in Nat /\ DOMAIN full = 1 .. m /\ k \in Nat /\ Len(text) \in Nat
      /\ text \in Seq(Chars) /\ PromptText \in Seq(STRING)
  BY VGAAssumption, LineFits
<1>2. ASSUME NEW i \in 1 .. m PROVE Plain(full[i])
  <2>1. CASE i <= k
    <3>1. full[i] = PromptText[i] /\ i \in 1 .. Len(PromptText)
      BY <1>1, <2>1
    <3> QED BY <3>1, TerminalAssumption DEF Plain
  <2>2. CASE i > k
    <3>1. i - k \in 1 .. Len(text) /\ full[i] = text[i - k]
      BY <1>1, <2>2
    <3>2. text[i - k] \in Chars
      BY <1>1, <3>1
    <3> QED BY <3>1, <3>2, TerminalAssumption DEF Plain
  <2> QED BY <1>1, <2>1, <2>2
<1> HIDE DEF full
<1>3. \A i \in 1 .. m : m - m + i = i
  BY <1>1
<1>4. EndsWith(full, m, m, full)
  BY <1>1, <1>2, <1>3 DEF EndsWith
<1> QED
  BY <1>4 DEF full

(* The prompt, alone and behind other output, is prompt and empty line.    *)
LEMMA PromptEnds ==
  /\ Len(PromptText) + Len(<<>>) = Len(PromptText)
  /\ EndsWith(PromptText, Len(PromptText), Len(PromptText), PromptText \o <<>>)
  /\ \A S : \A out \in Seq(S) : \E n \in Nat :
       EndsWith(out \o PromptText, n, Len(PromptText), PromptText \o <<>>)
<1> DEFINE k == Len(PromptText)
<1>1. PromptText \in Seq(STRING) /\ k \in Nat /\ PromptText \o <<>> = PromptText /\ k + Len(<<>>) = k
  BY VGAAssumption
<1>2. \A i \in 1 .. k : Plain(PromptText[i])
  BY TerminalAssumption DEF Plain
<1>3. EndsWith(PromptText, k, k, PromptText)
  BY <1>1, <1>2 DEF EndsWith
<1>4. ASSUME NEW S, NEW out \in Seq(S) PROVE \E n \in Nat : EndsWith(out \o PromptText, n, k, PromptText)
  <2> DEFINE n == Len(out) + k
  <2>1. out \in Seq(S \cup STRING) /\ PromptText \in Seq(S \cup STRING)
    BY <1>1
  <2>2. /\ n \in Nat /\ k <= n /\ DOMAIN (out \o PromptText) = 1 .. n
        /\ \A i \in 1 .. k : (out \o PromptText)[n - k + i] = PromptText[i]
    BY <2>1
  <2> HIDE DEF n
  <2>3. EndsWith(out \o PromptText, n, k, PromptText)
    BY <1>2, <2>2 DEF EndsWith
  <2> QED BY <2>2, <2>3
<1> QED
  BY <1>1, <1>3, <1>4

(* What is typed and erased is the last character of prompt and line.      *)
LEMMA LineSpelling ==
  ASSUME NEW text \in Texts, NEW m, m = Len(PromptText) + Len(text)
  PROVE  /\ m \in Nat
         /\ \A c \in Chars : /\ (PromptText \o Append(text, c))[m + 1] = c
                             /\ \A i \in 1 .. m : (PromptText \o text)[i] = (PromptText \o Append(text, c))[i]
         /\ text # <<>> => /\ m \in Nat \ {0}
                           /\ \A i \in 1 .. m - 1 : (PromptText \o text)[i] = (PromptText \o Front(text))[i]
<1> DEFINE k == Len(PromptText)
           n == Len(text)
<1>1. PromptText \in Seq(STRING) /\ k \in Nat /\ text \in Seq(Chars) /\ n \in Nat /\ m = k + n
  BY VGAAssumption, LineFits
<1>2. PromptText \in Seq(STRING \cup Chars) /\ text \in Seq(STRING \cup Chars)
  BY <1>1
<1>3. ASSUME NEW c \in Chars
      PROVE  /\ (PromptText \o Append(text, c))[m + 1] = c
             /\ \A i \in 1 .. m : (PromptText \o text)[i] = (PromptText \o Append(text, c))[i]
  <2>1. /\ Append(text, c) \in Seq(STRING \cup Chars) /\ Len(Append(text, c)) = n + 1
        /\ Append(text, c)[n + 1] = c /\ \A i \in 1 .. n : Append(text, c)[i] = text[i]
    BY <1>1, <1>2
  <2> QED BY <1>1, <1>2, <2>1
<1>4. ASSUME text # <<>>
      PROVE  /\ m \in Nat \ {0}
             /\ \A i \in 1 .. m - 1 : (PromptText \o text)[i] = (PromptText \o Front(text))[i]
  <2>1. n # 0
    BY <1>1, <1>4
  <2>2. /\ Front(text) \in Seq(Chars) /\ Len(Front(text)) = n - 1
    BY <1>1, <1>4, LinesEdited, LineFits
  <2>3. \A i \in 1 .. n - 1 : Front(text)[i] = text[i]
    BY <1>1, <2>1 DEF Front
  <2>4. Front(text) \in Seq(STRING \cup Chars)
    BY <2>2
  <2>5. m \in Nat \ {0}
    BY <1>1, <2>1
  <2>6. ASSUME NEW i \in 1 .. m - 1 PROVE (PromptText \o text)[i] = (PromptText \o Front(text))[i]
    <3> DEFINE f == Front(text)
    <3> HIDE DEF f
    <3>1. f \in Seq(STRING \cup Chars) /\ Len(f) = n - 1 /\ \A j \in 1 .. n - 1 : f[j] = text[j]
      BY <2>2, <2>3, <2>4 DEF f
    <3>2. CASE i <= k
      <4>1. i \in 1 .. k
        BY <1>1, <3>2
      <4>2. (PromptText \o text)[i] = PromptText[i] /\ (PromptText \o f)[i] = PromptText[i]
        BY <1>2, <3>1, <4>1
      <4> QED BY <4>2 DEF f
    <3>3. CASE i > k
      <4>1. i - k \in 1 .. n - 1
        BY <1>1, <3>3
      <4>2. (PromptText \o text)[i] = text[i - k] /\ (PromptText \o f)[i] = f[i - k]
        BY <1>1, <1>2, <3>1, <3>3, <4>1
      <4> QED BY <3>1, <4>1, <4>2 DEF f
    <3>4. i <= k \/ i > k
      BY <1>1
    <3> QED BY <3>2, <3>3, <3>4, Zenon
  <2> QED BY <2>5, <2>6, Zenon
<1>5. m \in Nat
  BY <1>1
<1> QED
  BY <1>3, <1>4, <1>5, Zenon

-----------------------------------------------------------------------------
(* The inductive invariant *)

(* In graphics: one cursor on the screen, which stays in the framebuffer   *)
(* until the first scroll, unless the line is too long for a row.          *)
GraphicsOK(s, text) ==
  /\ Marked(s)
  /\ Len(PromptText) + Len(text) < Columns => Kept(s)

(* On the text terminal the column may pass the width, in a long line.     *)
TextOK(s, text) ==
  /\ VgaTypeOK(s)
  /\ s.column < VGA_WIDTH \/ s.column <= Len(PromptText) + Len(text)

TermInv ==
  /\ line \in Texts
  /\ use_framebuffer \in BOOLEAN
  /\ use_framebuffer = TRUE => GraphicsOK(screen, line)
  /\ use_framebuffer = FALSE => TextOK(screen, line)

(* The banner and the first prompt.                                        *)
LEMMA TInitInv == TInit => TermInv
<1> SUFFICES ASSUME TInit PROVE TermInv
  OBVIOUS
<1> DEFINE banner == <<"N", Newline>>
           text == banner \o PromptText
<1>1. line = <<>> /\ line \in Texts
  BY LinesEdited DEF TInit
<1>2. PICK n \in Nat : DOMAIN text = 1 .. n
  <2>1. banner \in Seq({"N", Newline})
    OBVIOUS
  <2> HIDE DEF banner
  <2> QED BY <2>1, BeforePrompt
<1> HIDE DEF text
<1>3. CASE use_framebuffer = FALSE
  <2> DEFINE s == vga_clear([cells |-> [i \in TextMemory |-> Blank]])
  <2>1. InRow(s)
    BY VGAAssumption DEF vga_clear, InRow, VgaTypeOK
  <2>2. screen = terminal_write(s, text)
    BY <1>3 DEF TInit, text
  <2> HIDE DEF s
  <2>3. InRow(screen)
    BY <1>2, <1>3, <2>1, <2>2, WriteInRow
  <2> QED BY <1>1, <1>3, <2>3 DEF TermInv, TextOK, InRow
<1>4. CASE use_framebuffer = TRUE
  <2>1. PICK height \in FbHeights : screen = terminal_write(gfx_clear(height), text)
    BY <1>4 DEF TInit, text
  <2>2. height \in Nat /\ height >= CHAR_H
    BY TerminalAssumption
  <2> DEFINE s == gfx_clear(height)
  <2>3. Marked(s) /\ Kept(s)
    BY <2>2, ClearMarked
  <2> HIDE DEF s
  <2>4. screen = terminal_write(s, text)
    BY <2>1 DEF s
  <2>5. Marked(screen) /\ Keeps(s, screen)
    BY <1>2, <1>4, <2>3, <2>4, WriteMarked
  <2> QED BY <1>1, <1>4, <2>3, <2>5 DEF TermInv, GraphicsOK, Keeps
<1> QED
  BY <1>3, <1>4 DEF TInit

(* The line after a step, and what every step starts from.                 *)
LEMMA StepLine ==
  ASSUME line \in Texts, TNext
  PROVE  line' \in Texts /\ ~Stray /\ use_framebuffer' = use_framebuffer
<1>1. ASSUME NEW c \in Chars, TypeKey(c) \/ TypeSerial(c) PROVE line' \in Texts
  BY <1>1, LinesEdited DEF TypeKey, TypeSerial
<1>2. ASSUME Backspace PROVE line' \in Texts
  BY <1>2, LinesEdited DEF Backspace
<1>3. ASSUME NEW text \in Texts, MoveOrReplace(text) PROVE line' \in Texts
  BY <1>3 DEF MoveOrReplace
<1>4. ASSUME Enter PROVE line' \in Texts
  BY <1>4, LinesEdited DEF Enter, RunLine
<1>5. Running
  BY DEF TNext, TypeKey, TypeSerial, Backspace, MoveOrReplace, Enter
<1> QED
  BY <1>1, <1>2, <1>3, <1>4, <1>5 DEF TNext, Running

(* A step in graphics.                                                     *)
LEMMA GraphicsStep ==
  ASSUME use_framebuffer = TRUE, line \in Texts, Marked(screen), TNext
  PROVE  GraphicsOK(screen', line')
<1>1. line' \in Texts /\ Kept(screen)
  BY StepLine DEF Stray, Kept, Marked
<1>2. \A g, c : Marked(g) => Marked(terminal_putchar(g, c)) /\ Keeps(g, terminal_putchar(g, c))
  BY PutcharMarked DEF terminal_putchar
<1>3. \A g : \A text \in Texts : Marked(g) =>
        /\ Marked(redraw_input(g, text))
        /\ Kept(g) /\ Len(PromptText) + Len(text) < Columns => Kept(redraw_input(g, text))
  BY RedrawMarked DEF redraw_input
<1>4. ASSUME NEW c \in Chars, TypeKey(c) PROVE GraphicsOK(screen', line')
  <2> DEFINE g == terminal_putchar(screen, c)
  <2>1. Marked(g) /\ Kept(g)
    BY <1>1, <1>2 DEF Keeps
  <2>2. screen' = redraw_input(g, line')
    BY <1>4 DEF TypeKey
  <2> HIDE DEF g
  <2> QED BY <1>1, <1>3, <2>1, <2>2 DEF GraphicsOK
<1>5. ASSUME NEW c \in Chars, TypeSerial(c) PROVE GraphicsOK(screen', line')
  <2>1. screen' = terminal_putchar(screen, c)
    BY <1>5 DEF TypeSerial
  <2> QED BY <1>1, <1>2, <2>1 DEF GraphicsOK, Keeps
<1>6. CASE Backspace
  <2>1. screen' = terminal_putchar(screen, Erase)
    BY <1>6 DEF Backspace
  <2> QED BY <1>1, <1>2, <2>1 DEF GraphicsOK, Keeps
<1>7. ASSUME NEW text \in Texts, MoveOrReplace(text) PROVE GraphicsOK(screen', line')
  <2>1. screen' = redraw_input(screen, text) /\ line' = text
    BY <1>7 DEF MoveOrReplace
  <2> QED BY <1>1, <1>3, <2>1 DEF GraphicsOK
<1>8. CASE Enter
  <2> DEFINE fed == terminal_putchar(screen, Newline)
             cleared == terminal_clear(fed)
  <2>1. Marked(fed) /\ Kept(fed)
    BY <1>1, <1>2 DEF Keeps
  <2>2. Marked(cleared) /\ Kept(cleared)
    <3>1. cleared = gfx_clear(fed.height)
      BY DEF terminal_clear
    <3>2. fed.height \in Nat /\ fed.height >= CHAR_H
      BY <2>1 DEF Marked, GfxTypeOK
    <3> HIDE DEF fed, cleared
    <3> QED BY <3>1, <3>2, ClearMarked
  <2>3. \/ screen' = terminal_write(fed, PromptText)
        \/ \E out \in Outputs : screen' = terminal_write(fed, out \o PromptText)
        \/ screen' = terminal_write(cleared, PromptText)
    BY <1>8 DEF Enter, RunLine
  <2>4. \E n \in Nat : DOMAIN PromptText = 1 .. n
    BY VGAAssumption
  <2>5. \A out \in Outputs : \E n \in Nat : DOMAIN (out \o PromptText) = 1 .. n
    BY TerminalAssumption, BeforePrompt
  <2> HIDE DEF fed, cleared
  <2>6. \A g, text : Marked(g) /\ (\E n \in Nat : DOMAIN text = 1 .. n) =>
          Marked(terminal_write(g, text)) /\ Keeps(g, terminal_write(g, text))
    BY WriteMarked
  <2>7. Marked(screen') /\ Kept(screen')
    BY <2>1, <2>2, <2>3, <2>4, <2>5, <2>6 DEF Keeps
  <2> QED BY <2>7 DEF GraphicsOK
<1> QED
  BY <1>4, <1>5, <1>6, <1>7, <1>8 DEF TNext

(* A step on the text terminal.                                            *)
LEMMA TextStep ==
  ASSUME use_framebuffer = FALSE, line \in Texts, TextOK(screen, line), TNext
  PROVE  TextOK(screen', line')
<1>1. line' \in Texts
  BY StepLine
<1>2. /\ VGA_WIDTH \in Nat \ {0} /\ Len(PromptText) \in Nat /\ Len(line) \in Nat
      /\ VgaTypeOK(screen) /\ screen.column \in Nat
      /\ screen.column < VGA_WIDTH \/ screen.column <= Len(PromptText) + Len(line)
  BY VGAAssumption, LineFits DEF TextOK, VgaTypeOK
<1>3. \A v, c : VgaTypeOK(v) =>
        /\ VgaTypeOK(terminal_putchar(v, c)) /\ terminal_putchar(v, c).column \in Nat
        /\ \/ terminal_putchar(v, c).column < VGA_WIDTH
           \/ terminal_putchar(v, c).column = v.column + (IF c = Erase THEN -1 ELSE 1)
        /\ c = Newline => terminal_putchar(v, c).column = 0
        /\ v.column < VGA_WIDTH => terminal_putchar(v, c).column < VGA_WIDTH
  BY PutcharColumn DEF terminal_putchar, VgaTypeOK
<1>4. \A v : \A text \in Texts : VgaTypeOK(v) => TextOK(redraw_input(v, text), text)
  <2>1. ASSUME NEW v, NEW text \in Texts, VgaTypeOK(v) PROVE TextOK(redraw_input(v, text), text)
    <3>1. /\ VgaTypeOK(redraw_input(v, text))
          /\ redraw_input(v, text).column = Len(PromptText) + Len(text)
      BY <2>1, RedrawColumn DEF redraw_input
    <3>2. Len(PromptText) + Len(text) \in Nat
      BY LineFits, VGAAssumption
    <3> QED BY <3>1, <3>2 DEF TextOK
  <2> QED BY <2>1
<1>5. ASSUME NEW c \in Chars, TypeKey(c) PROVE TextOK(screen', line')
  <2> DEFINE v == terminal_putchar(screen, c)
  <2>1. VgaTypeOK(v)
    BY <1>2, <1>3
  <2>2. screen' = redraw_input(v, line')
    BY <1>5 DEF TypeKey
  <2> HIDE DEF v
  <2> QED BY <1>1, <1>4, <2>1, <2>2
<1>6. ASSUME NEW c \in Chars, TypeSerial(c) PROVE TextOK(screen', line')
  <2>1. screen' = terminal_putchar(screen, c)
    BY <1>6 DEF TypeSerial
  <2>2. Len(line') = Len(line) + 1
    BY <1>6, LinesEdited DEF TypeSerial
  <2>3. VgaTypeOK(screen') /\ (screen'.column < VGA_WIDTH \/ screen'.column <= screen.column + 1)
        /\ (screen.column < VGA_WIDTH => screen'.column < VGA_WIDTH)
    BY <1>2, <1>3, <2>1
  <2> QED BY <1>2, <2>2, <2>3 DEF TextOK, VgaTypeOK
<1>7. CASE Backspace
  <2>1. screen' = terminal_putchar(screen, Erase)
    BY <1>7 DEF Backspace
  <2>2. Len(line') = Len(line) - 1
    BY <1>7, LinesEdited DEF Backspace
  <2>3. VgaTypeOK(screen') /\ (screen'.column < VGA_WIDTH \/ screen'.column = screen.column - 1)
        /\ (screen.column < VGA_WIDTH => screen'.column < VGA_WIDTH)
    BY <1>2, <1>3, <2>1
  <2> QED BY <1>2, <2>2, <2>3 DEF TextOK, VgaTypeOK
<1>8. ASSUME NEW text \in Texts, MoveOrReplace(text) PROVE TextOK(screen', line')
  <2>1. screen' = redraw_input(screen, text) /\ line' = text
    BY <1>8 DEF MoveOrReplace
  <2> QED BY <1>2, <1>4, <2>1
<1>9. CASE Enter
  <2> DEFINE fed == terminal_putchar(screen, Newline)
             cleared == terminal_clear(fed)
  <2>1. InRow(fed)
    BY <1>2, <1>3 DEF InRow
  <2>2. InRow(cleared)
    BY VGAAssumption DEF terminal_clear, vga_clear, InRow, VgaTypeOK
  <2>3. \/ screen' = terminal_write(fed, PromptText)
        \/ \E out \in Outputs : screen' = terminal_write(fed, out \o PromptText)
        \/ screen' = terminal_write(cleared, PromptText)
    BY <1>9 DEF Enter, RunLine
  <2>4. \E n \in Nat : DOMAIN PromptText = 1 .. n
    BY VGAAssumption
  <2>5. \A out \in Outputs : \E n \in Nat : DOMAIN (out \o PromptText) = 1 .. n
    BY TerminalAssumption, BeforePrompt
  <2> HIDE DEF fed, cleared
  <2>6. \A v, text : InRow(v) /\ (\E n \in Nat : DOMAIN text = 1 .. n) => InRow(terminal_write(v, text))
    BY WriteInRow
  <2>7. InRow(screen')
    BY <2>1, <2>2, <2>3, <2>4, <2>5, <2>6
  <2> QED BY <2>7 DEF TextOK, InRow
<1> QED
  BY <1>5, <1>6, <1>7, <1>8, <1>9 DEF TNext

(* The invariant holds in every state.                                     *)
LEMMA TSpecInv == TSpec => []TermInv
<1>1. ASSUME TermInv, [TNext]_tvars PROVE TermInv'
  <2>1. CASE UNCHANGED tvars
    BY <1>1, <2>1 DEF TermInv, GraphicsOK, TextOK, tvars
  <2>2. CASE TNext
    <3>1. line' \in Texts /\ use_framebuffer' = use_framebuffer
      BY <1>1, <2>2, StepLine DEF TermInv
    <3>2. use_framebuffer = TRUE => GraphicsOK(screen', line')
      BY <1>1, <2>2, GraphicsStep DEF TermInv, GraphicsOK
    <3>3. use_framebuffer = FALSE => TextOK(screen', line')
      BY <1>1, <2>2, TextStep DEF TermInv
    <3> QED BY <1>1, <3>1, <3>2, <3>3 DEF TermInv
  <2> QED BY <1>1, <2>1, <2>2
<1> QED
  BY TInitInv, <1>1, PTL DEF TSpec

-----------------------------------------------------------------------------
(* What the cells before the cursor spell *)

GraphicsSpelled(s, text) ==
  ~s.scrolled => Spelled(s.cells, CellAt(s), Len(PromptText) + Len(text), PromptText \o text)

TextSpelled(s, text) ==
  s.cursor = At(s) /\ Spelled(s.cells, At(s), Len(PromptText) + Len(text), PromptText \o text)

ShownInv ==
  /\ use_framebuffer = TRUE => GraphicsSpelled(screen, line)
  /\ use_framebuffer = FALSE => TextSpelled(screen, line)

(* Prompt and line fit above the last row, so that they stay when a        *)
(* character in the last cell makes the screen scroll.                     *)
LEMMA ShownFits ==
  ASSUME NEW text \in Texts
  PROVE  /\ Len(PromptText) + Len(text) <= (VGA_HEIGHT - 1) * VGA_WIDTH
         /\ Len(PromptText) <= (VGA_HEIGHT - 1) * VGA_WIDTH
<1> DEFINE a == (VGA_HEIGHT - 1) * VGA_WIDTH
<1>1. a \in Int /\ Room \in Nat /\ Len(PromptText) \in Nat /\ Len(text) \in 0 .. Room
  BY VGAAssumption, LineFits
<1>2. Len(PromptText) + Room <= a
  BY TerminalAssumption
<1> HIDE DEF a
<1>3. Len(PromptText) + Len(text) <= a /\ Len(PromptText) <= a
  BY <1>1, <1>2
<1> QED
  BY <1>3 DEF a

(* A text that ends with the prompt shows an empty line.                   *)
LEMMA PromptSpelled ==
  ASSUME NEW text, NEW n \in Nat, EndsWith(text, n, Len(PromptText), PromptText \o <<>>)
  PROVE  /\ \A s : use_framebuffer = TRUE /\ Marked(s) /\ Kept(s) => GraphicsSpelled(terminal_write(s, text), <<>>)
         /\ \A s : use_framebuffer = FALSE /\ InRow(s) /\ s.cursor = At(s) => TextSpelled(terminal_write(s, text), <<>>)
<1> DEFINE k == Len(PromptText)
           t == PromptText \o <<>>
<1>1. k \in Nat /\ k + Len(<<>>) = k /\ EndsWith(text, n, k, t) /\ k <= (VGA_HEIGHT - 1) * VGA_WIDTH
  BY VGAAssumption, PromptEnds, ShownFits, LinesEdited
<1>2. ASSUME NEW s, use_framebuffer = TRUE, Marked(s), Kept(s)
      PROVE  GraphicsSpelled(terminal_write(s, text), <<>>)
  <2> DEFINE d == terminal_write(s, text)
  <2> HIDE DEF k, t
  <2>1. ~d.scrolled => Spelled(d.cells, CellAt(d), k, t)
    BY <1>1, <1>2, GfxWriteSpelled
  <2> QED BY <1>1, <2>1 DEF GraphicsSpelled, k, t
<1>3. ASSUME NEW s, use_framebuffer = FALSE, InRow(s), s.cursor = At(s)
      PROVE  TextSpelled(terminal_write(s, text), <<>>)
  <2> DEFINE d == terminal_write(s, text)
  <2> HIDE DEF k, t
  <2>1. d.cursor = At(d) /\ Spelled(d.cells, At(d), k, t)
    BY <1>1, <1>3, WriteSpelled
  <2> QED BY <1>1, <2>1 DEF TextSpelled, k, t
<1> QED
  BY <1>2, <1>3

(* The banner and the first prompt.                                        *)
LEMMA TInitShown == TInit => ShownInv
<1> SUFFICES ASSUME TInit PROVE ShownInv
  OBVIOUS
<1> DEFINE banner == <<"N", Newline>>
           text == banner \o PromptText
<1>1. line = <<>>
  BY DEF TInit
<1>2. PICK n \in Nat : EndsWith(text, n, Len(PromptText), PromptText \o <<>>)
  <2>1. banner \in Seq({"N", Newline})
    OBVIOUS
  <2> HIDE DEF banner
  <2> QED BY <2>1, PromptEnds
<1> HIDE DEF text
<1>3. CASE use_framebuffer = FALSE
  <2> DEFINE s == vga_clear([cells |-> [i \in TextMemory |-> Blank]])
  <2>1. InRow(s) /\ s.cursor = At(s)
    BY VGAAssumption DEF vga_clear, InRow, VgaTypeOK, At
  <2>2. screen = terminal_write(s, text)
    BY <1>3 DEF TInit, text
  <2> HIDE DEF s
  <2> QED BY <1>1, <1>2, <1>3, <2>1, <2>2, PromptSpelled DEF ShownInv
<1>4. CASE use_framebuffer = TRUE
  <2>1. PICK height \in FbHeights : screen = terminal_write(gfx_clear(height), text)
    BY <1>4 DEF TInit, text
  <2>2. height \in Nat /\ height >= CHAR_H
    BY TerminalAssumption
  <2> DEFINE s == gfx_clear(height)
  <2>3. Marked(s) /\ Kept(s)
    BY <2>2, ClearMarked
  <2> HIDE DEF s
  <2>4. screen = terminal_write(s, text)
    BY <2>1 DEF s
  <2> QED BY <1>1, <1>2, <1>4, <2>3, <2>4, PromptSpelled DEF ShownInv
<1> QED
  BY <1>3, <1>4 DEF TInit

(* A step in graphics.                                                     *)
LEMMA GraphicsShownStep ==
  ASSUME use_framebuffer = TRUE, line \in Texts, Marked(screen), GraphicsSpelled(screen, line), TNext
  PROVE  GraphicsSpelled(screen', line')
<1> DEFINE m == Len(PromptText) + Len(line)
           t == PromptText \o line
<1>1. line' \in Texts /\ Kept(screen) /\ m \in Nat
  BY StepLine, LineSpelling DEF Stray, Kept, Marked
<1>2. ASSUME NEW g, NEW text \in Texts, Marked(g), Kept(g)
      PROVE  GraphicsSpelled(redraw_input(g, text), text)
  <2> DEFINE k == Len(PromptText) + Len(text)
             d == gfx_redraw(g, text)
  <2>1. redraw_input(g, text) = d
    BY DEF redraw_input
  <2>2. EndsWith(PromptText \o text, k, k, PromptText \o text)
    BY LinePlain
  <2>3. ~d.scrolled => Spelled(d.cells, CellAt(d), k, PromptText \o text)
    BY <1>2, <2>2, GfxRedrawSpelled
  <2> QED BY <2>1, <2>3 DEF GraphicsSpelled
<1>3. \A c : /\ Marked(terminal_putchar(screen, c)) /\ Keeps(screen, terminal_putchar(screen, c))
             /\ terminal_putchar(screen, c) = gfx_putchar(screen, c)
  BY PutcharMarked DEF terminal_putchar
<1>4. ASSUME NEW c \in Chars, TypeKey(c) PROVE GraphicsSpelled(screen', line')
  <2> DEFINE g == terminal_putchar(screen, c)
  <2>1. Marked(g) /\ Kept(g)
    BY <1>1, <1>3 DEF Keeps
  <2>2. screen' = redraw_input(g, line')
    BY <1>4 DEF TypeKey
  <2> HIDE DEF g
  <2> QED BY <1>1, <1>2, <2>1, <2>2
<1>5. ASSUME NEW c \in Chars, TypeSerial(c) PROVE GraphicsSpelled(screen', line')
  <2> DEFINE u == PromptText \o Append(line, c)
             d == gfx_putchar(screen, c)
  <2>1. screen' = d /\ line' = Append(line, c) /\ Len(line) < Room
    BY <1>3, <1>5 DEF TypeSerial
  <2>2. /\ u[m + 1] = c /\ \A i \in 1 .. m : t[i] = u[i]
        /\ Len(PromptText) + Len(Append(line, c)) = m + 1
    <3>1. Len(Append(line, c)) = Len(line) + 1 /\ Len(PromptText) \in Nat /\ Len(line) \in Nat
      BY <2>1, LinesEdited, LineFits
    <3>2. u[m + 1] = c /\ \A i \in 1 .. m : t[i] = u[i]
      BY LineSpelling
    <3> QED BY <3>1, <3>2
  <2>3. Plain(c)
    BY TerminalAssumption DEF Plain
  <2>4. Keeps(screen, d)
    BY <1>3
  <2> SUFFICES ASSUME ~d.scrolled PROVE Spelled(d.cells, CellAt(d), m + 1, u)
    BY <2>1, <2>2 DEF GraphicsSpelled
  <2>5. Spelled(screen.cells, CellAt(screen), m, t)
    BY <2>4 DEF GraphicsSpelled, Keeps
  <2> HIDE DEF m, t, u, d
  <2>6. Spelled(screen.cells, CellAt(screen), m, u)
    BY <1>1, <2>2, <2>5, SpelledSame
  <2>7. d = gfx_putchar(screen, u[m + 1]) /\ Plain(u[m + 1])
    BY <2>2, <2>3 DEF d
  <2> QED BY <1>1, <2>6, <2>7, GfxPutcharSpelled
<1>6. CASE Backspace
  <2> DEFINE u == PromptText \o Front(line)
             d == gfx_putchar(screen, Erase)
  <2>1. screen' = d /\ line' = Front(line) /\ line # <<>>
    BY <1>3, <1>6 DEF Backspace
  <2>2. /\ m \in Nat \ {0} /\ \A i \in 1 .. m - 1 : t[i] = u[i]
        /\ Len(PromptText) + Len(Front(line)) = m - 1
    <3>1. Len(Front(line)) = Len(line) - 1 /\ Len(PromptText) \in Nat /\ Len(line) \in Nat
      BY <2>1, LinesEdited, LineFits
    <3>2. m \in Nat \ {0} /\ \A i \in 1 .. m - 1 : t[i] = u[i]
      BY <2>1, LineSpelling
    <3> QED BY <3>1, <3>2
  <2>3. Keeps(screen, d)
    BY <1>3
  <2> SUFFICES ASSUME ~d.scrolled PROVE Spelled(d.cells, CellAt(d), m - 1, u)
    BY <2>1, <2>2 DEF GraphicsSpelled
  <2>4. Spelled(screen.cells, CellAt(screen), m, t)
    BY <2>3 DEF GraphicsSpelled, Keeps
  <2> HIDE DEF m, t, u
  <2>5. Spelled(d.cells, CellAt(d), m - 1, t)
    BY <1>1, <2>2, <2>4, GfxEraseSpelled
  <2> HIDE DEF d
  <2>6. m - 1 \in Nat
    BY <2>2
  <2> QED BY <2>2, <2>5, <2>6, SpelledSame
<1>7. ASSUME NEW text \in Texts, MoveOrReplace(text) PROVE GraphicsSpelled(screen', line')
  <2>1. screen' = redraw_input(screen, text) /\ line' = text
    BY <1>7 DEF MoveOrReplace
  <2> QED BY <1>1, <1>2, <2>1
<1>8. CASE Enter
  <2> DEFINE fed == terminal_putchar(screen, Newline)
             cleared == terminal_clear(fed)
  <2>1. Marked(fed) /\ Kept(fed)
    BY <1>1, <1>3 DEF Keeps
  <2>2. Marked(cleared) /\ Kept(cleared)
    <3>1. cleared = gfx_clear(fed.height)
      BY DEF terminal_clear
    <3>2. fed.height \in Nat /\ fed.height >= CHAR_H
      BY <2>1 DEF Marked, GfxTypeOK
    <3> HIDE DEF fed, cleared
    <3> QED BY <3>1, <3>2, ClearMarked
  <2>3. /\ line' = <<>>
        /\ \/ screen' = terminal_write(fed, PromptText)
           \/ \E out \in Outputs : screen' = terminal_write(fed, out \o PromptText)
           \/ screen' = terminal_write(cleared, PromptText)
    BY <1>8 DEF Enter, RunLine
  <2> HIDE DEF fed, cleared
  <2>4. \A g : Marked(g) /\ Kept(g) => GraphicsSpelled(terminal_write(g, PromptText), <<>>)
    <3>1. Len(PromptText) \in Nat
      BY VGAAssumption
    <3>2. EndsWith(PromptText, Len(PromptText), Len(PromptText), PromptText \o <<>>)
      BY PromptEnds
    <3> QED BY <3>1, <3>2, PromptSpelled
  <2>5. ASSUME NEW out \in Outputs, NEW g, Marked(g), Kept(g)
        PROVE  GraphicsSpelled(terminal_write(g, out \o PromptText), <<>>)
    <3>1. PICK n \in Nat : EndsWith(out \o PromptText, n, Len(PromptText), PromptText \o <<>>)
      BY PromptEnds, TerminalAssumption
    <3> QED BY <2>5, <3>1, PromptSpelled
  <2> QED BY <2>1, <2>2, <2>3, <2>4, <2>5
<1> QED
  BY <1>4, <1>5, <1>6, <1>7, <1>8 DEF TNext

(* A step on the text terminal.                                            *)
LEMMA TextShownStep ==
  ASSUME use_framebuffer = FALSE, line \in Texts, TextOK(screen, line), TextSpelled(screen, line), TNext
  PROVE  TextSpelled(screen', line')
<1> DEFINE m == Len(PromptText) + Len(line)
           t == PromptText \o line
<1>1. /\ line' \in Texts /\ m \in Nat /\ VgaTypeOK(screen)
      /\ screen.column < VGA_WIDTH \/ screen.column <= Len(PromptText) + Room
      /\ Spelled(screen.cells, At(screen), m, t)
  <2>1. line' \in Texts /\ m \in Nat /\ Len(line) \in 0 .. Room /\ Len(PromptText) \in Nat /\ Room \in Nat
    BY StepLine, LineSpelling, LineFits, VGAAssumption
  <2> QED BY <2>1, VGAAssumption DEF TextOK, TextSpelled, VgaTypeOK
<1>2. ASSUME NEW v, NEW text \in Texts, VgaTypeOK(v)
      PROVE  TextSpelled(redraw_input(v, text), text)
  BY <1>2, RedrawSpelled DEF redraw_input, TextSpelled
<1>3. \A c : /\ VgaTypeOK(terminal_putchar(screen, c))
             /\ terminal_putchar(screen, c).cursor = At(terminal_putchar(screen, c))
             /\ terminal_putchar(screen, c) = vga_putchar(screen, c)
             /\ c = Newline => terminal_putchar(screen, c).column = 0
  BY <1>1, PutcharColumn DEF terminal_putchar
<1>4. ASSUME NEW c \in Chars, TypeKey(c) PROVE TextSpelled(screen', line')
  <2> DEFINE v == terminal_putchar(screen, c)
  <2>1. VgaTypeOK(v)
    BY <1>3
  <2>2. screen' = redraw_input(v, line')
    BY <1>4 DEF TypeKey
  <2> HIDE DEF v
  <2> QED BY <1>1, <1>2, <2>1, <2>2
<1>5. ASSUME NEW c \in Chars, TypeSerial(c) PROVE TextSpelled(screen', line')
  <2> DEFINE u == PromptText \o Append(line, c)
             d == vga_putchar(screen, c)
  <2>1. screen' = d /\ line' = Append(line, c) /\ Len(line) < Room /\ d.cursor = At(d)
    BY <1>3, <1>5 DEF TypeSerial
  <2>2. /\ u[m + 1] = c /\ \A i \in 1 .. m : t[i] = u[i]
        /\ Len(PromptText) + Len(Append(line, c)) = m + 1
    <3>1. Len(Append(line, c)) = Len(line) + 1 /\ Len(PromptText) \in Nat /\ Len(line) \in Nat
      BY <2>1, LinesEdited, LineFits
    <3>2. u[m + 1] = c /\ \A i \in 1 .. m : t[i] = u[i]
      BY LineSpelling
    <3> QED BY <3>1, <3>2
  <2>3. m + 1 <= (VGA_HEIGHT - 1) * VGA_WIDTH
    <3>1. Append(line, c) \in Texts
      BY <2>1, LinesEdited
    <3>2. Len(PromptText) + Len(Append(line, c)) <= (VGA_HEIGHT - 1) * VGA_WIDTH
      BY <3>1, ShownFits
    <3> QED BY <2>2, <3>2
  <2>4. Plain(c)
    BY TerminalAssumption DEF Plain
  <2> HIDE DEF m, t, u, d
  <2>5. Spelled(screen.cells, At(screen), m, u)
    BY <1>1, <2>2, SpelledSame
  <2>6. d = vga_putchar(screen, u[m + 1]) /\ Plain(u[m + 1])
    BY <2>2, <2>4 DEF d
  <2>7. Spelled(d.cells, At(d), m + 1, u)
    BY <1>1, <2>3, <2>5, <2>6, PutcharSpelled
  <2> QED BY <2>1, <2>2, <2>7 DEF TextSpelled, u
<1>6. CASE Backspace
  <2> DEFINE u == PromptText \o Front(line)
             d == vga_putchar(screen, Erase)
  <2>1. screen' = d /\ line' = Front(line) /\ line # <<>> /\ d.cursor = At(d)
    BY <1>3, <1>6 DEF Backspace
  <2>2. /\ m \in Nat \ {0} /\ \A i \in 1 .. m - 1 : t[i] = u[i]
        /\ Len(PromptText) + Len(Front(line)) = m - 1
    <3>1. Len(Front(line)) = Len(line) - 1 /\ Len(PromptText) \in Nat /\ Len(line) \in Nat
      BY <2>1, LinesEdited, LineFits
    <3>2. m \in Nat \ {0} /\ \A i \in 1 .. m - 1 : t[i] = u[i]
      BY <2>1, LineSpelling
    <3> QED BY <3>1, <3>2
  <2> HIDE DEF m, t, u
  <2>3. Spelled(d.cells, At(d), m - 1, t) /\ m - 1 \in Nat
    <3>1. m \in Nat \ {0} /\ m - 1 \in Nat
      BY <2>2
    <3> QED BY <1>1, <3>1, EraseSpelled
  <2> HIDE DEF d
  <2>4. Spelled(d.cells, At(d), m - 1, u)
    BY <2>2, <2>3, SpelledSame
  <2> QED BY <2>1, <2>2, <2>4 DEF TextSpelled, u
<1>7. ASSUME NEW text \in Texts, MoveOrReplace(text) PROVE TextSpelled(screen', line')
  <2>1. screen' = redraw_input(screen, text) /\ line' = text
    BY <1>7 DEF MoveOrReplace
  <2> QED BY <1>1, <1>2, <2>1
<1>8. CASE Enter
  <2> DEFINE fed == terminal_putchar(screen, Newline)
             cleared == terminal_clear(fed)
  <2>1. InRow(fed) /\ fed.cursor = At(fed)
    BY <1>3, VGAAssumption DEF InRow
  <2>2. InRow(cleared) /\ cleared.cursor = At(cleared)
    BY VGAAssumption DEF terminal_clear, vga_clear, InRow, VgaTypeOK, At
  <2>3. /\ line' = <<>>
        /\ \/ screen' = terminal_write(fed, PromptText)
           \/ \E out \in Outputs : screen' = terminal_write(fed, out \o PromptText)
           \/ screen' = terminal_write(cleared, PromptText)
    BY <1>8 DEF Enter, RunLine
  <2> HIDE DEF fed, cleared
  <2>4. \A v : InRow(v) /\ v.cursor = At(v) => TextSpelled(terminal_write(v, PromptText), <<>>)
    <3>1. Len(PromptText) \in Nat
      BY VGAAssumption
    <3>2. EndsWith(PromptText, Len(PromptText), Len(PromptText), PromptText \o <<>>)
      BY PromptEnds
    <3> QED BY <3>1, <3>2, PromptSpelled
  <2>5. ASSUME NEW out \in Outputs, NEW v, InRow(v), v.cursor = At(v)
        PROVE  TextSpelled(terminal_write(v, out \o PromptText), <<>>)
    <3>1. PICK n \in Nat : EndsWith(out \o PromptText, n, Len(PromptText), PromptText \o <<>>)
      BY PromptEnds, TerminalAssumption
    <3> QED BY <2>5, <3>1, PromptSpelled
  <2> QED BY <2>1, <2>2, <2>3, <2>4, <2>5
<1> QED
  BY <1>4, <1>5, <1>6, <1>7, <1>8 DEF TNext

(* It holds in every state.                                                *)
LEMMA TSpecShown == TSpec => []ShownInv
<1>1. ASSUME TermInv, ShownInv, [TNext]_tvars PROVE ShownInv'
  <2>1. CASE UNCHANGED tvars
    BY <1>1, <2>1 DEF ShownInv, GraphicsSpelled, TextSpelled, tvars
  <2>2. CASE TNext
    <3>1. use_framebuffer' = use_framebuffer
      BY <1>1, <2>2, StepLine DEF TermInv
    <3>2. use_framebuffer = TRUE => GraphicsSpelled(screen', line')
      BY <1>1, <2>2, GraphicsShownStep DEF TermInv, GraphicsOK, ShownInv
    <3>3. use_framebuffer = FALSE => TextSpelled(screen', line')
      BY <1>1, <2>2, TextShownStep DEF TermInv, ShownInv
    <3> QED BY <3>1, <3>2, <3>3 DEF ShownInv
  <2> QED BY <1>1, <2>1, <2>2
<1> QED
  BY TInitShown, TSpecInv, <1>1, PTL DEF TSpec

-----------------------------------------------------------------------------
(* What is above the line, on the text terminal *)

(* The m cells before the cursor start with a row, not below the cursor's. *)
AtRow(v, m) == \E r \in 0 .. v.row : At(v) - m = r * VGA_WIDTH

(* The part of the cells below place p comes from k cells further on.      *)
KeptBelow(v, d, p, k) == \A i \in 0 .. p - 1 - k : d.cells[i] = v.cells[i + k]

(* From the end of a row to the next, by scrolling at the end of the       *)
(* screen.                                                                 *)
LEMMA NextRowMoves ==
  ASSUME NEW v, VgaTypeOK(v), v.column = VGA_WIDTH
  PROVE  LET d == NextRow(v) IN
         \/ d.cells = v.cells /\ d.row = v.row + 1 /\ At(d) = At(v)
         \/ /\ At(v) = VGA_HEIGHT * VGA_WIDTH /\ d.row = v.row /\ At(d) = At(v) - VGA_WIDTH
            /\ KeptBelow(v, d, At(v), VGA_WIDTH)
<1> DEFINE d == [v EXCEPT !.column = 0, !.row = @ + 1]
           a == (VGA_HEIGHT - 1) * VGA_WIDTH
           p == At(v)
<1>1. /\ p \in Nat /\ VGA_WIDTH \in Nat \ {0} /\ a \in Nat /\ VGA_HEIGHT * VGA_WIDTH = a + VGA_WIDTH
      /\ (v.row + 1) * VGA_WIDTH = p
  BY Places DEF VgaTypeOK
<1>2. /\ DOMAIN d = {"cells", "row", "column", "cursor"}
      /\ d.row = v.row + 1 /\ d.column = 0 /\ d.cells = v.cells
  BY DEF VgaTypeOK
<1>3. At(d) = p
  BY <1>1, <1>2 DEF At
<1>4. VGA_HEIGHT \in Nat /\ Len(PromptText) \in Nat /\ Room \in Nat /\ v.row \in Nat
  BY VGAAssumption DEF VgaTypeOK
<1>5. VGACells = 0 .. a + VGA_WIDTH - 1 /\ VGACells \subseteq TextMemory
  BY <1>1, <1>4 DEF VGACells, TextMemory
<1>6. CASE d.row = VGA_HEIGHT
  <2> DEFINE C == [i \in TextMemory |->
                     IF i \notin VGACells THEN d.cells[i]
                     ELSE IF i + VGA_WIDTH \in VGACells THEN d.cells[i + VGA_WIDTH] ELSE Blank]
             e == [d EXCEPT !.cells = C]
             f == [e EXCEPT !.row = VGA_HEIGHT - 1]
  <2>1. NextRow(v) = f
    BY <1>6 DEF NextRow, vga_scroll
  <2>2. p = a + VGA_WIDTH /\ VGA_HEIGHT - 1 = v.row
    BY <1>1, <1>2, <1>4, <1>6
  <2> HIDE DEF a, p, d
  <2>3. \A i \in 0 .. p - 1 - VGA_WIDTH : C[i] = d.cells[i + VGA_WIDTH]
    <3>1. ASSUME NEW i \in 0 .. p - 1 - VGA_WIDTH
          PROVE  i \in VGACells /\ i + VGA_WIDTH \in VGACells /\ i \in TextMemory
      BY <1>1, <1>5, <2>2
    <3> QED BY <3>1
  <2> HIDE DEF C
  <2>4. f.cells = C /\ f.row = VGA_HEIGHT - 1 /\ f.column = 0
    BY <1>2
  <2> HIDE DEF e, f
  <2>5. At(f) = p - VGA_WIDTH
    BY <1>1, <1>4, <2>2, <2>4 DEF At, a
  <2>6. KeptBelow(v, f, p, VGA_WIDTH)
    BY <1>2, <2>3, <2>4 DEF KeptBelow
  <2>7. p = VGA_HEIGHT * VGA_WIDTH /\ f.row = v.row
    BY <1>1, <2>2, <2>4
  <2> QED BY <2>1, <2>5, <2>6, <2>7 DEF p
<1>7. CASE d.row # VGA_HEIGHT
  <2>1. NextRow(v) = d
    BY <1>7 DEF NextRow
  <2> QED BY <1>2, <1>3, <2>1
<1> QED
  BY <1>6, <1>7

(* A character moves the cursor on, or everything up by a row.             *)
LEMMA PutcharMoves ==
  ASSUME NEW v, VgaTypeOK(v), NEW c, Plain(c)
  PROVE  LET d == vga_putchar(v, c) IN
         \/ At(d) = At(v) + 1 /\ d.row \in {v.row, v.row + 1} /\ KeptBelow(v, d, At(v), 0)
         \/ /\ At(v) + 1 = VGA_HEIGHT * VGA_WIDTH /\ d.row = v.row /\ At(d) = At(v) + 1 - VGA_WIDTH
            /\ KeptBelow(v, d, At(v), VGA_WIDTH)
<1> DEFINE C == [v.cells EXCEPT ![At(v)] = c]
           e == [v EXCEPT !.cells[At(v)] = c]
           a == [e EXCEPT !.column = @ + 1]
           d == Advance(e)
           p == At(v)
           w == VGA_WIDTH
<1>1. p \in Nat /\ w \in Nat /\ v.row \in Nat
  BY Places DEF VgaTypeOK
<1>2. DOMAIN C = TextMemory /\ \A j : j # p => C[j] = v.cells[j]
  <2>1. \A j : j # p => C[j] = v.cells[j]
    OBVIOUS
  <2> QED BY <2>1 DEF VgaTypeOK
<1>3. e = [v EXCEPT !.cells = C]
  BY DEF VgaTypeOK
<1> HIDE DEF C, e
<1>4. VgaTypeOK(a) /\ a.cells = C /\ a.row = v.row /\ a.column = v.column + 1
  BY <1>2, <1>3 DEF VgaTypeOK
<1>5. At(a) = p + 1
  <2>1. v.row * VGA_WIDTH \in Int /\ v.column \in Nat
    BY VGAAssumption DEF VgaTypeOK
  <2> QED BY <1>4, <2>1 DEF At
<1> HIDE DEF a, p, w
<1>6. d = IF a.column = VGA_WIDTH THEN NextRow(a) ELSE a
  BY DEF Advance, a
<1> HIDE DEF d
<1>7. \/ d.cells = C /\ d.row \in {v.row, v.row + 1} /\ At(d) = p + 1
      \/ /\ p + 1 = VGA_HEIGHT * VGA_WIDTH /\ d.row = v.row /\ At(d) = p + 1 - w
         /\ \A i \in 0 .. p - w : d.cells[i] = C[i + w]
  <2>1. CASE a.column = VGA_WIDTH
    <3>1. d = NextRow(a)
      BY <1>6, <2>1
    <3>2. \/ d.cells = a.cells /\ d.row = a.row + 1 /\ At(d) = At(a)
          \/ /\ At(a) = VGA_HEIGHT * VGA_WIDTH /\ d.row = a.row /\ At(d) = At(a) - VGA_WIDTH
             /\ KeptBelow(a, d, At(a), VGA_WIDTH)
      BY <1>4, <2>1, <3>1, NextRowMoves
    <3>3. CASE d.cells = a.cells /\ d.row = a.row + 1 /\ At(d) = At(a)
      BY <1>4, <1>5, <3>3
    <3>4. CASE /\ At(a) = VGA_HEIGHT * VGA_WIDTH /\ d.row = a.row /\ At(d) = At(a) - VGA_WIDTH
               /\ KeptBelow(a, d, At(a), VGA_WIDTH)
      <4>1. p + 1 - 1 - w = p - w
        BY <1>1
      <4>2. p + 1 = VGA_HEIGHT * VGA_WIDTH /\ d.row = v.row /\ At(d) = p + 1 - w
        BY <1>1, <1>4, <1>5, <3>4, VGAAssumption DEF w
      <4>3. KeptBelow(a, d, p + 1, w)
        BY <1>5, <3>4 DEF w
      <4>4. \A i \in 0 .. p - w : d.cells[i] = a.cells[i + w]
        BY <1>1, <4>1, <4>3 DEF KeptBelow
      <4>5. \A i \in 0 .. p - w : d.cells[i] = C[i + w]
        BY <1>4, <4>4
      <4> QED BY <4>2, <4>5
    <3> QED BY <3>2, <3>3, <3>4
  <2>2. CASE a.column # VGA_WIDTH
    BY <1>4, <1>5, <1>6, <2>2
  <2> QED BY <2>1, <2>2
<1>8. vga_putchar(v, c) = update_cursor(d)
  BY DEF vga_putchar, vga_entry, Plain, e, d
<1> DEFINE u == update_cursor(d)
<1>9. u.cells = d.cells /\ u.row = d.row /\ At(u) = At(d)
  <2>1. VgaTypeOK(NextRow(a))
    BY <1>4, NextRowInRow DEF InRow
  <2>2. VgaTypeOK(d)
    BY <1>4, <1>6, <2>1
  <2> QED BY <2>2 DEF update_cursor, At, VgaTypeOK
<1> HIDE DEF u
<1>10. CASE d.cells = C /\ d.row \in {v.row, v.row + 1} /\ At(d) = p + 1
  <2>1. ASSUME NEW i \in 0 .. p - 1 - 0 PROVE u.cells[i] = v.cells[i + 0]
    <3>1. i # p /\ i + 0 = i
      BY <1>1
    <3> QED BY <1>2, <1>9, <1>10, <3>1
  <2>2. KeptBelow(v, u, p, 0)
    BY <2>1 DEF KeptBelow
  <2> QED BY <1>8, <1>9, <1>10, <2>2 DEF u, p
<1>11. CASE /\ p + 1 = VGA_HEIGHT * VGA_WIDTH /\ d.row = v.row /\ At(d) = p + 1 - w
            /\ \A i \in 0 .. p - w : d.cells[i] = C[i + w]
  <2>1. ASSUME NEW i \in 0 .. p - 1 - w PROVE u.cells[i] = v.cells[i + w]
    <3>1. i \in 0 .. p - w /\ i + w # p
      BY <1>1
    <3> QED BY <1>2, <1>9, <1>11, <3>1
  <2>2. KeptBelow(v, u, p, w)
    BY <2>1 DEF KeptBelow
  <2> QED BY <1>8, <1>9, <1>11, <2>2 DEF u, p, w
<1> QED
  BY <1>7, <1>10, <1>11

(* Erasing moves it back.                                                  *)
LEMMA EraseMoves ==
  ASSUME NEW v, VgaTypeOK(v), At(v) # 0
  PROVE  LET d == vga_putchar(v, Erase) IN
         /\ At(d) = At(v) - 1 /\ KeptBelow(v, d, At(v) - 1, 0)
         /\ d.row = v.row \/ (d.row = v.row - 1 /\ At(v) = v.row * VGA_WIDTH)
<1> DEFINE b == CellBefore(v)
           p == At(v)
           C == [b.cells EXCEPT ![At(b)] = Blank]
           d == [b EXCEPT !.cells[At(b)] = Blank]
           u == update_cursor(d)
<1>1. p \in Nat
  BY Places
<1>2. /\ b.cells = v.cells /\ VgaTypeOK(b) /\ At(b) = p - 1
      /\ b.row = v.row \/ (b.row = v.row - 1 /\ p = v.row * VGA_WIDTH)
  <2>0. v.row * VGA_WIDTH \in Int /\ v.column \in Nat /\ v.row \in Nat
    BY VGAAssumption DEF VgaTypeOK
  <2>1. CASE v.column > 0
    <3>1. b = [v EXCEPT !.column = @ - 1]
      BY <2>1 DEF CellBefore
    <3>2. b.cells = v.cells /\ b.row = v.row /\ b.column = v.column - 1 /\ VgaTypeOK(b)
      BY <2>1, <3>1 DEF VgaTypeOK
    <3> HIDE DEF b
    <3> QED BY <2>0, <3>2 DEF At
  <2>2. CASE v.column = 0 /\ v.row > 0
    <3>1. b = [v EXCEPT !.row = @ - 1, !.column = VGA_WIDTH - 1]
      BY <2>2 DEF CellBefore
    <3>2. b.cells = v.cells /\ b.row = v.row - 1 /\ b.column = VGA_WIDTH - 1 /\ VgaTypeOK(b)
      BY <2>2, <3>1, VGAAssumption DEF VgaTypeOK
    <3>3. VGA_WIDTH \in Nat /\ (v.row - 1) * VGA_WIDTH = p - VGA_WIDTH
      BY <1>1, <2>2, Places
    <3> HIDE DEF b
    <3>4. At(b) = p - VGA_WIDTH + (VGA_WIDTH - 1)
      BY <3>2, <3>3 DEF At
    <3>5. p = v.row * VGA_WIDTH
      BY <2>0, <2>2 DEF At
    <3> QED BY <1>1, <3>2, <3>3, <3>4, <3>5
  <2>3. CASE v.column = 0 /\ v.row = 0
    BY <2>3, Places
  <2> QED BY <2>0, <2>1, <2>2, <2>3
<1> HIDE DEF b
<1>3. \A i \in 0 .. p - 1 - 1 - 0 : C[i] = v.cells[i + 0]
  <2>1. ASSUME NEW i \in 0 .. p - 1 - 1 - 0 PROVE C[i] = v.cells[i + 0]
    <3>1. i # At(b) /\ i + 0 = i
      BY <1>1, <1>2
    <3> QED BY <1>2, <3>1
  <2> QED BY <2>1
<1>4. d = [b EXCEPT !.cells = C]
  BY <1>2 DEF VgaTypeOK
<1>5. vga_putchar(v, Erase) = u
  BY DEF vga_putchar, vga_entry, b, Erase, Newline
<1> HIDE DEF C
<1>6. u.cells = C /\ u.row = b.row /\ u.column = b.column
  BY <1>2, <1>4 DEF update_cursor, VgaTypeOK
<1> HIDE DEF u
<1>7. At(u) = p - 1
  BY <1>2, <1>6 DEF At
<1>8. KeptBelow(v, u, p - 1, 0)
  BY <1>3, <1>6 DEF KeptBelow
<1> QED
  BY <1>2, <1>5, <1>6, <1>7, <1>8

(* Redrawing starts at the row's first cell.                               *)
LEMMA RedrawMoves ==
  ASSUME NEW v, NEW text \in Texts, VgaTypeOK(v)
  PROVE  LET d == vga_redraw(v, text) IN
         /\ At(d) = v.row * VGA_WIDTH + (Len(PromptText) + Len(text)) /\ d.row = v.row
         /\ KeptBelow(v, d, v.row * VGA_WIDTH, 0)
<1> DEFINE full == PromptText \o text
           m == Len(PromptText) + Len(text)
           s == RowStart(v)
           C == [i \in TextMemory |->
                   IF i - s \in 0 .. Len(full) - 1 THEN full[i - s + 1]
                   ELSE IF i - s \in 0 .. VGA_WIDTH - 1 THEN Blank
                   ELSE v.cells[i]]
           d == [v EXCEPT !.cells = C, !.column = Len(full)]
           p == [d EXCEPT !.cursor = At(d)]
<1>1. Len(full) = m /\ m \in Nat
  BY VGAAssumption, LineFits
<1>2. vga_redraw(v, text) = p
  BY DEF vga_redraw, update_cursor
<1>3. s \in Int /\ 0 .. s - 1 \subseteq TextMemory
  <2>1. s \in Int /\ s <= VGA_HEIGHT * VGA_WIDTH /\ VGA_HEIGHT * VGA_WIDTH \in Nat
    <3> DEFINE a == (VGA_HEIGHT - 1) * VGA_WIDTH
               b == VGA_HEIGHT * VGA_WIDTH
    <3>1. v.row * VGA_WIDTH \in Int /\ v.column \in Nat
      BY VGAAssumption DEF VgaTypeOK
    <3>2. s = At(v) - v.column
      BY <3>1 DEF At, RowStart
    <3>3. s \in Int /\ s <= a /\ a \in Nat /\ b = a + VGA_WIDTH /\ VGA_WIDTH \in Nat
      BY <3>2, Places
    <3> HIDE DEF s, a, b
    <3>4. s \in Int /\ s <= b /\ b \in Nat
      BY <3>3
    <3> QED BY <3>4 DEF b
  <2> DEFINE b == VGA_HEIGHT * VGA_WIDTH
  <2> HIDE DEF s, b
  <2>2. s \in Int /\ s <= b /\ b \in Nat /\ Len(PromptText) \in Nat /\ Room \in Nat
    BY <2>1, VGAAssumption DEF b
  <2>3. 0 .. s - 1 \subseteq 0 .. b + Len(PromptText) + Room
    BY <2>2
  <2> QED BY <2>1, <2>3 DEF TextMemory, b
<1>4. \A i \in 0 .. s - 1 - 0 : C[i] = v.cells[i + 0]
  <2>1. ASSUME NEW i \in 0 .. s - 1 - 0 PROVE C[i] = v.cells[i + 0]
    <3> HIDE DEF s
    <3>1. i \in TextMemory /\ ~(i - s >= 0) /\ i + 0 = i /\ i - s \in Int
      BY <1>3
    <3> QED BY <3>1
  <2> QED BY <2>1
<1> HIDE DEF C, full
<1>5. p.cells = C /\ p.row = v.row /\ p.column = m
  BY <1>1 DEF VgaTypeOK
<1> HIDE DEF p
<1>6. At(p) = v.row * VGA_WIDTH + m
  BY <1>5 DEF At
<1>7. KeptBelow(v, p, s, 0)
  BY <1>4, <1>5 DEF KeptBelow
<1> QED
  BY <1>2, <1>5, <1>6, <1>7 DEF RowStart, m

(* Prompt and line stay at the start of a row.                             *)
LEMMA PutcharAtRow ==
  ASSUME NEW v, VgaTypeOK(v), NEW c, Plain(c),
         NEW m \in Nat, m + 1 <= (VGA_HEIGHT - 1) * VGA_WIDTH, AtRow(v, m)
  PROVE  AtRow(vga_putchar(v, c), m + 1)
<1> DEFINE d == vga_putchar(v, c)
           w == VGA_WIDTH
           h == VGA_HEIGHT * VGA_WIDTH
           a == (VGA_HEIGHT - 1) * VGA_WIDTH
           p == At(v)
<1>1. /\ p \in Nat /\ w \in Nat \ {0} /\ h \in Int /\ a \in Nat /\ h = a + w /\ m + 1 <= a
      /\ v.row \in Nat
  BY Places DEF VgaTypeOK
<1>2. PICK r \in 0 .. v.row : p - m = r * w
  BY DEF AtRow
<1>3. \/ At(d) = p + 1 /\ d.row \in {v.row, v.row + 1}
      \/ p + 1 = h /\ d.row = v.row /\ At(d) = p + 1 - w
  BY PutcharMoves
<1> HIDE DEF d, w, h, a, p
<1>4. CASE At(d) = p + 1 /\ d.row \in {v.row, v.row + 1}
  <2>1. At(d) - (m + 1) = r * w /\ r \in 0 .. d.row
    BY <1>1, <1>2, <1>4
  <2> QED BY <2>1 DEF AtRow, d, w
<1>5. CASE p + 1 = h /\ d.row = v.row /\ At(d) = p + 1 - w
  <2>1. r # 0
    <3>1. 0 * w = 0
      BY <1>1, SMT
    <3>2. p - m >= w
      BY <1>1, <1>5
    <3> QED BY <1>1, <1>2, <3>1, <3>2
  <2>2. (r - 1) * w = r * w - w /\ r * w \in Int
    BY <1>1, <1>2, SMT
  <2>3. At(d) - (m + 1) = (r - 1) * w /\ r - 1 \in 0 .. d.row
    BY <1>1, <1>2, <1>5, <2>1, <2>2
  <2> QED BY <2>3 DEF AtRow, d, w
<1> QED
  BY <1>3, <1>4, <1>5

(* Erasing over the start of a row too.                                    *)
LEMMA EraseAtRow ==
  ASSUME NEW v, VgaTypeOK(v), NEW m \in Nat \ {0}, AtRow(v, m), At(v) # 0
  PROVE  AtRow(vga_putchar(v, Erase), m - 1)
<1> DEFINE d == vga_putchar(v, Erase)
           w == VGA_WIDTH
           p == At(v)
<1>1. p \in Nat /\ w \in Nat \ {0} /\ v.row \in Nat
  BY Places DEF VgaTypeOK
<1>2. PICK r \in 0 .. v.row : p - m = r * w
  BY DEF AtRow
<1>3. At(d) = p - 1 /\ (d.row = v.row \/ (d.row = v.row - 1 /\ p = v.row * w))
  BY EraseMoves
<1> HIDE DEF d, w, p
<1>4. At(d) - (m - 1) = r * w
  BY <1>1, <1>2, <1>3
<1>5. r \in 0 .. d.row
  <2>1. CASE d.row = v.row - 1 /\ p = v.row * w
    <3>1. r # v.row
      BY <1>1, <1>2, <2>1
    <3> QED BY <1>1, <1>2, <2>1, <3>1
  <2> QED BY <1>2, <1>3, <2>1
<1> QED
  BY <1>4, <1>5 DEF AtRow, d, w

(* In redrawing it is the row of the cursor.                               *)
LEMMA RedrawAtRow ==
  ASSUME NEW v, NEW text \in Texts, VgaTypeOK(v)
  PROVE  AtRow(vga_redraw(v, text), Len(PromptText) + Len(text))
<1> DEFINE d == vga_redraw(v, text)
           m == Len(PromptText) + Len(text)
           s == v.row * VGA_WIDTH
<1>1. m \in Nat /\ s \in Int /\ v.row \in Nat
  BY VGAAssumption, LineFits DEF VgaTypeOK
<1>2. At(d) = s + m /\ d.row = v.row
  BY RedrawMoves
<1> HIDE DEF d, m
<1>3. At(d) - m = v.row * VGA_WIDTH /\ v.row \in 0 .. d.row
  <2> HIDE DEF s
  <2>1. At(d) - m = s /\ v.row \in 0 .. d.row
    BY <1>1, <1>2
  <2> QED BY <2>1 DEF s
<1> QED
  BY <1>3 DEF AtRow, d, m

(* The cells above the line are above the cursor's row.                    *)
LEMMA AboveRow ==
  ASSUME NEW v, VgaTypeOK(v), NEW m \in Nat, AtRow(v, m)
  PROVE  At(v) - m <= v.row * VGA_WIDTH /\ v.row * VGA_WIDTH \in Int
<1> DEFINE w == VGA_WIDTH
           q == v.row
<1>1. w \in Nat /\ q \in Nat
  BY VGAAssumption DEF VgaTypeOK
<1>2. PICK r \in 0 .. q : At(v) - m = r * w
  BY DEF AtRow
<1> HIDE DEF w, q
<1>3. w * r <= w * q /\ r * w = w * r /\ q * w = w * q /\ w * q \in Int
  BY <1>1, <1>2, TimesMonotone, SMT
<1> QED
  BY <1>2, <1>3 DEF w, q

(* A text whose last m characters are in a row of their own.               *)
InNewRow(s, text, n, m) ==
  /\ m = n => s.column = 0
  /\ m < n => text[n - m] = Newline

(* It leaves them at the start of a row.                                   *)
LEMMA WriteAtRow ==
  ASSUME use_framebuffer = FALSE, NEW s, InRow(s),
         NEW text, NEW n \in Nat, NEW m \in Nat, NEW t, EndsWith(text, n, m, t),
         m <= (VGA_HEIGHT - 1) * VGA_WIDTH, InNewRow(s, text, n, m)
  PROVE  AtRow(terminal_write(s, text), m)
<1>0. DOMAIN text = 1 .. n
  BY DEF EndsWith
<1>p. PICK w : Steps(w, s, text, n)
  BY <1>0, WriteSteps
<1>1. /\ w[0] = s
      /\ \A k \in 0 .. n - 1 : w[k + 1] = terminal_putchar(w[k], text[k + 1])
      /\ w[n] = terminal_write(s, text)
  BY <1>p DEF Steps
<1> DEFINE T == {k \in 0 .. n : /\ InRow(w[k])
                                /\ n - m <= k => AtRow(w[k], k - (n - m))}
<1>2. \A v : InRow(v) /\ v.column = 0 => AtRow(v, 0)
  <2>1. ASSUME NEW v, InRow(v), v.column = 0 PROVE AtRow(v, 0)
    <3>1. v.row \in Nat /\ At(v) - 0 = v.row * VGA_WIDTH
      <4>1. v.row \in Nat /\ v.row * VGA_WIDTH \in Int
        BY <2>1, VGAAssumption DEF InRow, VgaTypeOK
      <4> QED BY <2>1, <4>1 DEF At
    <3>2. v.row \in 0 .. v.row
      BY <3>1
    <3> QED BY <3>1, <3>2 DEF AtRow
  <2> QED BY <2>1
<1>3. m <= n
  BY DEF EndsWith
<1>4. 0 \in T
  <2>1. n - m <= 0 => 0 - (n - m) = 0 /\ m = n
    BY <1>3
  <2>2. m = n => AtRow(s, 0)
    BY <1>2 DEF InNewRow
  <2> QED BY <1>1, <2>1, <2>2
<1>5. ASSUME NEW k \in 0 .. n - 1, k \in T PROVE k + 1 \in T
  <2> DEFINE v == w[k]
             d == w[k + 1]
             j == k - (n - m)
  <2>1. InRow(v) /\ k + 1 \in 0 .. n /\ (n - m <= k => AtRow(v, j))
    BY <1>5
  <2>2. d = vga_putchar(v, text[k + 1])
    BY <1>1 DEF terminal_putchar
  <2> HIDE DEF v, d
  <2>3. InRow(d) /\ (text[k + 1] = Newline => d.column = 0)
    BY <2>1, <2>2, PutcharColumn DEF InRow
  <2>4. CASE n - m <= k
    <3>1. j \in Nat /\ j + 1 \in 1 .. m /\ n - m + (j + 1) = k + 1 /\ k + 1 - (n - m) = j + 1
      BY <1>3, <2>4
    <3>2. Plain(text[k + 1])
      <4>1. text[n - m + (j + 1)] = t[j + 1] /\ Plain(t[j + 1])
        BY <3>1 DEF EndsWith
      <4> QED BY <3>1, <4>1
    <3>3. j + 1 <= (VGA_HEIGHT - 1) * VGA_WIDTH
      <4> DEFINE a == (VGA_HEIGHT - 1) * VGA_WIDTH
      <4>1. a \in Nat /\ m <= a
        BY <2>1, Places DEF InRow
      <4> HIDE DEF a
      <4>2. j + 1 <= a
        BY <3>1, <4>1
      <4> QED BY <4>2 DEF a
    <3>4. VgaTypeOK(v) /\ AtRow(v, j)
      BY <2>1, <2>4 DEF InRow
    <3> HIDE DEF j
    <3>5. AtRow(d, j + 1)
      BY <2>2, <3>1, <3>2, <3>3, <3>4, PutcharAtRow
    <3> QED BY <2>1, <2>3, <3>1, <3>5 DEF d
  <2>5. CASE n - m = k + 1
    <3>1. k + 1 - (n - m) = 0 /\ m < n
      BY <2>5
    <3>2. text[k + 1] = Newline
      BY <2>5, <3>1 DEF InNewRow
    <3>3. AtRow(d, 0)
      BY <1>2, <2>3, <3>2
    <3> QED BY <2>1, <2>3, <3>1, <3>3 DEF d
  <2>6. CASE ~(n - m <= k + 1)
    BY <2>1, <2>3, <2>6 DEF d
  <2> QED BY <2>4, <2>5, <2>6
<1> HIDE DEF T
<1>6. n \in 0 .. n /\ 0 .. n \subseteq T
  BY <1>4, <1>5, UpTo
<1>7. n \in T
  BY <1>6
<1>8. n - m <= n /\ n - (n - m) = m
  BY <1>3
<1>9. AtRow(w[n], m)
  BY <1>7, <1>8 DEF T
<1> QED
  BY <1>1, <1>9

(* A part of the cells kept, and one step after another.                   *)
LEMMA KeptLess ==
  ASSUME NEW v, NEW d, NEW p \in Int, NEW q \in Int, NEW k \in Int, q <= p, KeptBelow(v, d, p, k)
  PROVE  KeptBelow(v, d, q, k)
<1>1. \A i \in 0 .. q - 1 - k : i \in 0 .. p - 1 - k
  OBVIOUS
<1> QED
  BY <1>1 DEF KeptBelow

LEMMA KeptThrough ==
  ASSUME NEW v, NEW u, NEW d, NEW p \in Int, NEW k \in Int,
         KeptBelow(v, u, p, k), KeptBelow(u, d, p - k, 0)
  PROVE  KeptBelow(v, d, p, k)
<1>1. ASSUME NEW i \in 0 .. p - 1 - k PROVE d.cells[i] = v.cells[i + k]
  <2>1. i \in 0 .. p - k - 1 - 0 /\ i + 0 = i
    OBVIOUS
  <2> QED BY <2>1 DEF KeptBelow
<1> QED
  BY <1>1 DEF KeptBelow

(* Prompt and line at the start of a row, in every state.                  *)
RowInv == use_framebuffer = FALSE => AtRow(screen, Len(PromptText) + Len(line))

(* What precedes the prompt ends with a new line.                          *)
LEMMA PromptInNewRow ==
  /\ \A s : s.column = 0 => InNewRow(s, PromptText, Len(PromptText), Len(PromptText))
  /\ \A S : \A out \in Seq(S) : out # <<>> /\ Last(out) = Newline =>
       \E n \in Nat : /\ EndsWith(out \o PromptText, n, Len(PromptText), PromptText \o <<>>)
                      /\ \A s : InNewRow(s, out \o PromptText, n, Len(PromptText))
<1> DEFINE k == Len(PromptText)
<1>1. PromptText \in Seq(STRING) /\ k \in Nat
  BY VGAAssumption
<1>2. \A s : s.column = 0 => InNewRow(s, PromptText, k, k)
  BY <1>1 DEF InNewRow
<1>3. ASSUME NEW S, NEW out \in Seq(S), out # <<>>, Last(out) = Newline
      PROVE  \E n \in Nat : /\ EndsWith(out \o PromptText, n, k, PromptText \o <<>>)
                            /\ \A s : InNewRow(s, out \o PromptText, n, k)
  <2>1. PICK n \in Nat : EndsWith(out \o PromptText, n, k, PromptText \o <<>>)
    BY PromptEnds
  <2>2. out \in Seq(S \cup STRING) /\ PromptText \in Seq(S \cup STRING)
    BY <1>1
  <2>3. DOMAIN (out \o PromptText) = 1 .. Len(out) + k /\ Len(out) \in Nat \ {0}
    BY <1>3, <2>2
  <2>4. n = Len(out) + k
    <3>1. 1 .. n = 1 .. Len(out) + k
      BY <2>1, <2>3 DEF EndsWith
    <3> DEFINE l == Len(out) + k
    <3> HIDE DEF l
    <3>2. l \in Nat /\ 1 .. n = 1 .. l
      BY <1>1, <2>3, <3>1 DEF l
    <3>3. n \in 1 .. n \/ n = 0
      OBVIOUS
    <3>4. l \in 1 .. l \/ l = 0
      BY <3>2
    <3>5. n = l
      BY <3>2, <3>3, <3>4
    <3> QED BY <3>5 DEF l
  <2>5. (out \o PromptText)[n - k] = Newline /\ k # n
    <3>1. n - k = Len(out) /\ n - k \in 1 .. Len(out)
      BY <1>1, <2>3, <2>4
    <3>2. (out \o PromptText)[n - k] = out[n - k]
      BY <2>2, <3>1
    <3> QED BY <1>1, <1>3, <2>3, <2>4, <3>1, <3>2 DEF Last
  <2>6. \A s : InNewRow(s, out \o PromptText, n, k)
    BY <2>5 DEF InNewRow
  <2> QED BY <2>1, <2>6
<1> QED
  BY <1>2, <1>3

(* The banner and the first prompt.                                        *)
LEMMA TInitRow == TInit => RowInv
<1> SUFFICES ASSUME TInit, use_framebuffer = FALSE PROVE AtRow(screen, Len(PromptText) + Len(line))
  BY DEF RowInv
<1> DEFINE banner == <<"N", Newline>>
           text == banner \o PromptText
           s == vga_clear([cells |-> [i \in TextMemory |-> Blank]])
<1>1. line = <<>> /\ Len(PromptText) + Len(line) = Len(PromptText)
      /\ Len(PromptText) \in Nat /\ Len(PromptText) <= (VGA_HEIGHT - 1) * VGA_WIDTH
  BY PromptEnds, ShownFits, LinesEdited, VGAAssumption DEF TInit
<1>2. PICK n \in Nat : /\ EndsWith(text, n, Len(PromptText), PromptText \o <<>>)
                       /\ InNewRow(s, text, n, Len(PromptText))
  <2>1. banner \in Seq({"N", Newline}) /\ banner # <<>> /\ Last(banner) = Newline
    BY DEF Last
  <2> HIDE DEF banner, s
  <2> QED BY <2>1, PromptInNewRow
<1>3. InRow(s)
  BY VGAAssumption DEF vga_clear, InRow, VgaTypeOK
<1>4. screen = terminal_write(s, text)
  BY DEF TInit
<1> HIDE DEF s, text
<1> QED
  BY <1>1, <1>2, <1>3, <1>4, WriteAtRow

(* Enter.                                                                  *)
LEMMA EnterRow ==
  ASSUME use_framebuffer = FALSE, line \in Texts, VgaTypeOK(screen), Enter
  PROVE  AtRow(screen', Len(PromptText) + Len(line'))
<1> DEFINE fed == terminal_putchar(screen, Newline)
           cleared == terminal_clear(fed)
           k == Len(PromptText)
<1>1. InRow(fed) /\ fed.column = 0
  <2>1. VgaTypeOK(fed) /\ fed.column = 0
    BY PutcharColumn DEF terminal_putchar
  <2> QED BY <2>1, VGAAssumption DEF InRow
<1>2. InRow(cleared) /\ cleared.column = 0
  BY VGAAssumption DEF terminal_clear, vga_clear, InRow, VgaTypeOK
<1>3. /\ line' = <<>>
      /\ \/ screen' = terminal_write(fed, PromptText)
         \/ \E out \in Outputs : screen' = terminal_write(fed, out \o PromptText)
         \/ screen' = terminal_write(cleared, PromptText)
  BY DEF Enter, RunLine
<1> HIDE DEF fed, cleared
<1>4. k \in Nat /\ k + Len(<<>>) = k /\ k <= (VGA_HEIGHT - 1) * VGA_WIDTH
  BY PromptEnds, ShownFits, VGAAssumption
<1> HIDE DEF k
<1>5. ASSUME NEW v, InRow(v), v.column = 0 PROVE AtRow(terminal_write(v, PromptText), k)
  <2>1. EndsWith(PromptText, k, k, PromptText \o <<>>) /\ InNewRow(v, PromptText, k, k)
    BY <1>5, PromptEnds, PromptInNewRow DEF k
  <2> QED BY <1>4, <1>5, <2>1, WriteAtRow
<1>6. ASSUME NEW out \in Outputs PROVE AtRow(terminal_write(fed, out \o PromptText), k)
  <2>1. out \in Seq(STRING) /\ out # <<>> /\ Last(out) = Newline
    BY TerminalAssumption
  <2>2. PICK n \in Nat : /\ EndsWith(out \o PromptText, n, k, PromptText \o <<>>)
                         /\ InNewRow(fed, out \o PromptText, n, k)
    BY <2>1, PromptInNewRow DEF k
  <2> QED BY <1>1, <1>4, <2>2, WriteAtRow
<1>7. AtRow(screen', k)
  BY <1>1, <1>2, <1>3, <1>5, <1>6
<1> QED
  BY <1>3, <1>4, <1>7 DEF k

(* By how many cells a step may move what is above up: by a row when a     *)
(* character fills the last cell of the screen.                            *)
Shift(k) ==
  \/ k = 0
  \/ k = VGA_WIDTH /\ At(screen) = VGA_HEIGHT * VGA_WIDTH - 1 /\ Len(line') > Len(line)

(* A character typed.                                                      *)
LEMMA TypedMoves ==
  ASSUME use_framebuffer = FALSE, line \in Texts, VgaTypeOK(screen),
         NEW m, m = Len(PromptText) + Len(line), AtRow(screen, m),
         NEW c \in Chars, Len(line) < Room, line' = Append(line, c)
  PROVE  LET u == terminal_putchar(screen, c) IN
         /\ VgaTypeOK(u) /\ AtRow(u, m + 1) /\ Len(PromptText) + Len(line') = m + 1
         /\ \E k \in {0, VGA_WIDTH} :
              /\ Shift(k) /\ KeptBelow(screen, u, At(screen) - m, k)
              /\ At(u) - (m + 1) = At(screen) - m - k
<1> DEFINE u == vga_putchar(screen, c)
           p == At(screen)
           w == VGA_WIDTH
           h == VGA_HEIGHT * VGA_WIDTH
<1>1. /\ m \in Nat /\ Len(line') = Len(line) + 1 /\ Len(line) \in Nat
      /\ Len(PromptText) + Len(line') = m + 1 /\ line' \in Texts
  <2>1. Len(line') = Len(line) + 1 /\ line' \in Texts
    BY LinesEdited
  <2>2. Len(PromptText) \in Nat /\ Len(line) \in Nat
    BY LineFits
  <2> QED BY <2>1, <2>2
<1>2. m + 1 <= (VGA_HEIGHT - 1) * VGA_WIDTH
  BY <1>1, ShownFits
<1>3. Plain(c)
  BY TerminalAssumption DEF Plain
<1>4. VgaTypeOK(u) /\ AtRow(u, m + 1)
  BY <1>1, <1>2, <1>3, PutcharColumn, PutcharAtRow
<1>5. p \in Nat /\ w \in Nat \ {0} /\ h \in Int
  BY Places, VGAAssumption
<1>6. \/ At(u) = p + 1 /\ KeptBelow(screen, u, p, 0)
      \/ p + 1 = h /\ At(u) = p + 1 - w /\ KeptBelow(screen, u, p, w)
  BY <1>3, PutcharMoves
<1> HIDE DEF u, p, w, h
<1>7. \E k \in {0, w} : /\ Shift(k) /\ KeptBelow(screen, u, p - m, k)
                        /\ At(u) - (m + 1) = p - m - k
  <2>1. CASE At(u) = p + 1 /\ KeptBelow(screen, u, p, 0)
    <3>1. KeptBelow(screen, u, p - m, 0) /\ At(u) - (m + 1) = p - m - 0
      BY <1>1, <1>5, <2>1, KeptLess
    <3> QED BY <3>1 DEF Shift
  <2>2. CASE p + 1 = h /\ At(u) = p + 1 - w /\ KeptBelow(screen, u, p, w)
    <3>1. KeptBelow(screen, u, p - m, w) /\ At(u) - (m + 1) = p - m - w /\ p = h - 1
      BY <1>1, <1>5, <2>2, KeptLess
    <3>2. Shift(w)
      BY <1>1, <3>1 DEF Shift, w, p, h
    <3> QED BY <3>1, <3>2
  <2> QED BY <1>6, <2>1, <2>2
<1>8. terminal_putchar(screen, c) = u
  BY DEF terminal_putchar, u
<1> QED
  BY <1>1, <1>4, <1>7, <1>8 DEF w, p

(* Every other step: what is above the line is kept, and the line in its   *)
(* place.                                                                  *)
LEMMA EditRow ==
  ASSUME use_framebuffer = FALSE, line \in Texts, TextOK(screen, line), TextSpelled(screen, line),
         NEW m, m = Len(PromptText) + Len(line), AtRow(screen, m), TNext, ~Enter
  PROVE  /\ AtRow(screen', Len(PromptText) + Len(line'))
         /\ \E k \in {0, VGA_WIDTH} : Shift(k) /\ KeptBelow(screen, screen', At(screen) - m, k)
<1> DEFINE p == At(screen)
           w == VGA_WIDTH
<1>1. VgaTypeOK(screen) /\ m \in Nat /\ p \in Nat /\ w \in Nat \ {0} /\ m <= p
  BY Places, LineSpelling DEF TextOK, TextSpelled, Spelled
<1> HIDE DEF p
<1>2. ASSUME NEW v, NEW text \in Texts, VgaTypeOK(v), NEW j \in Nat, AtRow(v, j)
      PROVE  /\ AtRow(redraw_input(v, text), Len(PromptText) + Len(text))
             /\ KeptBelow(v, redraw_input(v, text), At(v) - j, 0)
  <2> DEFINE d == vga_redraw(v, text)
  <2>1. redraw_input(v, text) = d
    BY DEF redraw_input
  <2>2. AtRow(d, Len(PromptText) + Len(text)) /\ KeptBelow(v, d, v.row * VGA_WIDTH, 0)
    BY <1>2, RedrawAtRow, RedrawMoves
  <2>3. At(v) - j <= v.row * VGA_WIDTH /\ v.row * VGA_WIDTH \in Int /\ At(v) \in Nat
    BY <1>2, AboveRow, Places
  <2> HIDE DEF d
  <2>4. KeptBelow(v, d, At(v) - j, 0)
    BY <2>2, <2>3, KeptLess
  <2> QED BY <2>1, <2>2, <2>4
<1>3. ASSUME NEW c \in Chars, TypeSerial(c)
      PROVE  /\ AtRow(screen', Len(PromptText) + Len(line'))
             /\ \E k \in {0, w} : Shift(k) /\ KeptBelow(screen, screen', p - m, k)
  <2>1. screen' = terminal_putchar(screen, c) /\ line' = Append(line, c) /\ Len(line) < Room
    BY <1>3 DEF TypeSerial
  <2> QED BY <1>1, <2>1, TypedMoves DEF p
<1>4. ASSUME NEW c \in Chars, TypeKey(c)
      PROVE  /\ AtRow(screen', Len(PromptText) + Len(line'))
             /\ \E k \in {0, w} : Shift(k) /\ KeptBelow(screen, screen', p - m, k)
  <2> DEFINE u == terminal_putchar(screen, c)
  <2>1. screen' = redraw_input(u, line') /\ line' = Append(line, c) /\ Len(line) < Room
    BY <1>4 DEF TypeKey
  <2>2. /\ VgaTypeOK(u) /\ AtRow(u, m + 1)
        /\ \E k \in {0, w} : /\ Shift(k) /\ KeptBelow(screen, u, p - m, k)
                             /\ At(u) - (m + 1) = p - m - k
    BY <1>1, <2>1, TypedMoves DEF p
  <2>3. line' \in Texts /\ m + 1 \in Nat
    BY <1>1, StepLine
  <2> HIDE DEF u, w
  <2>4. /\ AtRow(screen', Len(PromptText) + Len(line'))
        /\ KeptBelow(u, screen', At(u) - (m + 1), 0)
    BY <1>2, <2>1, <2>2, <2>3
  <2>5. PICK k \in {0, w} : /\ Shift(k) /\ KeptBelow(screen, u, p - m, k)
                            /\ At(u) - (m + 1) = p - m - k
    BY <2>2
  <2>6. k \in Int /\ p - m \in Int /\ KeptBelow(u, screen', p - m - k, 0)
    BY <1>1, <2>4, <2>5
  <2>7. KeptBelow(screen, screen', p - m, k)
    BY <2>5, <2>6, KeptThrough
  <2> QED BY <2>4, <2>5, <2>7
<1>5. ASSUME Backspace
      PROVE  /\ AtRow(screen', Len(PromptText) + Len(line'))
             /\ KeptBelow(screen, screen', p - m, 0)
  <2> DEFINE d == vga_putchar(screen, Erase)
  <2>1. screen' = d /\ line' = Front(line) /\ line # <<>>
    BY <1>5 DEF Backspace, terminal_putchar
  <2>2. m \in Nat \ {0} /\ Len(PromptText) + Len(line') = m - 1
    <3>1. Len(line') = Len(line) - 1 /\ Len(PromptText) \in Nat /\ Len(line) \in Nat
      BY <2>1, LinesEdited, LineFits
    <3>2. m \in Nat \ {0}
      BY <2>1, LineSpelling
    <3> QED BY <3>1, <3>2
  <2>3. p # 0
    BY <1>1, <2>2
  <2>4. AtRow(d, m - 1) /\ KeptBelow(screen, d, p - 1, 0)
    BY <1>1, <2>2, <2>3, EraseAtRow, EraseMoves DEF p
  <2> HIDE DEF d
  <2>5. KeptBelow(screen, d, p - m, 0)
    BY <1>1, <2>2, <2>4, KeptLess
  <2> QED BY <2>1, <2>2, <2>4, <2>5
<1>6. ASSUME NEW text \in Texts, MoveOrReplace(text)
      PROVE  /\ AtRow(screen', Len(PromptText) + Len(line'))
             /\ KeptBelow(screen, screen', p - m, 0)
  <2>1. screen' = redraw_input(screen, text) /\ line' = text
    BY <1>6 DEF MoveOrReplace
  <2> QED BY <1>1, <1>2, <2>1 DEF p
<1>7. Shift(0)
  BY DEF Shift
<1> QED
  BY <1>3, <1>4, <1>5, <1>6, <1>7 DEF TNext, p

(* The line is at the start of a row in every state.                       *)
LEMMA TSpecRow == TSpec => []RowInv
<1>1. ASSUME TermInv, ShownInv, RowInv, [TNext]_tvars PROVE RowInv'
  <2>1. CASE UNCHANGED tvars
    BY <1>1, <2>1 DEF RowInv, AtRow, At, tvars
  <2>2. CASE TNext
    <3>1. use_framebuffer' = use_framebuffer /\ line \in Texts
      BY <1>1, <2>2, StepLine DEF TermInv
    <3>2. use_framebuffer = FALSE => AtRow(screen', Len(PromptText) + Len(line'))
      BY <1>1, <2>2, <3>1, EnterRow, EditRow DEF TermInv, ShownInv, RowInv, TextOK
    <3> QED BY <3>1, <3>2 DEF RowInv, AtRow, At
  <2> QED BY <1>1, <2>1, <2>2
<1> QED
  BY TInitRow, TSpecInv, TSpecShown, <1>1, PTL DEF TSpec

-----------------------------------------------------------------------------
(* Theorems *)

(* The cursor of the text terminal keeps to the rows of the screen and,    *)
(* within what prompt and line take, to the columns; in graphics it starts *)
(* on a row of characters and every inverted cell is one of the screen.    *)
THEOREM TSpecScreenTypeOK == TSpec => []ScreenTypeOK
<1>1. ASSUME TermInv PROVE ScreenTypeOK
  <2>1. CASE use_framebuffer = TRUE
    BY <1>1, <2>1, GfxAssumption DEF TermInv, GraphicsOK, Marked, GfxTypeOK, Inside, ScreenTypeOK
  <2>2. CASE use_framebuffer = FALSE
    BY <1>1, <2>2, VGAAssumption DEF TermInv, TextOK, VgaTypeOK, ScreenTypeOK
  <2> QED BY <1>1, <2>1, <2>2 DEF TermInv
<1> QED
  BY TSpecInv, <1>1, PTL

(* gfx_putchar, gfx_move_cursor, gfx_scroll and gfx_clear take the cursor  *)
(* away and show it again so that exactly one cell is inverted, its own.   *)
THEOREM TSpecOneCursorShown == TSpec => []OneCursorShown
<1>1. ASSUME TermInv PROVE OneCursorShown
  BY <1>1 DEF TermInv, GraphicsOK, Marked, OneCursorShown
<1> QED
  BY TSpecInv, <1>1, PTL

(* Nothing is drawn outside the framebuffer before gfx_scroll has run,     *)
(* unless the line fills its row.                                          *)
THEOREM TSpecInFramebufferUntilScrolled == TSpec => []InFramebufferUntilScrolled
<1>1. ASSUME TermInv PROVE InFramebufferUntilScrolled
  <2> SUFFICES ASSUME Stray, ~screen.scrolled PROVE Len(Shown) >= Columns
    BY DEF InFramebufferUntilScrolled
  <2>1. GraphicsOK(screen, line) /\ line \in Texts
    BY <1>1 DEF TermInv, Stray
  <2>2. ~(Len(PromptText) + Len(line) < Columns)
    BY <2>1 DEF GraphicsOK, Kept, Stray
  <2>3. Len(Shown) = Len(PromptText) + Len(line) /\ Len(PromptText) \in Nat /\ Len(line) \in Nat
    BY <2>1, LineFits, VGAAssumption DEF Shown
  <2> QED BY <2>2, <2>3, GfxAssumption
<1> QED
  BY TSpecInv, <1>1, PTL

(* Whatever mixture of keyboard, serial port, erasing and redrawing put    *)
(* them there, prompt and line are what stands before the cursor, over the *)
(* ends of rows and, on the text terminal, through scrolling.              *)
THEOREM TSpecLineShown == TSpec => []LineShown
<1>1. ASSUME TermInv, ShownInv PROVE LineShown
  <2> SUFFICES ASSUME use_framebuffer => ~screen.scrolled /\ ~screen.stray,
                      NEW i \in 1 .. Len(Shown)
               PROVE  screen.cells[Start + i - 1] = Shown[i]
    BY DEF LineShown
  <2> DEFINE m == Len(PromptText) + Len(line)
  <2>1. Len(Shown) = m
    BY <1>1, LineFits DEF TermInv, Shown
  <2>2. Spelled(screen.cells, Cursor, m, Shown)
    BY <1>1 DEF TermInv, ShownInv, GraphicsSpelled, TextSpelled, Cursor, Shown
  <2> HIDE DEF m
  <2> QED BY <2>1, <2>2 DEF Spelled, Start
<1> QED
  BY TSpecInv, TSpecShown, <1>1, PTL

(* On the text terminal typing, erasing and redrawing leave what is above  *)
(* the line as it is, or move it up by one row: the line begins with a row *)
(* and putchar, scrolling and redraw_input write no cell above it.         *)
THEOREM TSpecEditingKeepsTranscript == TSpec => EditingKeepsTranscript
<1> DEFINE Moved == (~use_framebuffer /\ ~Enter) =>
                      LET shift == IF At(screen) = VGA_HEIGHT * VGA_WIDTH - 1 /\ Len(line') > Len(line)
                                   THEN {0, VGA_WIDTH} ELSE {0}
                      IN  \E k \in shift : \A i \in 0 .. Start - 1 - k : screen'.cells[i] = screen.cells[i + k]
<1>1. ASSUME TermInv, ShownInv, RowInv, TNext PROVE Moved
  <2> SUFFICES ASSUME ~use_framebuffer, ~Enter PROVE Moved
    OBVIOUS
  <2> DEFINE m == Len(PromptText) + Len(line)
  <2>1. /\ use_framebuffer = FALSE /\ line \in Texts /\ TextOK(screen, line)
        /\ TextSpelled(screen, line) /\ AtRow(screen, m)
    BY <1>1 DEF TermInv, ShownInv, RowInv
  <2>2. Start = At(screen) - m
    BY <2>1, LineFits DEF Start, Cursor, Shown, TextSpelled
  <2>3. PICK k \in {0, VGA_WIDTH} : Shift(k) /\ KeptBelow(screen, screen', Start, k)
    BY <1>1, <2>1, <2>2, EditRow
  <2>4. \A i \in 0 .. Start - 1 - k : screen'.cells[i] = screen.cells[i + k]
    BY <2>3 DEF KeptBelow
  <2> QED BY <2>3, <2>4 DEF Shift
<1>2. TermInv /\ ShownInv /\ RowInv /\ [TNext]_tvars => [Moved]_tvars
  BY <1>1
<1> QED
  BY TSpecInv, TSpecShown, TSpecRow, <1>2, PTL DEF TSpec, EditingKeepsTranscript

=============================================================================
