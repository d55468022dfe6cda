--------------------------- MODULE KeyboardProofs ---------------------------
(***************************************************************************)
(* Proofs about the line editor of the keyboard, for every size of the     *)
(* buffer and of the history and every keyboard: its types, its three      *)
(* invariants, that it implements LineEditor, and what is left of all this *)
(* when the serial loop of Console edits the same line.                    *)
(***************************************************************************)
EXTENDS Console, Numbers, SequenceTheorems, TLAPS

-----------------------------------------------------------------------------
(* Scans *)

(* A scan that starts left of some NUL stops at the first one.             *)
LEMMA ScanStops ==
  ASSUME NEW b, NEW p \in Cells, NEW q \in Cells, p <= q, b[q] = NUL
  PROVE  /\ Terminator(b, p) \in p .. q
         /\ b[Terminator(b, p)] = NUL
         /\ \A j \in p .. Terminator(b, p) - 1 : b[j] # NUL
<1> DEFINE T == {i \in p .. q : b[i] = NUL}
<1>1. BufSize \in Nat /\ p \in Nat /\ q \in Nat /\ q <= BufSize - 1
  BY KeyboardAssumption DEF Cells
<1>2. T \subseteq Nat /\ q \in T
  BY <1>1
<1>3. PICK x \in T : \A y \in T : x <= y
  BY <1>2, Least
<1>4. x \in p .. BufSize - 1 /\ b[x] = NUL /\ \A j \in p .. x - 1 : b[j] # NUL
  BY <1>1, <1>2, <1>3
<1> DEFINE t == Terminator(b, p)
<1>5. t \in p .. BufSize - 1 /\ b[t] = NUL /\ \A j \in p .. t - 1 : b[j] # NUL
  BY <1>4 DEF Terminator
<1>6. t <= q
  BY <1>1, <1>5
<1> QED
  BY <1>1, <1>5, <1>6

(* There is only one cell where it can stop.                               *)
LEMMA ScanStopsAt ==
  ASSUME NEW b, NEW p \in Cells, NEW t \in Cells, p <= t, b[t] = NUL,
         \A j \in p .. t - 1 : b[j] # NUL
  PROVE  Terminator(b, p) = t
<1>1. /\ Terminator(b, p) \in p .. t
      /\ b[Terminator(b, p)] = NUL
  BY ScanStops
<1> QED
  BY <1>1, KeyboardAssumption DEF Cells

(* A cell without a NUL does not stop it.                                  *)
LEMMA ScanPasses ==
  ASSUME NEW b, NEW p \in Cells, b[BufSize - 1] = NUL, b[p] # NUL
  PROVE  p + 1 \in Cells /\ Terminator(b, p + 1) = Terminator(b, p)
<1>1. BufSize \in Nat /\ p \in Nat /\ p < BufSize - 1 /\ p + 1 \in Cells /\ BufSize - 1 \in Cells
  BY KeyboardAssumption DEF Cells
<1> DEFINE t == Terminator(b, p)
<1>2. t \in p .. BufSize - 1 /\ b[t] = NUL /\ \A j \in p .. t - 1 : b[j] # NUL
  BY <1>1, ScanStops
<1>3. t \in Cells /\ p + 1 <= t /\ \A j \in p + 1 .. t - 1 : b[j] # NUL
  BY <1>1, <1>2 DEF Cells
<1> HIDE DEF t
<1>4. Terminator(b, p + 1) = t
  BY <1>1, <1>2, <1>3, ScanStopsAt
<1> QED
  BY <1>1, <1>4 DEF t

(* The characters between two cells without a NUL are a text.              *)
LEMMA SliceIsText ==
  ASSUME NEW b \in [Cells -> Chars \cup {NUL}], NEW p \in Nat, NEW q \in Cells, p <= q,
         \A j \in p .. q - 1 : b[j] # NUL
  PROVE  /\ Slice(b, p, q) \in Text /\ Slice(b, p, q) \in Seq(Chars)
         /\ Len(Slice(b, p, q)) = q - p
         /\ \A i \in 1 .. q - p : Slice(b, p, q)[i] = b[p + i - 1]
<1>1. q - p \in 0 .. BufSize - 1 /\ \A i \in 1 .. q - p : p + i - 1 \in Cells /\ p + i - 1 \in p .. q - 1
  BY KeyboardAssumption DEF Cells
<1>2. \A i \in 1 .. q - p : b[p + i - 1] \in Chars
  BY <1>1
<1>3. Slice(b, p, q) \in [1 .. q - p -> Chars]
  BY <1>2 DEF Slice
<1>4. Slice(b, p, q) \in Seq(Chars)
  BY <1>1, <1>3, SeqDef
<1> QED
  BY <1>1, <1>3, <1>4 DEF Text, Slice

(* And what lies in front of a cursor is one of its length.                *)
LEMMA PrefixIsText ==
  ASSUME NEW b \in [Cells -> Chars \cup {NUL}], NEW p \in Cells,
         \A j \in 0 .. p - 1 : b[j] # NUL
  PROVE  /\ Slice(b, 0, p) \in Text /\ Slice(b, 0, p) \in Seq(Chars)
         /\ Len(Slice(b, 0, p)) = p
         /\ \A i \in 1 .. p : Slice(b, 0, p)[i] = b[i - 1]
<1>1. p \in Nat /\ 0 <= p
  BY KeyboardAssumption DEF Cells
<1>2. \A q \in Nat : q <= p /\ q = 0 =>
        /\ Slice(b, q, p) \in Text /\ Slice(b, q, p) \in Seq(Chars)
        /\ Len(Slice(b, q, p)) = p - q
        /\ \A i \in 1 .. p - q : Slice(b, q, p)[i] = b[q + i - 1]
  BY SliceIsText
<1>3. /\ Slice(b, 0, p) \in Text /\ Slice(b, 0, p) \in Seq(Chars)
      /\ Len(Slice(b, 0, p)) = p - 0
      /\ \A i \in 1 .. p - 0 : Slice(b, 0, p)[i] = b[0 + i - 1]
  BY <1>1, <1>2
<1>4. p - 0 = p /\ \A i \in 1 .. p : 0 + i - 1 = i - 1
  BY <1>1
<1> QED
  BY <1>3, <1>4

(* A text is shorter than the line buffer.                                  *)
LEMMA TextLen ==
  ASSUME NEW s \in Text
  PROVE  s \in Seq(Chars) /\ Len(s) \in Cells /\ \A i \in 1 .. Len(s) : s[i] \in Chars
<1>1. PICK n \in 0 .. BufSize - 1 : s \in [1 .. n -> Chars]
  BY DEF Text
<1>2. n \in Nat /\ s \in Seq(Chars)
  BY <1>1, KeyboardAssumption, SeqDef
<1> QED
  BY <1>1, <1>2, KeyboardAssumption DEF Cells

(* A key types a character, never the NUL.                                  *)
LEMMA ChosenIsChar ==
  ASSUME NEW key \in Letters \cup Symbols
  PROVE  Ascii(key) \in Chars /\ Ascii(key) # NUL
BY KeyboardAssumption DEF Ascii, Chars

-----------------------------------------------------------------------------
(* What both editors of the line may rely on *)

(* The last cell keeps its NUL, and history_index stays behind the last    *)
(* entry: that is what makes every scan and every recall well defined,     *)
(* whoever writes the line.                                                *)
ScanSafe ==
  /\ KbTypeOK
  /\ ~overrun => input_buffer[BufSize - 1] = NUL
  /\ history_index < Len(history)

(* The line buffer has at least two cells.                                  *)
LEMMA BufferFacts ==
  /\ BufSize \in Nat /\ BufSize >= 2 /\ 0 \in Cells /\ BufSize - 1 \in Cells
  /\ \A x \in Cells : x \in Nat /\ x <= BufSize - 1
BY KeyboardAssumption DEF Cells

(* The string that Enter runs and Up saves ends at the cursor or before.   *)
LEMMA TerminatedString ==
  ASSUME KbTypeOK
  PROVE  /\ Terminated \in [Cells -> Chars \cup {NUL}]
         /\ Str(Terminated) \in Text
<1>1. Terminated \in [Cells -> Chars \cup {NUL}] /\ Terminated[input_pos] = NUL
  BY DEF KbTypeOK, Terminated
<1>2. input_pos \in Cells /\ 0 <= input_pos
  BY BufferFacts DEF KbTypeOK
<1> DEFINE t == Terminator(Terminated, 0)
<1>3. t \in 0 .. input_pos /\ \A j \in 0 .. t - 1 : Terminated[j] # NUL
  BY <1>1, <1>2, BufferFacts, ScanStops
<1>4. t \in Cells /\ 0 <= t
  BY <1>2, <1>3, BufferFacts DEF Cells
<1> HIDE DEF t
<1>5. Slice(Terminated, 0, t) \in Text
  BY <1>1, <1>3, <1>4, SliceIsText
<1> QED
  BY <1>1, <1>5 DEF Str, t

(* A recalled command fits, and leaves the last cell alone.                *)
LEMMA OverlaidFits ==
  ASSUME KbTypeOK, NEW cmd \in Text
  PROVE  /\ Overlaid(cmd) \in [Cells -> Chars \cup {NUL}]
         /\ Len(cmd) \in Cells
         /\ Overlaid(cmd)[BufSize - 1] = input_buffer[BufSize - 1]
         /\ \A i \in 0 .. Len(cmd) - 1 : Overlaid(cmd)[i] = cmd[i + 1]
<1>1. Len(cmd) \in Cells /\ \A i \in 1 .. Len(cmd) : cmd[i] \in Chars
  BY TextLen
<1>2. \A i \in Cells : i < Len(cmd) => i + 1 \in 1 .. Len(cmd)
  BY <1>1 DEF Cells
<1>3. Overlaid(cmd) \in [Cells -> Chars \cup {NUL}]
  BY <1>1, <1>2 DEF KbTypeOK, Overlaid
<1>4. \A i \in 0 .. Len(cmd) - 1 : i \in Cells /\ i < Len(cmd)
  BY <1>1, BufferFacts DEF Cells
<1> QED
  BY <1>1, <1>3, <1>4, BufferFacts DEF Overlaid

(* Removing a character leaves the last cell alone, and all left of it.    *)
LEMMA RemovedFits ==
  ASSUME KbTypeOK, input_buffer[BufSize - 1] = NUL,
         NEW p \in Cells, p < BufSize - 1
  PROVE  /\ Removed(p) \in [Cells -> Chars \cup {NUL}]
         /\ Removed(p)[BufSize - 1] = NUL
         /\ \A i \in 0 .. p - 1 : Removed(p)[i] = input_buffer[i]
<1>1. p + 1 \in Cells /\ p + 1 <= BufSize - 1
  BY BufferFacts DEF Cells
<1>2. Terminator(input_buffer, p + 1) \in p + 1 .. BufSize - 1
  BY <1>1, BufferFacts, ScanStops
<1>3. \A i \in Cells : i < Terminator(input_buffer, p + 1) => i + 1 \in Cells
  BY <1>2, BufferFacts DEF Cells
<1>4. Removed(p) \in [Cells -> Chars \cup {NUL}]
  BY <1>3 DEF KbTypeOK, Removed
<1>5. Removed(p)[BufSize - 1] = NUL
  BY <1>2, BufferFacts DEF Removed
<1>6. \A i \in 0 .. p - 1 : i \in Cells /\ ~(p <= i)
  BY BufferFacts DEF Cells
<1> QED
  BY <1>4, <1>5, <1>6 DEF Removed

(* Inserting one either stores past the end or keeps a NUL in the last     *)
(* cell: the one that ended the text moves there at the most.              *)
LEMMA InsertedFits ==
  ASSUME KbTypeOK, input_buffer[BufSize - 1] = NUL,
         input_pos < BufSize - 1, NEW c \in Chars
  PROVE  /\ Inserted(c) \in [Cells -> Chars \cup {NUL}]
         /\ Terminator(input_buffer, input_pos) # BufSize - 1 => Inserted(c)[BufSize - 1] = NUL
         /\ Inserted(c)[input_pos] = c
         /\ \A i \in 0 .. input_pos - 1 : Inserted(c)[i] = input_buffer[i]
<1> DEFINE len == Terminator(input_buffer, input_pos)
<1>1. input_pos \in Cells /\ input_pos <= BufSize - 1
  BY BufferFacts DEF KbTypeOK
<1>2. len \in input_pos .. BufSize - 1 /\ input_buffer[len] = NUL
  BY <1>1, BufferFacts, ScanStops
<1> HIDE DEF len
<1>3. Inserted(c) = [i \in Cells |-> IF i = input_pos THEN c
                   ELSE IF input_pos < i /\ i <= len + 1 /\ len > input_pos
                        THEN input_buffer[i - 1]
                   ELSE input_buffer[i]]
  BY DEF Inserted, len
<1>4. \A i \in Cells : input_pos < i => i - 1 \in Cells
  BY <1>1, BufferFacts DEF Cells
<1>5. Inserted(c) \in [Cells -> Chars \cup {NUL}]
  BY <1>3, <1>4 DEF KbTypeOK
<1>6. ASSUME len # BufSize - 1 PROVE Inserted(c)[BufSize - 1] = NUL
  <2>1. BufSize - 1 <= len + 1 => len = BufSize - 2
    BY <1>2, <1>6, BufferFacts
  <2> QED BY <2>1, <1>2, <1>3, BufferFacts
<1>7. \A i \in 0 .. input_pos - 1 : i \in Cells /\ i # input_pos /\ ~(input_pos < i)
  BY <1>1, BufferFacts DEF Cells
<1> QED
  BY <1>1, <1>3, <1>5, <1>6, <1>7 DEF len

(* The history stays a sequence of texts within its bound.                 *)
LEMMA RememberedFits ==
  ASSUME KbTypeOK, NEW cmd \in Text
  PROVE  /\ Remembered(cmd) \in Seq(Text) /\ Len(Remembered(cmd)) <= MAX_HISTORY
         /\ Len(Remembered(cmd)) > 0
<1>1. history \in Seq(Text) /\ Len(history) <= MAX_HISTORY /\ Len(history) \in Nat
  BY LenProperties DEF KbTypeOK
<1>2. MAX_HISTORY \in Nat /\ MAX_HISTORY > 0
  BY KeyboardAssumption
<1>3. CASE history # <<>> /\ history[Len(history)] = cmd
  <2>1. Len(history) > 0
    BY <1>1, <1>3, EmptySeq
  <2>2. Remembered(cmd) = history
    BY <1>3 DEF Remembered
  <2> QED BY <1>1, <2>1, <2>2
<1>4. CASE ~(history # <<>> /\ history[Len(history)] = cmd) /\ Len(history) < MAX_HISTORY
  <2>1. Remembered(cmd) = Append(history, cmd)
    BY <1>4 DEF Remembered
  <2>2. /\ Append(history, cmd) \in Seq(Text)
        /\ Len(Append(history, cmd)) = Len(history) + 1
    BY <1>1, AppendProperties
  <2> QED BY <1>1, <1>2, <1>4, <2>1, <2>2
<1>5. CASE ~(history # <<>> /\ history[Len(history)] = cmd) /\ ~(Len(history) < MAX_HISTORY)
  <2>1. Remembered(cmd) = Append(Tail(history), cmd)
    BY <1>5 DEF Remembered
  <2>2. history # <<>>
    BY <1>1, <1>2, <1>5, EmptySeq
  <2>3. Tail(history) \in Seq(Text) /\ Len(Tail(history)) = Len(history) - 1
    BY <1>1, <2>2, HeadTailProperties
  <2>4. /\ Append(Tail(history), cmd) \in Seq(Text)
        /\ Len(Append(Tail(history), cmd)) = Len(Tail(history)) + 1
    BY <2>3, AppendProperties
  <2> QED BY <1>1, <1>2, <1>5, <2>1, <2>3, <2>4
<1> QED
  BY <1>3, <1>4, <1>5

(* It still holds no empty entry and none twice in a row.                  *)
NoRepetition(h) ==
  \A i \in DOMAIN h : h[i] # <<>> /\ (i > 1 => h[i] # h[i - 1])

(* Enter does not put a command next to itself.                             *)
LEMMA RememberedDiffers ==
  ASSUME KbTypeOK, NoRepetition(history), NEW cmd \in Text, cmd # <<>>
  PROVE  NoRepetition(Remembered(cmd))
<1>1. /\ history \in Seq(Text) /\ Len(history) \in Nat
      /\ DOMAIN history = 1 .. Len(history)
  BY LenProperties DEF KbTypeOK
<1>2. CASE history # <<>> /\ history[Len(history)] = cmd
  <2>1. Remembered(cmd) = history
    BY <1>2 DEF Remembered
  <2> QED BY <2>1
<1>3. CASE ~(history # <<>> /\ history[Len(history)] = cmd) /\ Len(history) < MAX_HISTORY
  <2>1. Remembered(cmd) = Append(history, cmd)
    BY <1>3 DEF Remembered
  <2> DEFINE h == Append(history, cmd)
  <2>2. /\ h \in Seq(Text) /\ Len(h) = Len(history) + 1
        /\ \A i \in 1 .. Len(history) : h[i] = history[i]
        /\ h[Len(history) + 1] = cmd
    BY <1>1, AppendProperties
  <2>3. DOMAIN h = 1 .. Len(history) + 1
    BY <2>2, LenProperties
  <2> HIDE DEF h
  <2>4. ASSUME NEW i \in DOMAIN h PROVE h[i] # <<>> /\ (i > 1 => h[i] # h[i - 1])
    <3>1. CASE i = Len(history) + 1
      <4>1. i > 1 => history # <<>> /\ i - 1 \in 1 .. Len(history) /\ i - 1 = Len(history)
        BY <1>1, <3>1
      <4> QED BY <1>1, <1>3, <2>2, <3>1, <4>1
    <3>2. CASE i # Len(history) + 1
      <4>1. i \in 1 .. Len(history) /\ (i > 1 => i - 1 \in 1 .. Len(history))
        BY <1>1, <2>3, <3>2
      <4> QED BY <1>1, <2>2, <4>1 DEF NoRepetition
    <3> QED BY <3>1, <3>2
  <2> QED BY <2>1, <2>4 DEF NoRepetition, h
<1>4. CASE ~(history # <<>> /\ history[Len(history)] = cmd) /\ ~(Len(history) < MAX_HISTORY)
  <2>1. Remembered(cmd) = Append(Tail(history), cmd)
    BY <1>4 DEF Remembered
  <2>2. history # <<>> /\ Len(history) > 0
    BY <1>1, <1>4, EmptySeq, KeyboardAssumption
  <2> DEFINE t == Tail(history)
  <2>3. /\ t \in Seq(Text) /\ Len(t) = Len(history) - 1
        /\ \A i \in 1 .. Len(t) : t[i] = history[i + 1]
    BY <1>1, <2>2, HeadTailProperties
  <2> HIDE DEF t
  <2> DEFINE h == Append(t, cmd)
  <2>4. /\ h \in Seq(Text) /\ Len(h) = Len(history)
        /\ \A i \in 1 .. Len(t) : h[i] = t[i]
        /\ h[Len(t) + 1] = cmd
    <3>1. /\ h \in Seq(Text) /\ Len(h) = Len(t) + 1
          /\ \A i \in 1 .. Len(t) : h[i] = t[i]
          /\ h[Len(t) + 1] = cmd
      BY <2>3, AppendProperties
    <3> QED BY <1>1, <2>3, <3>1
  <2>5. DOMAIN h = 1 .. Len(history)
    BY <2>4, LenProperties
  <2> HIDE DEF h
  <2>6. ASSUME NEW i \in DOMAIN h PROVE h[i] # <<>> /\ (i > 1 => h[i] # h[i - 1])
    <3>1. CASE i = Len(history)
      <4>1. h[i] = cmd
        BY <2>3, <2>4, <3>1
      <4>2. i > 1 => h[i - 1] = history[i]
        BY <1>1, <2>3, <2>4, <3>1
      <4> QED BY <1>4, <2>2, <3>1, <4>1, <4>2
    <3>2. CASE i # Len(history)
      <4>1. i \in 1 .. Len(t) /\ i + 1 \in 1 .. Len(history) /\ i + 1 > 1
            /\ (i > 1 => i - 1 \in 1 .. Len(t))
        BY <1>1, <2>3, <2>5, <3>2
      <4>2. h[i] = history[i + 1] /\ (i > 1 => h[i - 1] = history[i])
        BY <2>3, <2>4, <4>1
      <4> QED BY <1>1, <4>1, <4>2 DEF NoRepetition
    <3> QED BY <3>1, <3>2
  <2> QED BY <2>1, <2>6 DEF NoRepetition, h, t
<1> QED
  BY <1>2, <1>3, <1>4

(* What Enter runs and Up saves is the text left of the cursor.            *)
LEMMA TerminatedAtCursor ==
  ASSUME KbTypeOK, \A i \in 0 .. input_pos - 1 : input_buffer[i] # NUL
  PROVE  /\ Str(Terminated) = Slice(input_buffer, 0, input_pos)
         /\ Len(Str(Terminated)) = input_pos
         /\ Terminator(Terminated, 0) = input_pos
<1>1. input_pos \in Cells /\ input_pos \in Nat /\ 0 <= input_pos
  BY BufferFacts DEF KbTypeOK
<1>2. /\ Terminated[input_pos] = NUL
      /\ \A j \in 0 .. input_pos - 1 : j \in Cells /\ Terminated[j] = input_buffer[j]
  BY <1>1, BufferFacts DEF KbTypeOK, Terminated, Cells
<1>3. Terminator(Terminated, 0) = input_pos
  BY <1>1, <1>2, BufferFacts, ScanStopsAt
<1>4. \A i \in 1 .. input_pos - 0 : Terminated[0 + i - 1] = input_buffer[0 + i - 1]
  BY <1>1, <1>2
<1>5. Slice(Terminated, 0, input_pos) = Slice(input_buffer, 0, input_pos)
  BY <1>4 DEF Slice
<1>6. Len(Slice(input_buffer, 0, input_pos)) = input_pos
  BY <1>1, PrefixIsText DEF KbTypeOK
<1> QED
  BY <1>3, <1>5, <1>6 DEF Str

-----------------------------------------------------------------------------
(* One interrupt keeps the scans inside the buffer *)

(* Every scan code leaves the last cell its NUL, if it stores nothing past *)
(* it, and the index behind the last entry.                                *)
LEMMA ScanSafeStep ==
  ASSUME ScanSafe, HandleInterrupt
  PROVE  ScanSafe'
<1> USE BufferFacts
<1>1. /\ KbTypeOK /\ ~overrun /\ input_buffer[BufSize - 1] = NUL
      /\ history_index < Len(history)
      /\ Len(history) \in Nat
  BY LenProperties DEF ScanSafe, HandleInterrupt, KeyHandled, KbTypeOK
<1>2. ASSUME UNCHANGED <<line, recall, overrun>>,
             extended' \in BOOLEAN, shift_pressed' \in BOOLEAN, caps_lock' \in BOOLEAN
      PROVE  ScanSafe'
  BY <1>1, <1>2 DEF ScanSafe, KbTypeOK, line, recall
<1>3. ASSUME input_buffer' \in [Cells -> Chars \cup {NUL}], input_pos' \in Cells,
             input_buffer'[BufSize - 1] = NUL,
             UNCHANGED <<recall, overrun>>,
             extended' \in BOOLEAN, shift_pressed' \in BOOLEAN, caps_lock' \in BOOLEAN
      PROVE  ScanSafe'
  BY <1>1, <1>3 DEF ScanSafe, KbTypeOK, recall
<1>4. CASE PrefixE0 \/ ExtendedOther \/ Shift \/ Release("shift") \/ Release("other")
  BY <1>1, <1>2, <1>4 DEF PrefixE0, ExtendedOther, Shift, Release, KbTypeOK
<1>5. CASE CapsLock
  <2>1. caps_lock' \in BOOLEAN
    BY <1>5 DEF CapsLock
  <2> QED BY <1>1, <1>2, <1>5, <2>1 DEF CapsLock, KbTypeOK
<1>6. CASE Up
  <2>1. CASE history = <<>>
    BY <1>1, <1>2, <1>6, <2>1 DEF Up, Extended, KbTypeOK
  <2>2. CASE history # <<>>
    <3>1. Len(history) > 0
      BY <1>1, <2>2, EmptySeq DEF KbTypeOK
    <3>2. history_index' \in 0 .. Len(history) - 1
      BY <1>1, <1>6, <2>2, <3>1 DEF Up, KbTypeOK
    <3>3. history[history_index' + 1] \in Text
      BY <1>1, <3>2, ElementOfSeq DEF KbTypeOK
    <3>4. saved_input' \in Text
      BY <1>1, <1>6, <2>2, TerminatedString DEF Up, KbTypeOK
    <3>5. /\ input_buffer' = Overlaid(history[history_index' + 1])
          /\ input_pos' = Len(history[history_index' + 1])
          /\ UNCHANGED <<history, shift_pressed, caps_lock, overrun>> /\ extended' = FALSE
      BY <1>6, <2>2 DEF Up, Extended, ReplaceLine
    <3>6. /\ input_buffer' \in [Cells -> Chars \cup {NUL}] /\ input_pos' \in Cells
          /\ input_buffer'[BufSize - 1] = NUL
      BY <1>1, <3>3, <3>5, OverlaidFits
    <3>7. history_index' \in -1 .. MAX_HISTORY - 1 /\ history_index' < Len(history)
      BY <1>1, <3>2, KeyboardAssumption DEF KbTypeOK
    <3>8. UNCHANGED <<history, shift_pressed, caps_lock, overrun>> /\ extended' = FALSE
      BY <3>5
    <3> QED BY <1>1, <3>4, <3>6, <3>7, <3>8 DEF ScanSafe, KbTypeOK
  <2> QED BY <2>1, <2>2
<1>7. CASE Down
  <2>1. CASE history_index = -1
    BY <1>1, <1>2, <1>7, <2>1 DEF Down, Extended, KbTypeOK, line, recall
  <2>2. CASE history_index # -1
    <3> DEFINE cmd == IF HasNewer THEN history[history_index + 2] ELSE saved_input
    <3>1. /\ history_index' = IF HasNewer THEN history_index + 1 ELSE -1
          /\ input_buffer' = Overlaid(cmd) /\ input_pos' = Len(cmd)
          /\ UNCHANGED <<history, saved_input, shift_pressed, caps_lock, overrun>>
          /\ extended' = FALSE
      BY <1>1, <1>7, <2>2 DEF Down, Extended, ReplaceLine, KbTypeOK
    <3>2. history_index' \in -1 .. Len(history) - 1
      BY <1>1, <2>2, <3>1 DEF HasNewer, KbTypeOK
    <3>3. cmd \in Text
      <4>1. CASE HasNewer
        BY <1>1, <2>2, <4>1, ElementOfSeq DEF HasNewer, KbTypeOK
      <4> QED BY <1>1, <4>1 DEF KbTypeOK
    <3> HIDE DEF cmd
    <3>4. /\ input_buffer' \in [Cells -> Chars \cup {NUL}] /\ input_pos' \in Cells
          /\ input_buffer'[BufSize - 1] = NUL
      BY <1>1, <3>1, <3>3, OverlaidFits
    <3>5. Len(history) - 1 <= MAX_HISTORY - 1 /\ history_index' < Len(history)
      BY <1>1, <3>2, KeyboardAssumption DEF KbTypeOK
    <3>6. history_index' \in -1 .. MAX_HISTORY - 1
      BY <1>1, <3>2, <3>5, KeyboardAssumption DEF KbTypeOK
    <3>7. KbTypeOK'
      BY <1>1, <3>1, <3>4, <3>6 DEF KbTypeOK
    <3> QED BY <3>1, <3>4, <3>5, <3>7 DEF ScanSafe
  <2> QED BY <2>1, <2>2
<1>8. CASE Left \/ Right \/ Home
  <2>1. input_pos' \in Cells /\ input_buffer' = input_buffer
    BY <1>1, <1>8 DEF Left, Right, Home, MoveTo, AtText, KbTypeOK, Cells
  <2> QED BY <1>1, <1>3, <1>8, <2>1 DEF Left, Right, Home, Extended, KbTypeOK
<1>9. CASE End
  <2>1. Terminator(input_buffer, input_pos) \in input_pos .. BufSize - 1
    BY <1>1, ScanStops DEF KbTypeOK
  <2>2. input_pos' \in Cells /\ input_buffer' = input_buffer
    BY <1>1, <1>9, <2>1 DEF End, MoveTo, KbTypeOK, Cells
  <2> QED BY <1>1, <1>3, <1>9, <2>2 DEF End, Extended, KbTypeOK
<1>10. CASE Delete
  <2>1. CASE input_buffer[input_pos] = NUL
    BY <1>1, <1>3, <1>10, <2>1 DEF Delete, Extended, KbTypeOK
  <2>2. CASE input_buffer[input_pos] # NUL
    <3>1. input_pos < BufSize - 1
      BY <1>1, <2>2 DEF KbTypeOK, Cells
    <3>2. /\ Removed(input_pos) \in [Cells -> Chars \cup {NUL}]
          /\ Removed(input_pos)[BufSize - 1] = NUL
      BY <1>1, <3>1, RemovedFits DEF KbTypeOK
    <3> QED BY <1>1, <1>3, <1>10, <2>2, <3>2 DEF Delete, Extended, KbTypeOK
  <2> QED BY <2>1, <2>2
<1>11. CASE Enter
  <2>1. Terminated \in [Cells -> Chars \cup {NUL}] /\ Terminated[BufSize - 1] = NUL
    BY <1>1, TerminatedString DEF Terminated, KbTypeOK
  <2>2. history' \in Seq(Text) /\ Len(history') <= MAX_HISTORY
    BY <1>1, <1>11, TerminatedString, RememberedFits DEF Enter, KbTypeOK
  <2>3. Len(history') \in Nat
    BY <2>2, LenProperties
  <2>4. /\ input_buffer' = Terminated /\ input_pos' = 0 /\ history_index' = -1
        /\ UNCHANGED <<saved_input, overrun, modifiers>>
    BY <1>11 DEF Enter, Plain
  <2>5. -1 \in -1 .. MAX_HISTORY - 1
    BY KeyboardAssumption
  <2> QED BY <1>1, <2>1, <2>2, <2>3, <2>4, <2>5 DEF ScanSafe, KbTypeOK, modifiers
<1>12. CASE EnterForGood
  <2>1. Terminated \in [Cells -> Chars \cup {NUL}] /\ Terminated[BufSize - 1] = NUL
    BY <1>1, TerminatedString DEF Terminated, KbTypeOK
  <2> QED BY <1>1, <1>3, <1>12, <2>1 DEF EnterForGood, Plain, modifiers, KbTypeOK
<1>13. CASE Backspace
  <2>1. CASE input_pos > 0
    <3>1. input_pos - 1 \in Cells /\ input_pos - 1 < BufSize - 1
      BY <1>1, <2>1 DEF KbTypeOK, Cells
    <3>2. /\ Removed(input_pos - 1) \in [Cells -> Chars \cup {NUL}]
          /\ Removed(input_pos - 1)[BufSize - 1] = NUL
      BY <1>1, <3>1, RemovedFits
    <3> QED BY <1>1, <1>3, <1>13, <2>1, <3>1, <3>2 DEF Backspace, Plain, modifiers, KbTypeOK
  <2>2. CASE ~(input_pos > 0)
    BY <1>1, <1>2, <1>13, <2>2 DEF Backspace, Plain, modifiers, KbTypeOK
  <2> QED BY <2>1, <2>2
<1>14. ASSUME NEW key \in Letters \cup Symbols, Character(key) PROVE ScanSafe'
  <2>1. CASE input_pos < BufSize - 1
    <3>1. /\ input_buffer' = Inserted(Ascii(key)) /\ input_pos' = input_pos + 1
          /\ overrun' = (Terminator(input_buffer, input_pos) = BufSize - 1)
          /\ UNCHANGED <<recall, modifiers>>
      BY <1>14, <2>1 DEF Character, Plain
    <3>2. /\ input_buffer' \in [Cells -> Chars \cup {NUL}]
          /\ ~overrun' => input_buffer'[BufSize - 1] = NUL
      BY <1>1, <2>1, <3>1, ChosenIsChar, InsertedFits
    <3>3. input_pos' \in Cells
      BY <1>1, <2>1, <3>1 DEF KbTypeOK, Cells
    <3>4. overrun' \in BOOLEAN
      BY <3>1
    <3> QED BY <1>1, <3>1, <3>2, <3>3, <3>4 DEF ScanSafe, KbTypeOK, recall, modifiers
  <2>2. CASE ~(input_pos < BufSize - 1)
    BY <1>1, <1>2, <1>14, <2>2 DEF Character, Plain, modifiers, KbTypeOK
  <2> QED BY <2>1, <2>2
<1> QED
  BY <1>4, <1>5, <1>6, <1>7, <1>8, <1>9, <1>10, <1>11, <1>12, <1>13, <1>14
     DEF HandleInterrupt, KeyHandled

-----------------------------------------------------------------------------
(* The inductive invariant: the three properties hold each other up.  No   *)
(* NUL left of the cursor is what makes the entered line a command that is *)
(* not empty, and entries without a NUL are what keeps it so on recall.    *)

KbInv == ScanSafe /\ LineIsTerminated /\ HistoryIndexNamesEntry

(* The invariant holds at reset: the line is empty.                         *)
LEMMA KbInitInv == KbInit => KbInv
<1> SUFFICES ASSUME KbInit PROVE KbInv
  OBVIOUS
<1>1. <<>> \in Text
  <2>1. <<>> \in [1 .. 0 -> Chars] /\ 0 \in 0 .. BufSize - 1
    BY BufferFacts DEF Cells
  <2> QED BY <2>1 DEF Text
<1>2. Len(history) = 0 /\ history \in Seq(Text) /\ DOMAIN history = {}
  BY EmptySeq DEF KbInit
<1>3. /\ MAX_HISTORY \in Nat /\ MAX_HISTORY > 0
      /\ BufSize - 1 \in Cells /\ 0 \in Cells
      /\ 0 .. 0 - 1 = {}
  BY BufferFacts, KeyboardAssumption
<1>4. KbTypeOK
  BY <1>1, <1>2, <1>3 DEF KbInit, KbTypeOK
<1> QED
  BY <1>2, <1>3, <1>4 DEF KbInit, KbInv, ScanSafe, LineIsTerminated, HistoryIndexNamesEntry

(* Every scan code keeps the invariant.                                     *)
LEMMA KbStepInv ==
  ASSUME KbInv, HandleInterrupt
  PROVE  KbInv'
<1> USE BufferFacts
<1>1. ScanSafe'
  BY ScanSafeStep DEF KbInv
<1>2. /\ KbTypeOK /\ ~overrun /\ input_buffer[BufSize - 1] = NUL
      /\ \A i \in 0 .. input_pos - 1 : input_buffer[i] # NUL
      /\ input_pos \in Nat /\ input_pos \in Cells
  BY DEF KbInv, ScanSafe, LineIsTerminated, HandleInterrupt, KeyHandled, KbTypeOK
<1>3. HistoryIndexNamesEntry'
  <2>1. NoRepetition(history)
    BY DEF KbInv, HistoryIndexNamesEntry, NoRepetition
  <2>2. CASE UNCHANGED history
    BY <1>1, <2>1, <2>2 DEF HistoryIndexNamesEntry, NoRepetition, ScanSafe
  <2>3. CASE Enter /\ input_pos > 0
    <3>1. history' = Remembered(Str(Terminated))
      BY <2>3 DEF Enter
    <3>2. Str(Terminated) \in Text /\ Str(Terminated) # <<>>
      BY <1>2, <2>3, TerminatedString, TerminatedAtCursor, EmptySeq
    <3>3. NoRepetition(history')
      BY <1>2, <2>1, <3>1, <3>2, RememberedDiffers
    <3> QED BY <1>1, <3>3 DEF HistoryIndexNamesEntry, NoRepetition, ScanSafe
  <2>4. UNCHANGED history \/ (Enter /\ input_pos > 0)
    BY DEF HandleInterrupt, KeyHandled, recall, PrefixE0, ExtendedOther, Up, Down, Left, Right,
           Home, End, Delete, Shift, Release, CapsLock, Enter, EnterForGood, Backspace, Character
  <2> QED BY <2>2, <2>3, <2>4
<1>4. ASSUME ~overrun' PROVE \A i \in 0 .. input_pos' - 1 : input_buffer'[i] # NUL
  <2>1. CASE UNCHANGED input_buffer /\ input_pos' \in 0 .. input_pos
    <3>1. \A p \in Nat : \A q \in 0 .. p : 0 .. q - 1 \subseteq 0 .. p - 1
      OBVIOUS
    <3>2. 0 .. input_pos' - 1 \subseteq 0 .. input_pos - 1
      BY <1>2, <2>1, <3>1
    <3> QED BY <1>2, <2>1, <3>2
  <2>2. ASSUME NEW cmd \in Text, ReplaceLine(cmd)
        PROVE  \A i \in 0 .. input_pos' - 1 : input_buffer'[i] # NUL
    <3>1. Len(cmd) \in Nat /\ \A i \in 1 .. Len(cmd) : cmd[i] # NUL
      BY TextLen, KeyboardAssumption
    <3>2. \A i \in 0 .. Len(cmd) - 1 : i + 1 \in 1 .. Len(cmd)
      BY <3>1
    <3> QED BY <1>2, <2>2, <3>1, <3>2, OverlaidFits DEF ReplaceLine
  <2>3. CASE Up
    <3>1. history # <<>> =>
            /\ ReplaceLine(history[history_index' + 1])
            /\ history_index' \in 0 .. Len(history) - 1
      <4>1. history_index \in -1 .. Len(history) - 1 /\ Len(history) \in Nat
        BY LenProperties DEF KbInv, ScanSafe, KbTypeOK
      <4>2. history # <<>> => Len(history) > 0
        BY EmptySeq DEF KbInv, ScanSafe, KbTypeOK
      <4> QED BY <2>3, <4>1, <4>2 DEF Up
    <3>2. history # <<>> => history[history_index' + 1] \in Text
      BY <1>2, <3>1, ElementOfSeq DEF KbTypeOK
    <3> QED BY <1>2, <2>1, <2>2, <2>3, <3>1, <3>2 DEF Up, line
  <2>4. CASE Down
    <3>1. HasNewer /\ history_index # -1 => history[history_index + 2] \in Text
      BY <1>2, ElementOfSeq DEF HasNewer, KbTypeOK
    <3>2. \/ UNCHANGED line
          \/ HasNewer /\ history_index # -1 /\ ReplaceLine(history[history_index + 2])
          \/ ReplaceLine(saved_input)
      <4>1. history_index \in Int
        BY <1>2 DEF KbTypeOK
      <4>2. HasNewer /\ history_index # -1 /\ history_index' = history_index + 1
              => history_index' + 1 = history_index + 2
        BY <4>1
      <4> QED BY <2>4, <4>1, <4>2 DEF Down
    <3> QED BY <1>2, <2>1, <2>2, <3>1, <3>2 DEF line, KbTypeOK
  <2>5. CASE Left \/ Home
    BY <1>2, <2>1, <2>5 DEF Left, Home, MoveTo
  <2>6. CASE Right
    BY <1>2, <2>6 DEF Right, MoveTo, AtText
  <2>7. CASE End
    BY <1>2, <2>7, ScanStops DEF End, MoveTo
  <2>8. CASE Delete
    <3>1. input_buffer[input_pos] # NUL => input_pos < BufSize - 1
      BY <1>2 DEF Cells
    <3> QED BY <1>2, <2>8, <3>1, RemovedFits DEF Delete
  <2>9. CASE Backspace
    <3>1. input_pos > 0 => input_pos - 1 \in Cells /\ input_pos - 1 < BufSize - 1
      BY <1>2 DEF Cells
    <3> QED BY <1>2, <2>9, <3>1, RemovedFits DEF Backspace, line
  <2>10. CASE Enter
    BY <2>10 DEF Enter
  <2>11. CASE EnterForGood
    BY <1>2, <2>11 DEF EnterForGood, Terminated, KbTypeOK, Cells
  <2>12. ASSUME NEW key \in Letters \cup Symbols, Character(key)
         PROVE  \A i \in 0 .. input_pos' - 1 : input_buffer'[i] # NUL
    <3>1. CASE input_pos < BufSize - 1
      <4>1. input_buffer' = Inserted(Ascii(key)) /\ input_pos' = input_pos + 1
        BY <2>12, <3>1 DEF Character
      <4>2. /\ input_buffer'[input_pos] # NUL
            /\ \A i \in 0 .. input_pos - 1 : input_buffer'[i] = input_buffer[i]
        BY <1>2, <3>1, <4>1, ChosenIsChar, InsertedFits
      <4> QED BY <1>2, <4>1, <4>2
    <3>2. CASE ~(input_pos < BufSize - 1)
      BY <1>2, <2>12, <3>2 DEF Character, line
    <3> QED BY <3>1, <3>2
  <2>13. UNCHANGED line \/ Up \/ Down \/ Left \/ Right \/ Home \/ End \/ Delete \/ Enter
         \/ EnterForGood \/ Backspace \/ \E key \in Letters \cup Symbols : Character(key)
    BY DEF HandleInterrupt, KeyHandled, PrefixE0, ExtendedOther, Shift, Release, CapsLock
  <2> QED
    BY <1>2, <2>1, <2>3, <2>4, <2>5, <2>6, <2>7, <2>8, <2>9, <2>10, <2>11, <2>12, <2>13 DEF line
<1>5. LineIsTerminated'
  BY <1>1, <1>4 DEF ScanSafe, LineIsTerminated
<1> QED
  BY <1>1, <1>3, <1>5 DEF KbInv

(* So it holds throughout.                                                  *)
LEMMA KbSpecInv == KbSpec => []KbInv
<1>1. KbInv /\ [KbNext]_kbvars => KbInv'
  <2>1. ASSUME KbInv, UNCHANGED kbvars PROVE KbInv'
    <3>1. UNCHANGED <<input_buffer, input_pos, history, history_index, saved_input,
                      extended, shift_pressed, caps_lock, overrun>>
      BY <2>1 DEF kbvars, line, recall, modifiers
    <3> QED BY <2>1, <3>1 DEF KbInv, ScanSafe, KbTypeOK, LineIsTerminated, HistoryIndexNamesEntry
  <2> QED BY <2>1, KbStepInv DEF KbNext, Stopped
<1> QED
  BY <1>1, KbInitInv, PTL DEF KbSpec

(* Every store of the handler lands in its array with a value of its type, *)
(* for every order of keys: the one store that does not, past a full line, *)
(* ends the behaviour with overrun set.                                    *)
THEOREM KbSpecTypeOK == KbSpec => []KbTypeOK
<1>1. KbInv => KbTypeOK
  BY DEF KbInv, ScanSafe
<1> QED
  BY <1>1, KbSpecInv, PTL

(* Every scan for NUL ends inside input_buffer, and no NUL hides left of   *)
(* the cursor, whatever keys were pressed before (keyboard.cpp:184-460).   *)
THEOREM KbSpecLineIsTerminated == KbSpec => []LineIsTerminated
<1>1. KbInv => LineIsTerminated
  BY DEF KbInv
<1> QED
  BY <1>1, KbSpecInv, PTL

(* Up and Down read only entries that were written, none of them empty and *)
(* none a repetition of the one before it.                                 *)
THEOREM KbSpecHistoryIndexNamesEntry == KbSpec => []HistoryIndexNamesEntry
<1>1. KbInv => HistoryIndexNamesEntry
  BY DEF KbInv
<1> QED
  BY <1>1, KbSpecInv, PTL

-----------------------------------------------------------------------------
(* The line a buffer shows *)

(* b holds l in front of cell p and r from there to the first NUL.         *)
Shows(b, p, l, r) ==
  /\ l \in Seq(Chars) /\ r \in Seq(Chars)
  /\ Len(l) = p /\ p + Len(r) \in Cells
  /\ \A i \in 1 .. Len(l) : b[i - 1] = l[i]
  /\ \A i \in 1 .. Len(r) : b[p + i - 1] = r[i]
  /\ b[p + Len(r)] = NUL

(* A buffer shows the text before the cursor and the text from it to the first NUL. *)
LEMMA ShowsSlices ==
  ASSUME NEW b \in [Cells -> Chars \cup {NUL}], NEW p \in Cells,
         b[BufSize - 1] = NUL, \A i \in 0 .. p - 1 : b[i] # NUL
  PROVE  /\ Shows(b, p, Slice(b, 0, p), Slice(b, p, Terminator(b, p)))
         /\ Slice(b, 0, p) \in Text /\ Slice(b, p, Terminator(b, p)) \in Text
<1> DEFINE t == Terminator(b, p)
<1>1. p \in Nat /\ 0 <= p /\ p <= BufSize - 1 /\ BufSize \in Nat
  BY BufferFacts
<1>2. /\ t \in p .. BufSize - 1 /\ b[t] = NUL
      /\ \A j \in p .. t - 1 : b[j] # NUL
  BY <1>1, BufferFacts, ScanStops
<1>3. t \in Cells /\ t \in Nat /\ p <= t
  BY <1>1, <1>2 DEF Cells
<1> HIDE DEF t
<1> DEFINE l == Slice(b, 0, p)
           r == Slice(b, p, t)
<1>4. /\ l \in Text /\ l \in Seq(Chars) /\ Len(l) = p
      /\ \A i \in 1 .. p : l[i] = b[i - 1]
  BY PrefixIsText
<1>5. /\ r \in Text /\ r \in Seq(Chars) /\ Len(r) = t - p
      /\ \A i \in 1 .. t - p : r[i] = b[p + i - 1]
  BY <1>1, <1>2, <1>3, SliceIsText
<1> HIDE DEF l, r
<1>6. p + Len(r) = t
  BY <1>1, <1>3, <1>5
<1>7. Shows(b, p, l, r)
  BY <1>2, <1>3, <1>4, <1>5, <1>6 DEF Shows
<1> QED
  BY <1>4, <1>5, <1>7 DEF l, r, t

(* A buffer shows one line only, and where its scan stops.                 *)
LEMMA ShowsOne ==
  ASSUME NEW b, NEW p \in Cells, NEW l, NEW r, Shows(b, p, l, r)
  PROVE  /\ Slice(b, 0, p) = l
         /\ Terminator(b, p) = p + Len(r)
         /\ Slice(b, p, Terminator(b, p)) = r
<1>1. /\ p \in Nat /\ Len(r) \in Nat /\ Len(l) = p /\ p <= p + Len(r)
      /\ l \in [1 .. p -> Chars] /\ r \in [1 .. Len(r) -> Chars]
  BY BufferFacts, LenProperties DEF Shows
<1> DEFINE t == p + Len(r)
<1>2. \A j \in p .. t - 1 : b[j] # NUL
  <2> SUFFICES ASSUME NEW j \in p .. t - 1 PROVE b[j] # NUL
    OBVIOUS
  <2>1. j - p + 1 \in 1 .. Len(r) /\ p + (j - p + 1) - 1 = j
    BY <1>1
  <2>2. b[j] = r[j - p + 1]
    BY <2>1 DEF Shows
  <2> QED BY <1>1, <2>1, <2>2, KeyboardAssumption
<1>3. Terminator(b, p) = t
  BY <1>1, <1>2, ScanStopsAt DEF Shows
<1>4. Slice(b, 0, p) = [i \in 1 .. p |-> l[i]]
  <2>1. \A i \in 1 .. p - 0 : b[0 + i - 1] = l[i]
    BY <1>1 DEF Shows
  <2>2. p - 0 = p
    BY <1>1
  <2> QED BY <2>1, <2>2 DEF Slice
<1>5. Slice(b, p, t) = [i \in 1 .. Len(r) |-> r[i]]
  <2>1. t - p = Len(r)
    BY <1>1
  <2> QED BY <2>1 DEF Slice, Shows
<1>6. l = [i \in 1 .. p |-> l[i]] /\ r = [i \in 1 .. Len(r) |-> r[i]]
  BY <1>1
<1> QED
  BY <1>3, <1>4, <1>5, <1>6

(* The lengths of the two parts, and the room they have.                    *)
LEMMA ShowsFacts ==
  ASSUME NEW b, NEW p \in Cells, NEW l, NEW r, Shows(b, p, l, r)
  PROVE  /\ l \in Seq(Chars) /\ r \in Seq(Chars)
         /\ p \in Nat /\ Len(l) = p /\ Len(r) \in Nat
         /\ BufSize \in Nat /\ p + Len(r) <= BufSize - 1
         /\ r # <<>> <=> Len(r) > 0
         /\ l # <<>> <=> p > 0
BY BufferFacts, LenProperties, EmptySeq DEF Shows

(* Two texts left of the same cursor with the same characters.             *)
LEMMA ShowsLeftPart ==
  ASSUME NEW b, NEW p \in Cells, NEW l, NEW r, Shows(b, p, l, r),
         NEW s \in Seq(Chars), Len(s) = p, \A i \in 1 .. p : b[i - 1] = s[i]
  PROVE  l = s
<1>1. l \in Seq(Chars) /\ Len(l) = p /\ \A i \in 1 .. p : b[i - 1] = l[i]
  BY ShowsFacts DEF Shows
<1>2. Len(l) = Len(s) /\ \A i \in 1 .. Len(l) : l[i] = s[i]
  BY <1>1
<1> QED
  BY <1>1, <1>2, SeqEqual

(* The cursor moves, the buffer stays. *)
LEMMA ShowsLeft ==
  ASSUME NEW b, NEW p \in Cells, NEW l, NEW r, Shows(b, p, l, r), p > 0
  PROVE  Shows(b, p - 1, SubSeq(l, 1, Len(l) - 1), <<l[Len(l)]>> \o r)
<1>1. /\ l \in Seq(Chars) /\ r \in Seq(Chars) /\ p \in Nat /\ Len(l) = p
      /\ Len(r) \in Nat /\ BufSize \in Nat /\ p + Len(r) <= BufSize - 1
  BY ShowsFacts
<1> DEFINE f == SubSeq(l, 1, Len(l) - 1)
           u == <<l[Len(l)]>>
<1>2. l[p] \in Chars
  BY <1>1, ElementOfSeq
<1>3. f \in Seq(Chars) /\ Len(f) = p - 1 /\ \A i \in 1 .. p - 1 : f[i] = l[i]
  <2>1. 1 \in Int /\ p - 1 \in Int /\ \A i \in 1 .. p - 1 : l[i] \in Chars
    BY <1>1, ElementOfSeq
  <2>2. /\ f \in Seq(Chars) /\ Len(f) = IF 1 <= p - 1 THEN p - 1 - 1 + 1 ELSE 0
        /\ \A i \in 1 .. p - 1 - 1 + 1 : f[i] = l[1 + i - 1]
    BY <1>1, <2>1, SubSeqProperties
  <2> QED BY <1>1, <2>2
<1>4. u \in Seq(Chars) /\ Len(u) = 1 /\ u[1] = l[p]
  BY <1>1, <1>2
<1> HIDE DEF u, f
<1>5. /\ u \o r \in Seq(Chars) /\ Len(u \o r) = 1 + Len(r)
      /\ \A i \in 1 .. 1 + Len(r) : (u \o r)[i] = IF i <= 1 THEN u[i] ELSE r[i - 1]
  <2>1. /\ u \o r \in Seq(Chars) /\ Len(u \o r) = Len(u) + Len(r)
        /\ \A i \in 1 .. Len(u) + Len(r) :
             (u \o r)[i] = IF i <= Len(u) THEN u[i] ELSE r[i - Len(u)]
    BY <1>1, <1>4, ConcatProperties
  <2> QED BY <1>4, <2>1
<1>6. ASSUME NEW i \in 1 .. 1 + Len(r) PROVE b[p - 1 + i - 1] = (u \o r)[i]
  <2>1. CASE i = 1
    BY <1>1, <1>4, <1>5, <2>1 DEF Shows
  <2>2. CASE i # 1
    <3>1. i - 1 \in 1 .. Len(r) /\ p + (i - 1) - 1 = p - 1 + i - 1 /\ ~(i <= 1)
      BY <1>1, <2>2
    <3> QED BY <1>5, <3>1 DEF Shows
  <2> QED BY <2>1, <2>2
<1>7. p - 1 + (1 + Len(r)) = p + Len(r)
  BY <1>1
<1>8. \A i \in 1 .. p - 1 : b[i - 1] = f[i]
  BY <1>1, <1>3 DEF Shows
<1> QED
  BY <1>1, <1>3, <1>5, <1>6, <1>7, <1>8 DEF Shows, u, f

(* Right moves a character from behind the cursor before it.                *)
LEMMA ShowsRight ==
  ASSUME NEW b, NEW p \in Cells, NEW l, NEW r, Shows(b, p, l, r), r # <<>>
  PROVE  p + 1 \in Cells /\ Shows(b, p + 1, Append(l, Head(r)), Tail(r))
<1>1. /\ l \in Seq(Chars) /\ r \in Seq(Chars) /\ p \in Nat /\ Len(l) = p
      /\ Len(r) \in Nat /\ Len(r) > 0 /\ BufSize \in Nat /\ p + Len(r) <= BufSize - 1
  BY ShowsFacts
<1> DEFINE a == Append(l, Head(r))
           t == Tail(r)
<1>2. /\ t \in Seq(Chars) /\ Len(t) = Len(r) - 1 /\ Head(r) \in Chars
      /\ \A i \in 1 .. Len(r) - 1 : t[i] = r[i + 1]
  BY <1>1, HeadTailProperties
<1>3. /\ a \in Seq(Chars) /\ Len(a) = p + 1 /\ a[p + 1] = Head(r)
      /\ \A i \in 1 .. p : a[i] = l[i]
  BY <1>1, <1>2, AppendProperties
<1>4. Head(r) = r[1]
  BY <1>1
<1> HIDE DEF a, t
<1>5. ASSUME NEW i \in 1 .. p + 1 PROVE b[i - 1] = a[i]
  <2>1. CASE i = p + 1
    <3>1. b[p + 1 - 1] = r[1]
      BY <1>1 DEF Shows
    <3> QED BY <1>1, <1>3, <1>4, <2>1, <3>1
  <2>2. CASE i # p + 1
    BY <1>1, <1>3, <2>2 DEF Shows
  <2> QED BY <2>1, <2>2
<1>6. ASSUME NEW i \in 1 .. Len(r) - 1 PROVE b[p + 1 + i - 1] = t[i]
  <2>1. i + 1 \in 1 .. Len(r) /\ p + (i + 1) - 1 = p + 1 + i - 1
    BY <1>1
  <2> QED BY <1>2, <2>1 DEF Shows
<1>7. p + 1 + (Len(r) - 1) = p + Len(r) /\ p + 1 \in Cells
  BY <1>1 DEF Cells
<1> QED
  BY <1>2, <1>3, <1>5, <1>6, <1>7 DEF Shows, a, t

(* Home and End move them all.                                              *)
LEMMA ShowsHomeAndEnd ==
  ASSUME NEW b, NEW p \in Cells, NEW l, NEW r, Shows(b, p, l, r)
  PROVE  Shows(b, 0, <<>>, l \o r) /\ Shows(b, p + Len(r), l \o r, <<>>)
<1>1. /\ l \in Seq(Chars) /\ r \in Seq(Chars) /\ p \in Nat /\ Len(l) = p
      /\ Len(r) \in Nat /\ BufSize \in Nat /\ p + Len(r) <= BufSize - 1
  BY ShowsFacts
<1> DEFINE w == l \o r
<1>2. /\ w \in Seq(Chars) /\ Len(w) = p + Len(r)
      /\ \A i \in 1 .. p + Len(r) : w[i] = IF i <= p THEN l[i] ELSE r[i - p]
  BY <1>1, ConcatProperties
<1> HIDE DEF w
<1>3. <<>> \in Seq(Chars) /\ Len(<<>>) = 0 /\ 1 .. 0 = {}
  BY EmptySeq
<1>4. ASSUME NEW i \in 1 .. p + Len(r) PROVE b[i - 1] = w[i]
  <2>1. CASE i <= p
    BY <1>1, <1>2, <2>1 DEF Shows
  <2>2. CASE ~(i <= p)
    <3>1. i - p \in 1 .. Len(r) /\ p + (i - p) - 1 = i - 1
      BY <1>1, <2>2
    <3> QED BY <1>2, <2>2, <3>1 DEF Shows
  <2> QED BY <2>1, <2>2
<1>5. p + Len(r) + 0 = p + Len(r) /\ 0 + (p + Len(r)) = p + Len(r)
      /\ \A i \in 1 .. p + Len(r) : 0 + i - 1 = i - 1
  BY <1>1
<1>6. Shows(b, 0, <<>>, w)
  BY <1>2, <1>3, <1>4, <1>5 DEF Shows
<1>7. Shows(b, p + Len(r), w, <<>>)
  BY <1>2, <1>3, <1>4, <1>5 DEF Shows
<1> QED
  BY <1>6, <1>7 DEF w

(* The buffer changes, the text on one side of the cursor with it.         *)
LEMMA ShowsDelete ==
  ASSUME NEW b, NEW p \in Cells, NEW l, NEW r, Shows(b, p, l, r), r # <<>>, NEW c,
         \A i \in 0 .. p - 1 : c[i] = b[i],
         \A i \in p .. p + Len(r) - 1 : c[i] = b[i + 1]
  PROVE  Shows(c, p, l, Tail(r))
<1>1. /\ l \in Seq(Chars) /\ r \in Seq(Chars) /\ p \in Nat /\ Len(l) = p
      /\ Len(r) \in Nat /\ Len(r) > 0 /\ BufSize \in Nat /\ p + Len(r) <= BufSize - 1
  BY ShowsFacts
<1> DEFINE t == Tail(r)
<1>2. /\ t \in Seq(Chars) /\ Len(t) = Len(r) - 1
      /\ \A i \in 1 .. Len(r) - 1 : t[i] = r[i + 1]
  BY <1>1, HeadTailProperties
<1> HIDE DEF t
<1>3. ASSUME NEW i \in 1 .. p PROVE c[i - 1] = l[i]
  <2>1. i - 1 \in 0 .. p - 1
    BY <1>1
  <2> QED BY <1>1, <2>1 DEF Shows
<1>4. ASSUME NEW i \in 1 .. Len(r) - 1 PROVE c[p + i - 1] = t[i]
  <2>1. p + i - 1 \in p .. p + Len(r) - 1 /\ p + i - 1 + 1 = p + (i + 1) - 1
        /\ i + 1 \in 1 .. Len(r)
    BY <1>1
  <2>2. c[p + i - 1] = b[p + (i + 1) - 1]
    BY <2>1
  <2>3. b[p + (i + 1) - 1] = r[i + 1]
    BY <2>1 DEF Shows
  <2> QED BY <1>2, <2>2, <2>3
<1>5. c[p + (Len(r) - 1)] = NUL
  <2>1. p + (Len(r) - 1) \in p .. p + Len(r) - 1 /\ p + (Len(r) - 1) + 1 = p + Len(r)
    BY <1>1
  <2> QED BY <2>1 DEF Shows
<1>6. p + (Len(r) - 1) \in Cells
  BY <1>1 DEF Cells
<1> QED
  BY <1>1, <1>2, <1>3, <1>4, <1>5, <1>6 DEF Shows, t

(* Moving the text behind the cursor one cell down erases a character.      *)
LEMMA ShowsBackspace ==
  ASSUME NEW b, NEW p \in Cells, NEW l, NEW r, Shows(b, p, l, r), p > 0, NEW c,
         \A i \in 0 .. p - 2 : c[i] = b[i],
         \A i \in p - 1 .. p + Len(r) - 1 : c[i] = b[i + 1]
  PROVE  Shows(c, p - 1, SubSeq(l, 1, Len(l) - 1), r)
<1>1. /\ l \in Seq(Chars) /\ r \in Seq(Chars) /\ p \in Nat /\ Len(l) = p
      /\ Len(r) \in Nat /\ BufSize \in Nat /\ p + Len(r) <= BufSize - 1
  BY ShowsFacts
<1> DEFINE f == SubSeq(l, 1, Len(l) - 1)
<1>2. f \in Seq(Chars) /\ Len(f) = p - 1 /\ \A i \in 1 .. p - 1 : f[i] = l[i]
  <2>1. 1 \in Int /\ p - 1 \in Int /\ \A i \in 1 .. p - 1 : l[i] \in Chars
    BY <1>1, ElementOfSeq
  <2>2. /\ f \in Seq(Chars) /\ Len(f) = IF 1 <= p - 1 THEN p - 1 - 1 + 1 ELSE 0
        /\ \A i \in 1 .. p - 1 - 1 + 1 : f[i] = l[1 + i - 1]
    BY <1>1, <2>1, SubSeqProperties
  <2> QED BY <1>1, <2>2
<1> HIDE DEF f
<1>3. ASSUME NEW i \in 1 .. p - 1 PROVE c[i - 1] = f[i]
  <2>1. i - 1 \in 0 .. p - 2 /\ i \in 1 .. p
    BY <1>1
  <2> QED BY <1>1, <1>2, <2>1 DEF Shows
<1>4. ASSUME NEW i \in 1 .. Len(r) PROVE c[p - 1 + i - 1] = r[i]
  <2> DEFINE j == p - 1 + i - 1
  <2>1. j \in p - 1 .. p + Len(r) - 1 /\ j + 1 = p + i - 1
    BY <1>1
  <2> HIDE DEF j
  <2>2. c[j] = b[j + 1]
    BY <2>1
  <2>3. b[p + i - 1] = r[i]
    BY DEF Shows
  <2> QED BY <2>1, <2>2, <2>3 DEF j
<1>5. c[p - 1 + Len(r)] = NUL
  <2> DEFINE j == p - 1 + Len(r)
  <2>1. j \in p - 1 .. p + Len(r) - 1 /\ j + 1 = p + Len(r)
    BY <1>1
  <2> HIDE DEF j
  <2>2. c[j] = b[j + 1]
    BY <2>1
  <2>3. b[p + Len(r)] = NUL
    BY DEF Shows
  <2> QED BY <2>1, <2>2, <2>3 DEF j
<1>6. p - 1 + Len(r) \in Cells
  BY <1>1 DEF Cells
<1> QED
  BY <1>1, <1>2, <1>3, <1>4, <1>5, <1>6 DEF Shows, f

(* Moving it one cell up and storing a character inserts it.                *)
LEMMA ShowsType ==
  ASSUME NEW b, NEW p \in Cells, NEW l, NEW r, Shows(b, p, l, r), p + Len(r) < BufSize - 1,
         NEW x \in Chars, NEW c, \A i \in 0 .. p - 1 : c[i] = b[i], c[p] = x
  PROVE  /\ Append(l, x) \in Seq(Chars) /\ Len(Append(l, x)) = p + 1
         /\ \A i \in 1 .. p + 1 : c[i - 1] = Append(l, x)[i]
         /\ (\A i \in p + 1 .. p + Len(r) + 1 : c[i] = b[i - 1])
               => Shows(c, p + 1, Append(l, x), r)
<1>1. /\ l \in Seq(Chars) /\ r \in Seq(Chars) /\ p \in Nat /\ Len(l) = p
      /\ Len(r) \in Nat /\ BufSize \in Nat
  BY ShowsFacts
<1> DEFINE a == Append(l, x)
<1>2. /\ a \in Seq(Chars) /\ Len(a) = p + 1 /\ a[p + 1] = x
      /\ \A i \in 1 .. p : a[i] = l[i]
  BY <1>1, AppendProperties
<1> HIDE DEF a
<1>3. ASSUME NEW i \in 1 .. p + 1 PROVE c[i - 1] = a[i]
  <2>1. CASE i = p + 1
    <3>1. i - 1 = p
      BY <1>1, <2>1
    <3> QED BY <1>2, <2>1, <3>1
  <2>2. CASE i # p + 1
    <3>1. i - 1 \in 0 .. p - 1 /\ i \in 1 .. p
      BY <1>1, <2>2
    <3> QED BY <1>1, <1>2, <3>1 DEF Shows
  <2> QED BY <2>1, <2>2
<1>4. ASSUME \A i \in p + 1 .. p + Len(r) + 1 : c[i] = b[i - 1]
      PROVE  Shows(c, p + 1, a, r)
  <2>0. \A j \in p + 1 .. p + Len(r) + 1 : c[j] = b[j - 1]
    BY <1>4
  <2>1. ASSUME NEW i \in 1 .. Len(r) PROVE c[p + 1 + i - 1] = r[i]
    <3> DEFINE j == p + 1 + i - 1
    <3>1. j \in p + 1 .. p + Len(r) + 1 /\ j - 1 = p + i - 1
      BY <1>1
    <3> HIDE DEF j
    <3>2. c[j] = b[j - 1]
      BY <2>0, <3>1
    <3>3. b[p + i - 1] = r[i]
      BY DEF Shows
    <3> QED BY <3>1, <3>2, <3>3 DEF j
  <2>2. c[p + 1 + Len(r)] = NUL
    <3> DEFINE j == p + 1 + Len(r)
    <3>1. j \in p + 1 .. p + Len(r) + 1 /\ j - 1 = p + Len(r)
      BY <1>1
    <3> HIDE DEF j
    <3>2. c[j] = b[j - 1]
      BY <2>0, <3>1
    <3>3. b[p + Len(r)] = NUL
      BY DEF Shows
    <3> QED BY <3>1, <3>2, <3>3 DEF j
  <2>3. p + 1 + Len(r) \in Cells
    BY <1>1 DEF Cells
  <2> QED BY <1>1, <1>2, <1>3, <2>1, <2>2, <2>3 DEF Shows
<1> QED
  BY <1>2, <1>3, <1>4 DEF a

(* A NUL at the cursor ends the line there.                                 *)
LEMMA ShowsEnter ==
  ASSUME NEW b, NEW p \in Cells, NEW l, NEW r, Shows(b, p, l, r), NEW c,
         \A i \in 0 .. p - 1 : c[i] = b[i], c[p] = NUL
  PROVE  Shows(c, 0, <<>>, l) /\ Shows(c, p, l, <<>>)
<1>1. /\ l \in Seq(Chars) /\ p \in Nat /\ Len(l) = p /\ p \in Cells
  BY ShowsFacts
<1>2. <<>> \in Seq(Chars) /\ Len(<<>>) = 0 /\ 1 .. 0 = {}
  BY EmptySeq
<1>3. ASSUME NEW i \in 1 .. p PROVE c[i - 1] = l[i]
  <2>1. i - 1 \in 0 .. p - 1
    BY <1>1
  <2> QED BY <1>1, <2>1 DEF Shows
<1>4. p + 0 = p /\ 0 + p = p /\ \A i \in 1 .. p : 0 + i - 1 = i - 1
  BY <1>1
<1>5. Shows(c, 0, <<>>, l)
  BY <1>1, <1>2, <1>3, <1>4 DEF Shows
<1>6. Shows(c, p, l, <<>>)
  BY <1>1, <1>2, <1>3, <1>4 DEF Shows
<1> QED
  BY <1>5, <1>6

-----------------------------------------------------------------------------
(* The refinement: every key is the edit of LineEditor with its name, or   *)
(* none at all.                                                            *)

Unchanged == UNCHANGED <<TextLeft, TextRight, history, saved_input, overrun>>

(* The empty line is the editor's first state.                              *)
LEMMA EditorInit == KbInit => Editor!Init
<1> SUFFICES ASSUME KbInit PROVE Editor!Init
  OBVIOUS
<1>1. input_buffer \in [Cells -> Chars \cup {NUL}] /\ input_pos \in Cells /\ input_pos = 0
  BY BufferFacts DEF KbInit
<1>2. Shows(input_buffer, input_pos, <<>>, <<>>)
  <2>1. <<>> \in Seq(Chars) /\ Len(<<>>) = 0 /\ 1 .. 0 = {} /\ 0 + 0 = 0
    BY EmptySeq
  <2> QED BY <1>1, <2>1, BufferFacts DEF Shows, KbInit
<1>3. Slice(input_buffer, 0, input_pos) = <<>>
      /\ Slice(input_buffer, input_pos, Terminator(input_buffer, input_pos)) = <<>>
  BY <1>1, <1>2, ShowsOne
<1> QED
  BY <1>3 DEF KbInit, Editor!Init, TextLeft, TextRight

(* Every scan code is one step of the editor, or none.                      *)
LEMMA EditorStep ==
  ASSUME KbInv, HandleInterrupt
  PROVE  Editor!Next \/ Unchanged
<1> DEFINE l == TextLeft
           r == TextRight
           b == input_buffer
           p == input_pos
<1>1. /\ KbTypeOK /\ ~overrun /\ b[BufSize - 1] = NUL
      /\ \A i \in 0 .. p - 1 : b[i] # NUL
      /\ b \in [Cells -> Chars \cup {NUL}] /\ p \in Cells /\ p \in Nat /\ p <= BufSize - 1
  BY BufferFacts DEF KbInv, ScanSafe, LineIsTerminated, HandleInterrupt, KeyHandled, KbTypeOK
<1>2. /\ Shows(b, p, l, r) /\ l \in Text /\ r \in Text
      /\ l = Slice(b, 0, p)
  BY <1>1, ShowsSlices DEF TextLeft, TextRight
<1>3. Terminator(b, p) = p + Len(r)
  BY <1>1, <1>2, ShowsOne
<1>4. /\ l \in Seq(Chars) /\ r \in Seq(Chars) /\ Len(l) = p /\ Len(r) \in Nat
      /\ BufSize \in Nat /\ p + Len(r) <= BufSize - 1
      /\ r # <<>> <=> Len(r) > 0
      /\ l # <<>> <=> p > 0
  BY <1>1, <1>2, ShowsFacts
<1>5. r # <<>> <=> b[p] # NUL
  <2>1. r = <<>> => p + Len(r) = p
    BY <1>1, <1>4
  <2>2. r # <<>> => 1 \in 1 .. Len(r) /\ p + 1 - 1 = p /\ r[1] \in Chars
    BY <1>1, <1>4, ElementOfSeq
  <2> QED BY <1>2, <2>1, <2>2, KeyboardAssumption DEF Shows
<1>6. ScanSafe' /\ KbInv'
  BY KbStepInv DEF KbInv
<1>7. ASSUME ~overrun'
      PROVE  /\ b' \in [Cells -> Chars \cup {NUL}] /\ p' \in Cells
             /\ Shows(b', p', l', r') /\ l' \in Text /\ r' \in Text
  <2>1. /\ b' \in [Cells -> Chars \cup {NUL}] /\ p' \in Cells /\ b'[BufSize - 1] = NUL
        /\ \A i \in 0 .. p' - 1 : b'[i] # NUL
    BY <1>6, <1>7 DEF KbInv, ScanSafe, KbTypeOK, LineIsTerminated
  <2> QED BY <1>7, <2>1, ShowsSlices DEF TextLeft, TextRight
<1>8. ASSUME NEW s, NEW t, ~overrun', p' \in Cells, Shows(b', p', s, t)
      PROVE  l' = s /\ r' = t
  BY <1>8, ShowsOne DEF TextLeft, TextRight
<1>9. ASSUME UNCHANGED <<line, history, saved_input, overrun>> PROVE Unchanged
  BY <1>9 DEF Unchanged, TextLeft, TextRight, line
<1> HIDE DEF l, r
<1>10. CASE PrefixE0 \/ ExtendedOther \/ Shift \/ Release("shift") \/ Release("other") \/ CapsLock
  BY <1>9, <1>10 DEF PrefixE0, ExtendedOther, Shift, Release, CapsLock, recall
<1>11. ASSUME NEW cmd \in Text, ReplaceLine(cmd), cmd \in Editor!ToSet(history) \cup {saved_input},
              saved_input' \in {saved_input, l}, UNCHANGED <<history, overrun>>
       PROVE  Editor!Next
  <2>1. ~overrun' /\ b' = Overlaid(cmd) /\ p' = Len(cmd)
    BY <1>1, <1>11 DEF ReplaceLine
  <2>2. cmd \in Seq(Chars) /\ Len(cmd) \in Nat
    BY TextLen, LenProperties
  <2>3. ASSUME NEW i \in 1 .. p' PROVE b'[i - 1] = cmd[i]
    <3>1. i - 1 \in 0 .. Len(cmd) - 1 /\ i - 1 + 1 = i
      BY <2>1, <2>2
    <3>2. Overlaid(cmd)[i - 1] = cmd[i - 1 + 1]
      BY <1>1, <3>1, OverlaidFits
    <3> QED BY <2>1, <3>1, <3>2
  <2>4. l' = cmd
    BY <1>7, <2>1, <2>2, <2>3, ShowsLeftPart
  <2> QED BY <1>1, <1>7, <1>11, <2>1, <2>4 DEF Editor!Next, Editor!Recall, Editor!Text, Text, l, r
<1>12. ASSUME NEW i \in 1 .. Len(history)
       PROVE  history[i] \in Text /\ history[i] \in Editor!ToSet(history)
  BY <1>1, <1>12, ElementOfSeq, LenProperties DEF KbTypeOK, Editor!ToSet
<1>13. CASE Up
  <2>1. CASE history = <<>>
    BY <1>9, <1>13, <2>1 DEF Up, Extended, recall
  <2>2. CASE history # <<>>
    <3>1. history_index \in -1 .. Len(history) - 1 /\ Len(history) \in Nat /\ Len(history) > 0
      BY <2>2, LenProperties, EmptySeq DEF KbInv, ScanSafe, KbTypeOK
    <3>2. history_index' \in 0 .. Len(history) - 1
      BY <1>13, <2>2, <3>1 DEF Up
    <3>3. history_index' + 1 \in 1 .. Len(history)
      <4>1. \A n \in Nat : \A i \in 0 .. n - 1 : i + 1 \in 1 .. n
        OBVIOUS
      <4> QED BY <3>1, <3>2, <4>1
    <3>4. saved_input' \in {saved_input, l}
      BY <1>1, <1>2, <1>13, <2>2, TerminatedAtCursor DEF Up
    <3>5. ReplaceLine(history[history_index' + 1]) /\ UNCHANGED <<history, overrun>>
      BY <1>13, <2>2 DEF Up, Extended
    <3> QED BY <1>11, <1>12, <3>3, <3>4, <3>5
  <2> QED BY <2>1, <2>2
<1>14. CASE Down
  <2>1. /\ history_index \in -1 .. Len(history) - 1 /\ Len(history) \in Nat
        /\ saved_input \in Text
    BY LenProperties DEF KbInv, ScanSafe, KbTypeOK
  <2>2. CASE history_index = -1
    BY <1>9, <1>14, <2>2 DEF Down, Extended
  <2>3. CASE history_index # -1 /\ HasNewer
    <3>1. history_index' + 1 \in 1 .. Len(history)
      BY <1>14, <2>1, <2>3 DEF Down, HasNewer
    <3>2. /\ ReplaceLine(history[history_index' + 1])
          /\ UNCHANGED <<history, saved_input, overrun>>
      BY <1>14, <2>3 DEF Down, Extended
    <3> QED BY <1>11, <1>12, <3>1, <3>2
  <2>4. CASE history_index # -1 /\ ~HasNewer
    <3>1. ReplaceLine(saved_input) /\ UNCHANGED <<history, saved_input, overrun>>
      BY <1>14, <2>4 DEF Down, Extended
    <3> QED BY <1>11, <2>1, <3>1
  <2> QED BY <2>2, <2>3, <2>4
<1>15. CASE Left
  <2>1. UNCHANGED <<b, history, saved_input, overrun>>
    BY <1>15 DEF Left, Extended, MoveTo, recall
  <2>2. CASE p > 0
    <3>1. p' = p - 1 /\ p' \in Cells
      BY <1>1, <1>6, <1>15, <2>2 DEF Left, MoveTo, ScanSafe, KbTypeOK
    <3>2. l' = SubSeq(l, 1, Len(l) - 1) /\ r' = <<l[Len(l)]>> \o r
      BY <1>1, <1>2, <1>8, <2>1, <2>2, <3>1, ShowsLeft
    <3> QED BY <1>1, <1>4, <2>1, <2>2, <3>2
            DEF Editor!Next, Editor!Left, Editor!Edit, Editor!Front, Editor!Last, l, r
  <2>3. CASE ~(p > 0)
    <3>1. p' = p
      BY <1>1, <1>15, <2>3 DEF Left, MoveTo
    <3> QED BY <1>9, <2>1, <3>1 DEF line
  <2> QED BY <2>2, <2>3
<1>16. CASE Right
  <2>1. UNCHANGED <<b, history, saved_input, overrun>>
    BY <1>16 DEF Right, Extended, MoveTo, recall
  <2>2. AtText <=> r # <<>>
    BY <1>1, <1>4, <1>5 DEF AtText
  <2>3. CASE r # <<>>
    <3>1. p' = p + 1 /\ p' \in Cells
      BY <1>6, <1>16, <2>2, <2>3 DEF Right, MoveTo, ScanSafe, KbTypeOK
    <3>2. l' = Append(l, Head(r)) /\ r' = Tail(r)
      BY <1>1, <1>2, <1>8, <2>1, <2>3, <3>1, ShowsRight
    <3> QED BY <1>1, <2>1, <2>3, <3>2 DEF Editor!Next, Editor!Right, Editor!Edit, l, r
  <2>4. CASE r = <<>>
    <3>1. p' = p
      BY <1>16, <2>2, <2>4 DEF Right, MoveTo
    <3> QED BY <1>9, <2>1, <3>1 DEF line
  <2> QED BY <2>3, <2>4
<1>17. CASE Home
  <2>1. UNCHANGED <<b, history, saved_input, overrun>> /\ p' = 0 /\ 0 \in Cells
    BY <1>17, BufferFacts DEF Home, Extended, MoveTo, recall
  <2>2. l' = <<>> /\ r' = l \o r
    BY <1>1, <1>2, <1>8, <2>1, ShowsHomeAndEnd
  <2> QED BY <1>1, <2>1, <2>2 DEF Editor!Next, Editor!Home, Editor!Edit, l, r
<1>18. CASE End
  <2>1. UNCHANGED <<b, history, saved_input, overrun>> /\ p' = p + Len(r) /\ p' \in Cells
    BY <1>3, <1>6, <1>18 DEF End, Extended, MoveTo, recall, ScanSafe, KbTypeOK
  <2>2. l' = l \o r /\ r' = <<>>
    BY <1>1, <1>2, <1>8, <2>1, ShowsHomeAndEnd
  <2> QED BY <1>1, <2>1, <2>2 DEF Editor!Next, Editor!End, Editor!Edit, l, r
<1>19. CASE Delete
  <2>1. UNCHANGED <<p, history, saved_input, overrun>>
    BY <1>19 DEF Delete, Extended, recall
  <2>2. CASE r # <<>>
    <3>1. p + 1 \in Cells /\ p + 1 <= p + Len(r) /\ p + Len(r) \in Cells /\ p < BufSize - 1
      BY <1>1, <1>4, <2>2 DEF Cells
    <3>2. Terminator(b, p + 1) = p + Len(r)
      BY <1>3, <3>1, ScanPasses, <1>1, <1>5, <2>2
    <3>3. b' = Removed(p)
      BY <1>5, <1>19, <2>2 DEF Delete
    <3>4. \A i \in 0 .. p - 1 : b'[i] = b[i]
      BY <1>1, <3>1, <3>3, RemovedFits
    <3>5. \A i \in p .. p + Len(r) - 1 : b'[i] = b[i + 1]
      <4>1. \A i \in p .. p + Len(r) - 1 : i \in Cells /\ p <= i /\ i < p + Len(r)
        BY <1>1, <1>4 DEF Cells
      <4> QED BY <3>2, <3>3, <4>1 DEF Removed
    <3>6. l' = l /\ r' = Tail(r)
      <4>1. Shows(b', p, l, Tail(r))
        BY <1>1, <1>2, <2>2, <3>4, <3>5, ShowsDelete
      <4> QED BY <1>1, <1>8, <2>1, <4>1
    <3> QED BY <1>1, <2>1, <2>2, <3>6 DEF Editor!Next, Editor!Delete, Editor!Edit, l, r
  <2>3. CASE r = <<>>
    <3>1. b' = b
      BY <1>5, <1>19, <2>3 DEF Delete
    <3> QED BY <1>9, <2>1, <3>1 DEF line
  <2> QED BY <2>2, <2>3
<1>20. CASE Enter
  <2>1. b' = Terminated /\ p' = 0 /\ 0 \in Cells /\ UNCHANGED <<saved_input, overrun>>
    BY <1>20, BufferFacts DEF Enter
  <2>2. b'[p] = NUL /\ \A i \in 0 .. p - 1 : b'[i] = b[i]
    BY <1>1, <2>1 DEF Terminated, Cells
  <2>3. l' = <<>> /\ r' = l
    BY <1>1, <1>2, <1>8, <2>1, <2>2, ShowsEnter
  <2>4. Str(Terminated) = l
    BY <1>1, <1>2, TerminatedAtCursor
  <2>5. history' = Editor!Remember(l)
    BY <1>4, <1>20, <2>4 DEF Enter, Remembered, Editor!Remember, Editor!Last
  <2> QED BY <1>1, <2>1, <2>3, <2>5 DEF Editor!Next, Editor!Enter, l, r
<1>21. CASE EnterForGood
  <2>1. b' = Terminated /\ p' = p /\ p > 0 /\ UNCHANGED <<history, saved_input, overrun>>
    BY <1>21 DEF EnterForGood, recall
  <2>2. b'[p] = NUL /\ \A i \in 0 .. p - 1 : b'[i] = b[i]
    BY <1>1, <2>1 DEF Terminated, Cells
  <2>3. l' = l /\ r' = <<>>
    BY <1>1, <1>2, <1>8, <2>1, <2>2, ShowsEnter
  <2> QED BY <1>1, <1>4, <2>1, <2>3 DEF Editor!Next, Editor!EnterForGood, Editor!Edit, l, r
<1>22. CASE Backspace
  <2>1. UNCHANGED <<history, saved_input, overrun>>
    BY <1>22 DEF Backspace, recall
  <2>2. CASE p > 0
    <3>1. p - 1 \in Cells /\ p - 1 < BufSize - 1 /\ p - 1 + 1 = p
      BY <1>1, <1>4, <2>2 DEF Cells
    <3>5. b' = Removed(p - 1) /\ p' = p - 1
      BY <1>22, <2>2 DEF Backspace
    <3>2. \A i \in 0 .. p - 2 : b'[i] = b[i]
      <4>1. \A i \in 0 .. p - 2 : i \in 0 .. p - 1 - 1
        BY <1>1
      <4> QED BY <1>1, <3>5, <3>1, <4>1, RemovedFits
    <3>3. \A i \in p - 1 .. p + Len(r) - 1 : b'[i] = b[i + 1]
      <4>1. \A i \in p - 1 .. p + Len(r) - 1 : i \in Cells /\ p - 1 <= i /\ i < p + Len(r)
        BY <1>1, <1>4, <2>2 DEF Cells
      <4> QED BY <1>3, <3>5, <3>1, <4>1 DEF Removed
    <3>4. l' = SubSeq(l, 1, Len(l) - 1) /\ r' = r
      <4>1. Shows(b', p - 1, SubSeq(l, 1, Len(l) - 1), r)
        BY <1>1, <1>2, <2>2, <3>2, <3>3, ShowsBackspace
      <4> QED BY <1>1, <1>8, <2>1, <3>5, <3>1, <4>1
    <3> QED BY <1>1, <1>4, <2>1, <2>2, <3>4
            DEF Editor!Next, Editor!Backspace, Editor!Edit, Editor!Front, l, r
  <2>3. CASE ~(p > 0)
    BY <1>9, <1>22, <2>1, <2>3 DEF Backspace
  <2> QED BY <2>2, <2>3
<1>23. ASSUME NEW key \in Letters \cup Symbols, Character(key) PROVE Editor!Next \/ Unchanged
  <2>1. UNCHANGED <<history, saved_input>>
    BY <1>23 DEF Character, recall
  <2>2. CASE ~(p < BufSize - 1)
    BY <1>9, <1>23, <2>1, <2>2 DEF Character, line
  <2>3. CASE p < BufSize - 1 /\ p + Len(r) = BufSize - 1
    <3>1. overrun' = TRUE
      BY <1>3, <1>23, <2>3 DEF Character
    <3>2. l' = <<>> /\ r' = <<>>
      BY <3>1 DEF l, r, TextLeft, TextRight
    <3> QED BY <1>1, <1>4, <2>1, <2>3, <3>1, <3>2
            DEF Editor!Next, Editor!Break, Editor!Full, l, r
  <2>4. CASE p < BufSize - 1 /\ p + Len(r) # BufSize - 1
    <3> DEFINE c == Ascii(key)
               w == Append(l, c)
    <3>1. c \in Chars
      BY ChosenIsChar
    <3> HIDE DEF c
    <3>2. b' = Inserted(c) /\ p' = p + 1 /\ p + 1 \in Cells /\ ~overrun'
      <4>1. p + 1 \in Cells
        BY <1>1, <1>4, <2>4 DEF Cells
      <4>2. b' = Inserted(c) /\ p' = p + 1 /\ overrun' = (Terminator(b, p) = BufSize - 1)
        BY <1>23, <2>4 DEF Character, c
      <4> QED BY <1>3, <2>4, <4>1, <4>2
    <3>3. b'[p] = c /\ \A i \in 0 .. p - 1 : b'[i] = b[i]
      BY <1>1, <2>4, <3>1, <3>2, InsertedFits
    <3>4. p + Len(r) < BufSize - 1
      BY <1>4, <2>4
    <3>5. /\ w \in Seq(Chars) /\ Len(w) = p + 1
          /\ \A i \in 1 .. p + 1 : b'[i - 1] = w[i]
          /\ (\A i \in p + 1 .. p + Len(r) + 1 : b'[i] = b[i - 1]) => Shows(b', p + 1, w, r)
      BY <1>1, <1>2, <3>1, <3>3, <3>4, ShowsType
    <3> HIDE DEF w
    <3>6. r' \in IF r = <<>> THEN Text ELSE {r}
      <4>1. CASE r # <<>>
        <5>1. \A i \in p + 1 .. p + Len(r) + 1 :
                i \in Cells /\ i # p /\ p < i /\ i <= p + Len(r) + 1
          BY <1>1, <1>4, <3>4 DEF Cells
        <5>2. p + Len(r) > p
          BY <1>1, <1>4, <4>1
        <5>3. \A i \in p + 1 .. p + Len(r) + 1 : b'[i] = b[i - 1]
          BY <1>3, <3>2, <5>1, <5>2 DEF Inserted
        <5> QED BY <1>8, <3>2, <3>5, <4>1, <5>3
      <4> QED BY <1>7, <3>2, <4>1
    <3>7. l' = w
      BY <1>7, <3>2, <3>5, ShowsLeftPart
    <3>8. ~Editor!Full
      BY <1>4, <3>4 DEF Editor!Full, l, r
    <3>9. Editor!Type(c)
      <4>1. overrun' = overrun
        BY <1>1, <1>6, <3>2 DEF ScanSafe, KbTypeOK
      <4>2. Text = Editor!Text
        BY DEF Text, Editor!Text
      <4> QED BY <2>1, <3>6, <3>7, <3>8, <4>1, <4>2 DEF Editor!Type, w, l, r
    <3> QED BY <1>1, <3>1, <3>9 DEF Editor!Next
  <2> QED BY <2>2, <2>3, <2>4
<1> QED
  BY <1>10, <1>13, <1>14, <1>15, <1>16, <1>17, <1>18, <1>19, <1>20, <1>21, <1>22, <1>23
     DEF HandleInterrupt, KeyHandled

(* The editor over a zero-terminated array, with stale text behind the     *)
(* cursor and a history, is the cursor in a line of LineEditor: keyboard   *)
(* handler by handler, whatever the sizes and the keys.                    *)
THEOREM KbImplementsLineEditor == KbSpec => ImplementsLineEditor
<1>1. KbInv /\ [KbNext]_kbvars =>
        [Editor!Next]_<<TextLeft, TextRight, history, saved_input, overrun>>
  <2>1. UNCHANGED kbvars => Unchanged
    BY DEF kbvars, line, recall, Unchanged, TextLeft, TextRight
  <2> QED BY <2>1, EditorStep DEF KbNext, Stopped, Unchanged
<1> QED
  BY <1>1, EditorInit, KbSpecInv, PTL DEF KbSpec, ImplementsLineEditor, Editor!Spec

-----------------------------------------------------------------------------
(* One line, two editors.  Between the loop's load of input_pos and its    *)
(* stores the keyboard may do anything, so the invariant speaks of the     *)
(* loop's registers and of the buffer, never of both; what the keyboard    *)
(* keeps on its own, no NUL left of the cursor, is not part of it.         *)

(* What the loop holds in registers: a position it may store through, and  *)
(* one above zero where it is about to step back.                          *)
LoopInv ==
  /\ at \in {"poll", "terminate", "process", "finish", "erase", "store"}
  /\ reg \in Cells /\ char \in Chars \cup {NUL}
  /\ stores \subseteq {"char", "pos"}
  /\ gone \in BOOLEAN /\ fresh \in BOOLEAN
  /\ at = "erase" => reg > 0
  /\ stores # {} => at = "store"
  /\ at = "store" => reg < BufSize - 1 /\ char \in Chars

IInv == ScanSafe /\ LoopInv

(* The inductive invariant holds however the keyboard interrupts the loop. *)
LEMMA SpecIInv == Spec => []IInv
<1> USE BufferFacts
<1>1. Init => IInv
  <2> SUFFICES ASSUME Init PROVE IInv
    OBVIOUS
  <2>1. ScanSafe
    BY KbInitInv DEF Init, KbInv
  <2> QED BY <2>1 DEF Init, IInv, LoopInv
<1>2. IInv /\ [Next]_vars => IInv'
  <2> SUFFICES ASSUME IInv, [Next]_vars PROVE IInv'
    OBVIOUS
  <2>1. ScanSafe /\ LoopInv
    BY DEF IInv
  <2>2. ASSUME UNCHANGED kbvars PROVE ScanSafe'
    <3>1. UNCHANGED <<input_buffer, input_pos, history, history_index, saved_input,
                      extended, shift_pressed, caps_lock, overrun>>
      BY <2>2 DEF kbvars, line, recall, modifiers
    <3> QED BY <2>1, <3>1 DEF ScanSafe, KbTypeOK
  <2>3. ASSUME input_buffer' \in [Cells -> Chars \cup {NUL}], input_pos' \in Cells,
               ~overrun => input_buffer'[BufSize - 1] = NUL,
               UNCHANGED <<recall, modifiers, overrun>>
        PROVE  ScanSafe'
    <3>1. UNCHANGED <<history, history_index, saved_input,
                      extended, shift_pressed, caps_lock, overrun>>
      BY <2>3 DEF recall, modifiers
    <3> QED BY <2>1, <2>3, <3>1 DEF ScanSafe, KbTypeOK
  <2>4. CASE UNCHANGED vars
    BY <2>1, <2>2, <2>4 DEF vars, loop, IInv, LoopInv
  <2>5. CASE KeyInterrupt
    <3>1. HandleInterrupt
      BY <2>5 DEF KeyInterrupt, HandleInterrupt
    <3>2. LoopInv'
      <4>1. fresh' \in BOOLEAN
        BY <2>1, <2>5 DEF KeyInterrupt, LoopInv
      <4>2. gone' \in BOOLEAN /\ UNCHANGED loop
        BY <2>1, <2>5 DEF KeyInterrupt, LoopInv
      <4> QED BY <2>1, <4>1, <4>2 DEF loop, LoopInv
    <3> QED BY <2>1, <3>1, <3>2, ScanSafeStep DEF IInv
  <2>6. CASE SerialEnter \/ SerialBackspace
    <3>1. ScanSafe'
      BY <2>2, <2>6 DEF SerialEnter, SerialBackspace
    <3>2. LoopInv'
      BY <2>1, <2>6 DEF SerialEnter, SerialBackspace, MayErase, Load, At, LoopInv, ScanSafe, KbTypeOK
    <3> QED BY <3>1, <3>2 DEF IInv
  <2>7. CASE Terminate
    <3>1. /\ input_buffer' = [input_buffer EXCEPT ![reg] = NUL]
          /\ UNCHANGED <<input_pos, recall, modifiers, overrun, reg, char, stores, gone, fresh>>
          /\ at' \in {"process", "finish"} /\ at = "terminate"
      BY <2>7 DEF Terminate, At
    <3>2. ScanSafe'
      BY <2>1, <2>3, <3>1 DEF ScanSafe, KbTypeOK, LoopInv
    <3>3. LoopInv'
      BY <2>1, <3>1 DEF LoopInv
    <3> QED BY <3>2, <3>3 DEF IInv
  <2>8. CASE ProcessCommand
    <3>1. ScanSafe'
      BY <2>2, <2>8 DEF ProcessCommand
    <3>2. LoopInv'
      BY <2>1, <2>8 DEF ProcessCommand, At, LoopInv
    <3> QED BY <3>1, <3>2 DEF IInv
  <2>9. CASE Finish
    <3>1. ScanSafe'
      BY <2>1, <2>3, <2>9 DEF Finish, ScanSafe, KbTypeOK
    <3>2. LoopInv'
      BY <2>1, <2>9 DEF Finish, At, LoopInv
    <3> QED BY <3>1, <3>2 DEF IInv
  <2>10. CASE Erase
    <3>1. input_pos' \in Cells
      BY <2>1, <2>10 DEF Erase, At, LoopInv, Cells
    <3>2. ScanSafe'
      BY <2>1, <2>3, <2>10, <3>1 DEF Erase, ScanSafe, KbTypeOK
    <3>3. LoopInv'
      BY <2>1, <2>10 DEF Erase, At, LoopInv
    <3> QED BY <3>2, <3>3 DEF IInv
  <2>11. ASSUME NEW c \in Chars, SerialCharacter(c) PROVE IInv'
    <3>1. ScanSafe'
      BY <2>2, <2>11 DEF SerialCharacter
    <3>2. LoopInv'
      BY <2>1, <2>11 DEF SerialCharacter, HasRoom, Load, At, LoopInv, ScanSafe, KbTypeOK
    <3> QED BY <3>1, <3>2 DEF IInv
  <2>12. ASSUME NEW what \in stores, Store(what) PROVE IInv'
    <3>1. at = "store" /\ reg \in Cells /\ reg < BufSize - 1 /\ char \in Chars
      BY <2>1, <2>12 DEF Store, At, LoopInv
    <3>2. input_buffer' \in [Cells -> Chars \cup {NUL}]
          /\ (~overrun => input_buffer'[BufSize - 1] = NUL)
      BY <2>1, <2>12, <3>1 DEF Store, ScanSafe, KbTypeOK
    <3>3. input_pos' \in Cells
      <4>1. reg + 1 \in Cells /\ input_pos \in Cells
        BY <2>1, <3>1 DEF Cells, ScanSafe, KbTypeOK
      <4> QED BY <2>12, <4>1 DEF Store
    <3>4. ScanSafe'
      BY <2>3, <2>12, <3>2, <3>3 DEF Store
    <3>5. LoopInv'
      BY <2>1, <2>12, <3>1 DEF Store, LoopInv
    <3> QED BY <3>4, <3>5 DEF IInv
  <2> QED
    BY <2>4, <2>5, <2>6, <2>7, <2>8, <2>9, <2>10, <2>11, <2>12 DEF Next, LoopStep, OverrunStops
<1> QED
  BY <1>1, <1>2, PTL DEF Spec

(* Every store of either editor lands in the line with a value of its      *)
(* type, although the loop stores through a position it loaded before the  *)
(* keyboard moved the cursor (kernel.cpp:276-328, keyboard.cpp:138-470).   *)
THEOREM SpecTypeOK == Spec => []TypeOK
<1>1. IInv => TypeOK
  BY DEF IInv, ScanSafe, LoopInv, TypeOK
<1> QED
  BY <1>1, SpecIInv, PTL

(* However the two editors interleave, the last cell keeps its NUL, so     *)
(* every scan of either one ends inside the buffer.                        *)
THEOREM SpecLastCellHoldsNul == Spec => []LastCellHoldsNul
<1>1. IInv => LastCellHoldsNul
  BY DEF IInv, ScanSafe, LastCellHoldsNul
<1> QED
  BY <1>1, SpecIInv, PTL

=============================================================================
