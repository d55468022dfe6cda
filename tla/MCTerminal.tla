----------------------------- MODULE MCTerminal -----------------------------
(* Three rows of four cells on the text terminal, four rows of five in     *)
(* graphics with and without a rest of a row below; a prompt of two cells  *)
(* and lines of up to four characters, so that a line runs over the end of *)
(* its row, by more than one cell on the text terminal.                    *)
EXTENDS Terminal

MCPrompt == <<">", "_">>

MCOutputs == { <<"o", Newline>>, <<"o", "o", "o", "o", "o", Newline>> }

=============================================================================
