----------------------------- MODULE TokenText -----------------------------
(***************************************************************************)
(* The text a parse reads, as a sequence of tokens, and what __parse__     *)
(* skips in it.  DIRECTIVE is a whole line that begins with a hash: the    *)
(* line markers and pragmas a preprocessor leaves in its output.  Such a   *)
(* line is skipped like a blank, but __parse__ recognises it only after    *)
(* the line break before it, so never at the very start of the text.       *)
(***************************************************************************)
EXTENDS Integers, Sequences

DIRECTIVE == "#"

\* Where the text goes on at or after position i once the blanks are skipped:
\* one position, in a set of its own.
AfterBlanks(text, i) ==
    IF i = 1 THEN {1}
    ELSE {j \in i .. Len(text) + 1 :
             /\ j <= Len(text) => text[j] # DIRECTIVE
             /\ \A k \in i .. j - 1 : text[k] = DIRECTIVE}
Blank(text, i) == CHOOSE j \in AfterBlanks(text, i) : TRUE
=============================================================================
