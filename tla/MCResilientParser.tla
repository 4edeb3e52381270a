------------------------- MODULE MCResilientParser -------------------------
(***************************************************************************)
(* Texts for ResilientParser: everything that can be put together from a   *)
(* few phrases, some of them declarations, some of them not, and some only *)
(* after what another one declares.                                        *)
(***************************************************************************)
EXTENDS PegParser, ResilientParser, SequencesExt

MCNames == {"A", "B", "C"}

AllOf(phrases, n) == UNION {{FlattenSeq(p) : p \in [1 .. k -> phrases]} : k \in 0 .. n}

\* Declarations that stand for themselves.
Plain == {<<"int", "C", ";">>}

\* No declarations: a bad token in various places of a declaration and of a
\* block, and braces that do not match.
Broken == {
    <<"@", ";">>,
    <<"typedef", "int", "A", ",", "@", ";">>,
    <<"@", "{", "{", "}", "int", "A", ";", "}", ";">>,
    <<"int", "B", "(", "int", "A", ")", "{", "@", ";", "}">>,
    <<"@", "{">>,
    <<"}">>}

\* A function whose parameter is declared behind it, unless A is a type.
OldStyle ==
    <<"int", "B", "(", "A", ")", "int", "A", ";", "{", "A", "*", "C", ";", "}">>

Meaning == {
    OldStyle,
    <<"typedef", "int", "A", ";">>,
    <<"A", "B", ";">>,
    <<"int", "A", ";">>,
    <<"int", "B", "(", "int", "A", ")", "{", "A", "*", "B", ";", "}">>,
    <<"int", "A", "(", "int", "B", "[", "(", "A", ")", "{", "1", "}", "]", ")",
      "{", "}">>,
    <<"int", "B", "(", ")", "{", "typedef", "int", "A", ";", "A", "*", "B", ";", "}">>,
    <<"int", "B", "(", ")", "{", "for", "(", "int", "A", ";", ";", ")", "A", "*", "B",
      ";", "A", "C", ";", "}">>,
    <<"enum", "B", "{", "A", "=", "1", "}", ";">>,
    <<"struct", "B", "{", "A", "B", ";", "}", "C", ";">>,
    <<"int", "B", "=", "(", "int", "(", "*", ")", "(", "int", "A", ")", ")", "1", ";">>,
    <<"int", "B", "(", ")", "{", "if", "(", "(", "A", ")", "-", "1", ")", "{", "int",
      "A", ";", "}", "A", "*", "C", ";", "}">>}

\* Names that mean one thing or another, everywhere a name may stand, with
\* and without a typedef before them.
MeaningTexts ==
    LET texts == AllOf(Meaning, 2) IN
    texts \union {<<"typedef", "int", "A", ";">> \o t : t \in texts}

\* What recovery has to find its way through.
RecoveryPhrases ==
    Plain \union Broken \union
        {<<"typedef", "int", "A", ";">>, <<"A", "B", ";">>, OldStyle, <<DIRECTIVE>>}
RecoveryTexts == AllOf(RecoveryPhrases, 3)

MCTexts == MeaningTexts \union RecoveryTexts

\* The flavours differ in what they make of a name, never of a broken text.
FlavorsOf(t) == IF t \in MeaningTexts THEN {"core", "gnu", "clang"} ELSE {"gnu"}
=============================================================================
