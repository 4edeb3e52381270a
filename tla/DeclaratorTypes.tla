---------------------------- MODULE DeclaratorTypes ----------------------------
(***************************************************************************)
(* What a declarator makes of the type it is applied to: types.rs against  *)
(* the declarator grammar of C.                                            *)
(*                                                                         *)
(* A declarator is a sequence of levels, the outermost parenthesis first;  *)
(* a function returning a pointer, pointed to by each of an array of two,  *)
(* is << [stars |-> 1, suffixes |-> <<"()">>],                             *)
(*       [stars |-> 1, suffixes |-> <<"[2]">>] >>.  A type is its layers,  *)
(* the outermost first, over a base: here << "[2]", "*", "()", "*" >>.     *)
(***************************************************************************)
EXTENDS SequencesExt

FunctionLayers == {"()"}
ArrayLayers    == {"[]", "[2]", "[3]"}

Level == [stars : Nat, suffixes : Seq(FunctionLayers \cup ArrayLayers)]

Pointers(level) == [i \in 1..level.stars |-> "*"]

Plain == <<[stars |-> 0, suffixes |-> <<>>]>>

\* Mutant of Applied: pointers last, as the comment of apply_derived recalls.
AppliedLast(layers, level) == Pointers(level) \o Reverse(level.suffixes) \o layers

\* apply_derived at one level: the pointers, then each suffix around the last.
Applied(layers, level) == Reverse(level.suffixes) \o Pointers(level) \o layers

Lowered(levels) == FoldLeft(Applied, <<>>, levels)

\* is_function_declarator
IsFunction(levels) == \E i \in DOMAIN levels[1].suffixes : levels[1].suffixes[i] \in FunctionLayers

\* The return type function_parts finds: the outer level, its functions left out.
Returned(levels) ==
  FoldLeft(LAMBDA layers, s : IF s \in FunctionLayers THEN layers ELSE <<s>> \o layers,
           Pointers(levels[1]), levels[1].suffixes)

\* What C says: a level nearer the name is outside, and so is an earlier suffix.
Meaning(levels) ==
  FoldLeft(LAMBDA layers, level : level.suffixes \o Pointers(level) \o layers, <<>>, levels)

\* One suffix a level, and none inside a level that makes a function.
IsSimple(levels) ==
  /\ \A i \in DOMAIN levels : Len(levels[i].suffixes) <= 1
  /\ IsFunction(levels) => \A i \in DOMAIN levels : i > 1 => levels[i] = Plain[1]

=============================================================================
