---------------------------- MODULE NameScopes ----------------------------
(***************************************************************************)
(* src/env.rs: the stack of scopes that tells a parser which names are     *)
(* types.  A scope says of every name whether it was declared in it, and   *)
(* as what.                                                                *)
(***************************************************************************)
EXTENDS Integers, Sequences

CONSTANT Names        \* The identifiers of the text.

Symbols == {"Typename", "Identifier"}
UNKNOWN == "Unknown"
Scopes  == [Names -> Symbols \union {UNKNOWN}]

EmptyScope == [n \in Names |-> UNKNOWN]

\* Env::with_core, with_gnu and with_clang: the one name that is known.
InitialScopes(flavor) ==
    <<[n \in Names |-> IF n = "__builtin_va_list" /\ flavor # "core" THEN "Typename"
                       ELSE UNKNOWN]>>

EnterScope(scopes) == Append(scopes, EmptyScope)
LeaveScope(scopes) == SubSeq(scopes, 1, Len(scopes) - 1)

AddSymbol(scopes, name, symbol) == [scopes EXCEPT ![Len(scopes)][name] = symbol]

\* The innermost scope that knows the name decides.
IsTypename(scopes, name) ==
    \E i \in 1 .. Len(scopes) :
        /\ scopes[i][name] = "Typename"
        /\ \A j \in i + 1 .. Len(scopes) : scopes[j][name] = UNKNOWN
=============================================================================
