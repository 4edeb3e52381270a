----------------------------- MODULE MCExtraction -----------------------------
(***************************************************************************)
(* Units of two declarations, of every kind the extractor lowers, read     *)
(* from one file, from a header and a file, or through a macro; of three   *)
(* read from one file; of single declarators; and of a declaration with    *)
(* something behind it that the parser skipped.  Limits are small enough   *)
(* for some units to have too many declarations or diagnostics, or a type  *)
(* that is too deep.                                                       *)
(***************************************************************************)
EXTENDS Extraction, TLC

CONSTANTS I, T, V, F, S, E, Anon, VaList, e1, h, gen, none

MCIds == {I, T, V, F, S, E, Anon, VaList}
MCFileRole == (e1 :> "Entry") @@ (h :> "UserInclude")
MCCodes == {"E1100", "P1108", "E1204", "E1211", "E1214", "E1215", "P1205", "E1216", "E1212",
            "P1203", "P2000", "P0001", "P0002"}
MCLimits == [files |-> 3, declarations |-> 4, macros |-> 0, diagnostics |-> 4, typeDepth |-> 2]

-----------------------------------------------------------------------------
(* Mentions *)

Base(as, to, support) == [as |-> as, to |-> to, support |-> support]
CInt     == Base("scalar", none, Supported)
Float128 == Base("scalar", none, PartialAs("P1108"))
Named(d) == Base("alias", d, Supported)
Struct(d) == Base("record", d, Supported)
Enum(d)  == Base("enum", d, Supported)

At(stars, suffixes) == [stars |-> stars, suffixes |-> suffixes]
Ptr == <<At(1, <<>>)>>
Call == <<At(0, <<"()">>)>>

MentionOf(d, form, named, body, members, base, levels, inner) ==
  [d |-> d, form |-> form, named |-> named, body |-> body, members |-> members, base |-> base,
   levels |-> levels, inner |-> inner, static |-> FALSE, restrict |-> FALSE, flaw |-> "",
   tokens |-> <<form, body, base, levels>>]

Tag(d, form, members, inner) ==
  MentionOf(d, form, d # Anon, members # <<>>, members, CInt, Plain, inner)
Name(d, form, base, levels) == MentionOf(d, form, TRUE, TRUE, <<>>, base, levels, 0)
Typedef(d, base, levels) == Name(d, "typedef", base, levels)
Object(d, base, levels) == Name(d, "object", base, levels)

MemberOf(name, base, levels, flaw) ==
  [name |-> name, base |-> base, levels |-> levels, restrict |-> FALSE, flaw |-> flaw]
X == MemberOf("x", CInt, Plain, Supported)
Rest == MemberOf("rest", CInt, <<At(0, <<"[]">>)>>, Supported)

-----------------------------------------------------------------------------
(* Declarations: what is nested in another mention stands before it *)

Tags ==
  { <<Tag(S, "struct", <<>>, 0)>>,
    <<Tag(S, "struct", <<X, Rest>>, 0)>>,
    <<Tag(S, "union", <<X>>, 0)>>,
    <<Tag(S, "struct", <<>>, 0),                             \* in itself
      Tag(S, "struct", <<MemberOf("next", Struct(S), Ptr, Supported), X>>, 1)>>,
    <<Tag(Anon, "struct", <<MemberOf("", CInt, Plain, Supported), MemberOf("", CInt, Plain, Supported)>>, 0),
      Typedef(T, Struct(Anon), Ptr)>>,
    <<Tag(Anon, "struct", <<Rest>>, 0), Object(V, Struct(Anon), Plain)>>,
    <<Tag(S, "struct", <<X, X>>, 0)>>,
    <<Tag(E, "enum", <<X, MemberOf("y", CInt, Plain, PartialAs("P1203"))>>, 0)>>,
    <<Tag(E, "enum", <<X>>, 0), Object(V, Enum(E), Plain)>> }

Names ==
  { <<Typedef(I, CInt, Plain)>>,
    <<Typedef(T, CInt, Plain)>>,
    <<Typedef(T, Named(I), Plain)>>,
    <<Typedef(T, CInt, Ptr)>>,
    <<Tag(S, "struct", <<>>, 0), Typedef(T, Struct(S), Plain)>>,
    <<[Object(V, Named(T), Plain) EXCEPT !.restrict = TRUE]>>,
    <<Object(V, Named(T), Ptr)>>,
    <<Object(V, Float128, Plain)>>,
    <<Object(V, Named(VaList), Plain)>> }

Flawed(code) == <<[Object(V, CInt, Plain) EXCEPT !.flaw = code]>>
Flawless == Flawed("")
FlawedAlias == <<[Typedef(T, CInt, Plain) EXCEPT !.flaw = "E1211"]>>
Aligned == <<[Object(V, Float128, Plain) EXCEPT !.flaw = "E1216"]>>

Calls ==
  LET f == [Object(F, CInt, Call) EXCEPT
              !.members = <<MemberOf("a", Named(T), Plain, Supported), MemberOf("a", CInt, Plain, Supported)>>] IN
  { <<f>>, <<Object(F, CInt, Call)>>, <<[Object(F, CInt, Call) EXCEPT !.static = TRUE]>>,
    <<[f EXCEPT !.flaw = "E1214"]>> }

Declarations ==
  Tags \cup Names \cup Calls \cup {Flawless, FlawedAlias, Aligned}
    \cup {Flawed(code) : code \in {"E1211", "E1215", "P1205", "E1216"}}

\* A name is read as a type after a typedef of it, or if it is built in.
IsParsed(mentions) ==
  \A k \in DOMAIN mentions :
    LET m == mentions[k]
        named == {b \in {m.base} \cup {m.members[i].base : i \in DOMAIN m.members} : b.as = "alias"}
    IN \A b \in named : \/ b.to = VaList
                        \/ \E j \in 1..(k - 1) : mentions[j].d = b.to /\ mentions[j].form = "typedef"

-----------------------------------------------------------------------------
(* Where the text was read from *)

SegmentOf(start, end, file, from, to, chain) ==
  [start |-> start, end |-> end, chain |-> chain,
   anchor |-> [file |-> file, start |-> from, end |-> to]]

Through == <<[directive |-> [file |-> e1, start |-> 0, end |-> 9], included |-> h]>>

\* A segment for every place of the text, as for every token of a file.
PlacesOf(file, from, to, chain) ==
  {SegmentOf(n, n + 1, file, n, n + 1, chain) : n \in from..(to - 1)}

Whole == PlacesOf(e1, 10, 70, <<>>)
HeaderTo(c) == PlacesOf(h, 10, c, Through) \cup PlacesOf(e1, c, 70, <<>>)
MacroAt == PlacesOf(e1, 10, 13, <<>>) \cup {SegmentOf(13, 24, e1, 13, 17, <<>>)}
             \cup PlacesOf(e1, 24, 70, <<>>)

UnitOf(mentions, segments) ==
  [mentions |-> mentions, skipped |-> {}, segments |-> segments, traced |-> TRUE]

\* What was skipped is behind the last mention.
Skipping(unit0) ==
  LET n == 10 * (Len(unit0.mentions) + 1)
  IN [unit0 EXCEPT !.skipped = {[file |-> gen, start |-> n, end |-> n + 9]}]

\* It is read from a file, behind a header, or with a part of it in the header.
SkippingUnits(mentions) ==
  LET n == 10 * (Len(mentions) + 1)
  IN {Skipping(UnitOf(mentions, s)) : s \in {Whole, HeaderTo(n), HeaderTo(n + 5)}}

Pairs == {x \o y : x, y \in Declarations}
Triples == {x \o y \o z : x, y, z \in Declarations}
Declarators ==
  {<<Typedef(T, CInt, <<At(n, x)>> \o inner)>> :
     n \in {0, 1}, x \in {<<>>, <<"()">>, <<"[2]">>},
     inner \in {<<>>, <<At(1, <<>>)>>, <<At(1, <<"[3]">>)>>, <<At(1, <<"()">>)>>}}
    \cup {<<Object(F, CInt, <<At(n, x)>>)>> : n \in {0, 1}, x \in {<<>>, <<"()">>, <<"[2]">>}}

MCUnits ==
  {UnitOf(p, s) : p \in {x \in Pairs : IsParsed(x)},
                  s \in {Whole, HeaderTo(20), HeaderTo(22), MacroAt}}
    \cup {UnitOf(p, Whole) : p \in {x \in Triples : IsParsed(x)} \cup Declarators}
    \cup {[UnitOf(d, {}) EXCEPT !.traced = FALSE] : d \in {x \in Declarations : IsParsed(x)}}
    \cup UNION {SkippingUnits(d) : d \in {x \in Declarations : IsParsed(x)}}
    \cup {[Skipping(UnitOf(Flawless, {})) EXCEPT !.traced = FALSE]}

\* Valid C, and nothing in it that the extractor would not support.
ValidUnits ==
  {UnitOf(<<Typedef(I, CInt, Plain), Typedef(T, CInt, Plain), Typedef(T, Named(I), Plain)>> \o more,
          Whole) : more \in {<<>>, <<Object(V, Named(T), Plain)>>}}

\* int a[2][3]; and a pointer to a function that is not a typedef of one.
DeclaratorUnits ==
  {UnitOf(<<Object(V, CInt, levels)>>, Whole) :
     levels \in {Plain, <<At(0, <<"[2]", "[3]">>)>>, <<At(0, <<"()">>), At(1, <<>>)>>}}

=============================================================================
