------------------------- MODULE ExpansionReference -------------------------
(***************************************************************************)
(* What C17 6.10.3 makes of the same text, with hide sets: a token carries *)
(* the names it may no longer be replaced by, for good; a replacement is   *)
(* read again together with the rest of the text.  Spaces are dropped      *)
(* where they mean nothing, and ## works on explicit placemarkers.         *)
(*                                                                         *)
(* The reference also notes where expand_tokens departs from it by design  *)
(* of its recursion ("carried", "spans") or is given what it does not      *)
(* support ("pasting").                                                    *)
(***************************************************************************)
EXTENDS MacroExpansion

\* A token with its hide set and the replacement it stands in, which is named
\* by the number of tokens that follow it; the text itself is -1.
Hidden(token, names, from) ==
  [kind |-> token.kind, text |-> token.text, hide |-> names, from |-> from]
Plainly(tokens) == [i \in DOMAIN tokens |-> Token(tokens[i].kind, tokens[i].text)]
Solid(tokens) == SelectSeq(tokens, LAMBDA t : ~IsBlank(t))
Unspaced(tokens) ==
  [i \in DOMAIN Solid(tokens) |->
     [Solid(tokens)[i] EXCEPT !.text = SelectSeq(@, LAMBDA atom : atom # " ")]]
OperandOf(def, args, text) ==
  LET tokens == Operand(def, args, text) IN
  [i \in DOMAIN tokens |->
     IF "hide" \in DOMAIN tokens[i] THEN tokens[i] ELSE Hidden(tokens[i], {}, -1)]
Anew(tokens) == [i \in DOMAIN tokens |-> Hidden(tokens[i], tokens[i].hide, -1)]

Placemarker == [kind |-> "placemarker", text |-> <<>>, hide |-> {}, from |-> 0]
Paste       == [kind |-> "paste", text |-> <<>>, hide |-> {}, from |-> 0]

Joined(left, right) ==
  IF left.kind = "placemarker" THEN right
  ELSE IF right.kind = "placemarker" THEN left
  ELSE LET t == Glued(left, right) IN Hidden(t, left.hide \cap right.hide, 0)

\* ## joins the tokens on its two sides, from left to right.
PastesDone(items) ==
  LET step(state, item) ==
        IF item.kind = "paste" THEN [state EXCEPT !.joins = TRUE]
        ELSE IF state.joins /\ state.out # <<>>
        THEN [out |-> Front(state.out) \o <<Joined(Last(state.out), item)>>, joins |-> FALSE]
        ELSE [out |-> Append(state.out, item), joins |-> FALSE] IN
  SelectSeq(FoldLeft(step, [out |-> <<>>, joins |-> FALSE], items).out,
            LAMBDA item : item.kind # "placemarker")

\* What the i-th token of a replacement list becomes, before ## is done.  GNU C
\* joins nothing in `, ## __VA_ARGS__` and drops the comma before an empty tail.
Piece(def, body, args, expanded, i) ==
  LET t == body[i]
      before == KindAt(body, i - 1)
      pastes == before = "hashhash" \/ KindAt(body, i + 1) = "hashhash"
      comma(k) == k \in DOMAIN body /\ Is(body[k], ",") /\ KindAt(body, k + 1) = "hashhash"
                  /\ k + 2 \in DOMAIN body /\ IsTail(def, body[k + 2].text)
      raw == OperandOf(def, args, t.text)
      plain == <<Hidden(t, {}, 0)>> IN
  IF t.kind = "hash" /\ i < Len(body) /\ IsOperand(def, body[i + 1].text)
  THEN <<Hidden(Stringified(OperandOf(def, args, body[i + 1].text)), {}, 0)>>
  ELSE IF comma(i) /\ OperandOf(def, args, body[i + 2].text) = <<>> THEN <<>>
  ELSE IF t.kind = "hashhash" THEN IF comma(i - 1) THEN <<>> ELSE <<Paste>>
  ELSE IF ~IsOperand(def, t.text) THEN plain
  ELSE IF before = "hash" THEN <<>>
  ELSE IF comma(i - 2) THEN raw
  ELSE IF pastes THEN IF raw = <<>> THEN <<Placemarker>> ELSE raw
  ELSE (CHOOSE e \in expanded : e.at = i).out

Replaced(def, args, expanded, names, from) ==
  LET body  == Solid(def.body)
      items == FlattenSeq([i \in DOMAIN body |-> Piece(def, body, args, expanded, i)])
      out   == PastesDone(items) IN
  [i \in DOMAIN out |-> Hidden(out[i], out[i].hide \cup names, from)]

\* Forms of ## that expand_tokens takes literally.
OddPasting(def) ==
  LET body == Solid(def.body) IN
  \E i \in DOMAIN body : body[i].kind = "hashhash"
                         /\ (~def.function \/ KindAt(body, i + 1) = "hash")

\* What is passed on by an expansion that found nothing to replace.
Found(out, notes) == [out |-> out, notes |-> notes]

RECURSIVE Standard(_)
Standard(tokens) ==
  IF tokens = <<>> THEN Found(<<>>, {})
  ELSE
  LET t == Head(tokens)
      rest == Tail(tokens)
      Kept(notes) == LET r == Standard(rest) IN Found(<<t>> \o r.out, r.notes \cup notes)
      def == macros[t.text]
      named == t.kind = "ident" /\ t.text \in DOMAIN macros /\ t.text \notin t.hide
      odd == IF OddPasting(def) THEN {"pasting"} ELSE {}
      spans(i) == IF tokens[i].from # t.from THEN {"spans"} ELSE {} IN
  IF ~named THEN Kept({})
  ELSE IF ~def.function
  THEN LET r == Standard(Replaced([def EXCEPT !.params = <<>>], <<>>, {},
                                  t.hide \cup {t.text}, Len(rest)) \o rest) IN
       Found(r.out, r.notes \cup odd)
  ELSE IF ~FollowedByParenthesis(tokens, 1) THEN Kept({})
  ELSE IF ~HasArguments(tokens, 1) THEN Kept({"bad"} \cup spans(Parenthesis(tokens, 1)))
  ELSE IF ~ArityMatches(def, ArgumentsAt(tokens, 1))
  THEN Kept({"bad"} \cup spans(ClosingOf(tokens, 1)))
  ELSE
  LET args  == ArgumentsAt(tokens, 1)
      close == tokens[ClosingOf(tokens, 1)]
      after == SubSeq(tokens, ClosingOf(tokens, 1) + 1, Len(tokens))
      names == (t.hide \cap close.hide) \cup {t.text}
      body  == Solid(def.body)
      used  == {i \in DOMAIN body :
                  /\ IsOperand(def, body[i].text)
                  /\ KindAt(body, i - 1) \notin {"hash", "hashhash"}
                  /\ KindAt(body, i + 1) # "hashhash"}
      full  == {[at |-> i, result |-> Standard(Anew(OperandOf(def, args, body[i].text)))] :
                  i \in used}
      expanded == {[at |-> f.at, out |-> f.result.out] : f \in full}
      carried == \E e \in expanded : \E u \in ToSet(e.out) :
                   u.text \in u.hide /\ u.text \notin names
      r == Standard(Replaced(def, args, expanded, names, Len(after)) \o after) IN
  Found(r.out, r.notes \cup odd \cup spans(ClosingOf(tokens, 1))
                 \cup UNION {f.result.notes : f \in full}
                 \cup (IF carried THEN {"carried"} ELSE {}))

Reference ==
  Standard([i \in DOMAIN Solid(config.text) |-> Hidden(Solid(config.text)[i], {}, -1)])

Complaints == {i \in DOMAIN issues : issues[i] \in {"E2110", "E2112"}}

\* Where expand_tokens is known to depart from C.  A name that was left alone in an
\* argument is read again without its paint ("carried").  A function-like name that
\* ends a replacement does not find the arguments that follow it ("spans").  A ##
\* before a # or in an object-like macro is not done ("pasting").  The comments of a
\* condition are not whitespace.
Departs ==
  \/ Reference.notes \cap {"carried", "spans", "pasting"} # {}
  \/ \E i \in DOMAIN config.text : config.text[i].kind = "comment"

\* Where the text is expanded within the limits, C refuses it exactly when an
\* issue is reported, and otherwise the tokens are those of C, apart from spaces:
\* nothing painted is replaced and nothing is left that should be, through any
\* nesting of arguments and replacements, with # and ## done on the arguments as
\* written.
ExpansionIsStandard ==
  Done /\ ~stopped /\ ~Departs =>
    /\ Complaints = {} <=> Reference.notes = {}
    /\ Complaints = {} => Unspaced(output) = Plainly(Unspaced(Reference.out))

=============================================================================
