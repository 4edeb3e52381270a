------------------------- MODULE ExpressionGrammar -------------------------
(***************************************************************************)
(* The rules of C expressions: src/parser/primary_and_generic.rs,          *)
(* postfix_and_compound.rs, unary_sizeof_alignof.rs, casts_and_binary.rs,  *)
(* conditional_assignment_and_expression.rs, gnu_keyword_and_offsetof.rs   *)
(* and the initializers of typedefs_initializers_and_asserts.rs.  Every    *)
(* definition has the name of its rule; a rule the source splits only to   *)
(* box its result or to record its span is one definition here.            *)
(*                                                                         *)
(* Operator precedence shapes the tree and not the text a rule matches, so *)
(* a binary expression is a chain of operands here.                        *)
(***************************************************************************)
EXTENDS PegExpressions

identifier     == Identifier
constant       == Word(NUMBER)
string_literal == Some(Word(TEXT))

----------------------------------------------------------------------------
(* Primary expressions.                                                    *)

generic_association ==
    Choice(<<InOrder(<<Rule("type_name"), Word(":"), Rule("assignment_expression")>>),
             InOrder(<<Word("default"), Word(":"), Rule("assignment_expression")>>)>>)
generic_selection ==
    InOrder(<<Word("_Generic"), Word("("), Rule("assignment_expression"), Word(","),
           Listed(generic_association), Word(")")>>)

statement_expression ==
    InOrder(<<Word("("), Scoped(Rule("compound_statement")), Word(")")>>)
va_arg_expression ==
    InOrder(<<Word("__builtin_va_arg"), Word("("), Rule("assignment_expression"),
           Word(","), Rule("type_name"), Word(")")>>)
offsetof_member ==
    Choice(<<InOrder(<<Words({".", "->"}), identifier>>),
             InOrder(<<Word("["), Rule("expression"), Word("]")>>)>>)
offsetof_designator == InOrder(<<identifier, Many(offsetof_member)>>)
offsetof_expression ==
    InOrder(<<Word("__builtin_offsetof"), Word("("), Rule("type_name"), Word(","),
           offsetof_designator, Word(")")>>)
keyword_expression == Words({"__func__", "__FUNCTION__", "__PRETTY_FUNCTION__"})
gnu_primary_expression ==
    Choice(<<statement_expression, offsetof_expression, va_arg_expression,
             keyword_expression>>)

primary_expression ==
    Choice(<<string_literal, constant, Words({"true", "false", "nullptr"}), identifier,
             InOrder(<<Word("("), Rule("expression"), Word(")")>>),
             generic_selection, Gnu(gnu_primary_expression)>>)

----------------------------------------------------------------------------
(* Initializers.                                                           *)

range_suffix == InOrder(<<Word("..."), Rule("conditional_expression")>>)
array_designator ==
    InOrder(<<Word("["), Rule("conditional_expression"), Maybe(Gnu(range_suffix)),
           Word("]")>>)
designator == Choice(<<array_designator, InOrder(<<Word("."), identifier>>)>>)
colon_designation == InOrder(<<identifier, Word(":")>>)
designation ==
    Choice(<<InOrder(<<Some(designator), Word("=")>>), Gnu(colon_designation),
             Gnu(array_designator)>>)
initializer_list_item == InOrder(<<Maybe(designation), Rule("initializer")>>)
initializer_list ==
    InOrder(<<Word("{"), Listed(initializer_list_item), Maybe(Word(",")), Word("}")>>)
initializer ==
    Choice(<<Rule("assignment_expression"), initializer_list,
             Gnu(InOrder(<<Word("{"), Word("}")>>))>>)

----------------------------------------------------------------------------
(* Postfix and unary expressions.                                          *)

compound_literal ==
    InOrder(<<Word("("), Rule("type_name"), Word(")"), initializer_list>>)
index_operator  == InOrder(<<Word("["), Rule("expression"), Word("]")>>)
member_operator == Words({".", "->"})
postfix_operator == Words({"++", "--"})
postfix_expressionT ==
    Choice(<<index_operator,
             InOrder(<<Word("("), Separated(Rule("assignment_expression")), Word(")")>>),
             InOrder(<<member_operator, identifier>>), postfix_operator>>)
postfix_expression1 == Choice(<<compound_literal, primary_expression>>)
postfix_expression ==
    Cached(InOrder(<<postfix_expression1, Many(postfix_expressionT)>>))

unary_prefix == InOrder(<<Words({"++", "--"}), Rule("unary_expression")>>)
unary_operator == Words({"&", "*", "+", "-", "~", "!"})
unary_cast == InOrder(<<unary_operator, Rule("cast_expression")>>)
sizeof_ty_expression ==
    InOrder(<<Word("sizeof"), Word("("), Rule("type_name"), Word(")")>>)
sizeof_val_expression == InOrder(<<Word("sizeof"), Rule("unary_expression")>>)
sizeof_expression == Choice(<<sizeof_ty_expression, sizeof_val_expression>>)
alignof ==
    InOrder(<<Choice(<<Words({"_Alignof", "alignof"}), Gnu(Word("__alignof"))>>),
           Word("("), Rule("type_name"), Word(")")>>)
unary_expression ==
    Choice(<<postfix_expression, unary_prefix, unary_cast, sizeof_expression, alignof,
             Gnu(InOrder(<<Word("__extension__"), Rule("unary_expression")>>))>>)

----------------------------------------------------------------------------
(* Casts, binary operators, conditions, assignments.                       *)

cast_expression_inner ==
    InOrder(<<Word("("), Rule("type_name"), Word(")"), Rule("cast_expression")>>)
cast_expression == Choice(<<cast_expression_inner, Rule("unary_expression")>>)

BinaryOperators == {"||", "&&", "|", "^", "&", "==", "!=", "<", ">", "<=", ">=",
                    "<<", ">>", "+", "-", "*", "/", "%"}
binary_expression ==
    InOrder(<<cast_expression, Many(InOrder(<<Words(BinaryOperators), cast_expression>>))>>)

conditional_expressionT ==
    InOrder(<<Word("?"), Rule("expression"), Word(":"), Rule("conditional_expression")>>)
conditional_expression == InOrder(<<binary_expression, Maybe(conditional_expressionT)>>)

assignment_operator ==
    Words({"=", "*=", "/=", "%=", "+=", "-=", "<<=", ">>=", "&=", "^=", "|="})
assignment_expression_inner ==
    InOrder(<<Rule("unary_expression"), assignment_operator,
           Rule("assignment_expression")>>)
assignment_expression ==
    Choice(<<assignment_expression_inner, Rule("conditional_expression")>>)
expressionT == InOrder(<<Word(","), Rule("assignment_expression")>>)
expression  == InOrder(<<Rule("assignment_expression"), Many(expressionT)>>)
=============================================================================
