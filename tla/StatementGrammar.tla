------------------------- MODULE StatementGrammar -------------------------
(***************************************************************************)
(* The rules of C statements and of the text of a whole file:              *)
(* src/parser/statements_labels_and_selection.rs,                          *)
(* statements_iteration_and_jump.rs, asm_statements.rs and                 *)
(* translation_units_and_functions.rs.  A block item, an external          *)
(* declaration and the first clause of a for try a declaration and other   *)
(* readings one after the other at the same place; the scopes are not set  *)
(* back in between.                                                        *)
(***************************************************************************)
EXTENDS DeclarationGrammar

label ==
    Choice(<<identifier,
             InOrder(<<Word("case"), Rule("conditional_expression"),
                       Maybe(Gnu(range_suffix))>>),
             Word("default")>>)
labeled_statement == InOrder(<<label, Word(":"), Rule("statement")>>)

block_item ==
    Choice(<<Rule("declaration"), static_assert, Rule("statement")>>)
compound_statement == InOrder(<<Word("{"), Many(block_item), Word("}")>>)

expression_statement == InOrder(<<Maybe(Rule("expression")), Word(";")>>)

else_statement == InOrder(<<Word("else"), Rule("statement")>>)
if_statement ==
    InOrder(<<Word("if"), Word("("), Rule("expression"), Word(")"), Rule("statement"),
              Maybe(else_statement)>>)
switch_statement ==
    InOrder(<<Word("switch"), Word("("), Rule("expression"), Word(")"),
              Rule("statement")>>)
selection_statement == Choice(<<if_statement, switch_statement>>)

while_statement ==
    InOrder(<<Word("while"), Word("("), Rule("expression"), Word(")"),
              Rule("statement")>>)
do_while_statement ==
    InOrder(<<Word("do"), Rule("statement"), Word("while"), Word("("),
              Rule("expression"), Word(")"), Word(";")>>)
for_initializer ==
    Choice(<<InOrder(<<Rule("expression"), Word(";")>>), Rule("declaration"),
             static_assert, Word(";")>>)
for_statement ==
    InOrder(<<Word("for"), Word("("), for_initializer, Maybe(Rule("expression")),
              Word(";"), Maybe(Rule("expression")), Word(")"), Rule("statement")>>)
iteration_statement == Choice(<<while_statement, do_while_statement, for_statement>>)

jump_statement ==
    Choice(<<InOrder(<<Word("goto"), identifier, Word(";")>>),
             InOrder(<<Words({"continue", "break"}), Word(";")>>),
             InOrder(<<Word("return"), Maybe(Rule("expression")), Word(";")>>)>>)

asm_operand ==
    InOrder(<<Maybe(InOrder(<<Word("["), identifier, Word("]")>>)), string_literal,
              Word("("), Rule("expression"), Word(")")>>)
asm_operand_list == Separated(asm_operand)
AsmTail(list, rest) == Maybe(InOrder(<<Word(":"), list, rest>>))
asm_statement ==
    InOrder(<<Words({"asm", "__asm__"}), Maybe(type_qualifier), Word("("),
              string_literal,
              AsmTail(asm_operand_list,
                      AsmTail(asm_operand_list,
                              AsmTail(Separated(string_literal), InOrder(<<>>)))),
              Word(")"), Word(";")>>)

statement ==
    Choice(<<labeled_statement, Scoped(compound_statement), expression_statement,
             Scoped(selection_statement), Scoped(iteration_statement), jump_statement,
             Gnu(asm_statement)>>)

----------------------------------------------------------------------------
(* External declarations.                                                  *)

function_definition ==
    InOrder(<<Maybe(Gnu(Word("__extension__"))), declaration_specifiers,
              Noted(Rule("declarator"), "function"), Many(Rule("declaration")),
              compound_statement>>)
\* Mutant of external_declaration0: stray semicolons are a declaration, even
\* when there are none.
StrayDeclaration0 == Choice(<<Noted(Rule("declaration"), "Declaration"), Many(Word(";"))>>)
external_declaration0 ==
    Choice(<<Noted(Rule("declaration"), "Declaration"),
             Noted(static_assert, "StaticAssert"),
             Noted(Scoped(function_definition), "FunctionDefinition")>>)
external_declaration == InOrder(<<external_declaration0, Maybe(Gnu(Many(Word(";"))))>>)

\* The rules that are reached by name.
Rules == [abstract_declarator    |-> abstract_declarator,
          assignment_expression  |-> assignment_expression,
          cast_expression        |-> cast_expression,
          compound_statement     |-> compound_statement,
          conditional_expression |-> conditional_expression,
          declaration            |-> declaration,
          declarator             |-> declarator,
          expression             |-> expression,
          initializer            |-> initializer,
          parameter_declaration  |-> parameter_declaration,
          specifier_qualifiers   |-> specifier_qualifiers,
          statement              |-> statement,
          static_assert          |-> static_assert,
          struct_declaration     |-> struct_declaration,
          type_name              |-> type_name,
          unary_expression       |-> unary_expression]
=============================================================================
