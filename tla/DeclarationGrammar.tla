------------------------ MODULE DeclarationGrammar ------------------------
(***************************************************************************)
(* The rules of C declarations: src/parser/declarations_entry.rs,          *)
(* init_declarators_and_storage.rs, type_specifiers.rs, structs.rs,        *)
(* specifier_qualifiers.rs, enums_and_qualifiers.rs, declarators.rs,       *)
(* pointers_parameters_and_typenames.rs, abstract_declarators.rs,          *)
(* typeof_and_ts18661.rs, function_and_alignment_specifiers.rs and the     *)
(* attributes.  Every definition has the name of its rule.                 *)
(*                                                                         *)
(* Four rules tell the scopes what a name is: an init declarator, a        *)
(* parameter and an enumerator declare an identifier, a type declarator    *)
(* declares a type name.  One asks them: typedef_name.                     *)
(***************************************************************************)
EXTENDS ExpressionGrammar

(* Attributes and labels.                                                  *)

\* The name and arguments of one attribute; a name here may be a keyword.
AttributeWords == {"packed", "const"}
attribute_parameters ==
    InOrder(<<Word("("), Separated(Rule("assignment_expression")), Word(")")>>)
attr_availability_version ==
    InOrder(<<Word(NUMBER), Maybe(InOrder(<<Word("."), Word(NUMBER)>>)),
              Maybe(InOrder(<<Word("."), Word(NUMBER)>>))>>)
attr_availability_clause ==
    Choice(<<InOrder(<<Words({"introduced", "deprecated", "obsoleted"}), Word("="),
                       attr_availability_version>>),
             Word("unavailable"),
             InOrder(<<Words({"message", "replacement"}), Word("="), string_literal>>)>>)
attr_availability ==
    InOrder(<<Word("availability"), Word("("), identifier, Word(","),
              Listed(attr_availability_clause), Word(")")>>)
attribute ==
    Choice(<<Clang(attr_availability),
             InOrder(<<Choice(<<Words(AttributeWords), identifier>>),
                       Maybe(attribute_parameters)>>)>>)
attribute_specifier ==
    InOrder(<<Word("__attribute__"), Word("("), Word("("), Separated(attribute),
              Word(")"), Word(")")>>)
attribute_specifier_list == Many(attribute_specifier)

asm_label ==
    InOrder(<<Words({"asm", "__asm__"}), Word("("), string_literal, Word(")")>>)

----------------------------------------------------------------------------
(* Qualifiers and specifiers of storage, functions and alignment.          *)

type_qualifier ==
    Choice(<<Word("const"), Gnu(Word("__const")), Word("restrict"),
             Gnu(Word("__restrict")), Word("volatile"), Gnu(Word("__volatile")),
             Clang(Words({"_Nonnull", "_Null_unspecified", "_Nullable"})),
             InOrder(<<Word("_Atomic"), Unless(Word("("))>>)>>)
storage_class_specifier ==
    Words({"extern", "static", "_Thread_local", "thread_local", "auto", "register",
           "constexpr"})
storage_class_typedef == Word("typedef")
function_specifier ==
    Choice(<<Word("inline"), Gnu(Word("__inline")), Words({"_Noreturn", "noreturn"})>>)
alignment_specifier ==
    Choice(<<InOrder(<<Words({"_Alignas", "alignas"}), Word("("), Rule("type_name"),
                       Word(")")>>),
             InOrder(<<Words({"_Alignas", "alignas"}), Word("("),
                       Rule("conditional_expression"), Word(")")>>)>>)

----------------------------------------------------------------------------
(* Type specifiers.  A unique one stands alone in a declaration; the       *)
(* others combine (long, unsigned, int).                                   *)

typedef_name == TypeIdentifier

struct_or_union == Words({"struct", "union"})
struct_declarator ==
    Choice(<<InOrder(<<Maybe(Rule("declarator")), Word(":"),
                       Rule("conditional_expression"),
                       Maybe(Gnu(attribute_specifier_list))>>),
             InOrder(<<Rule("declarator"), Maybe(Gnu(attribute_specifier_list))>>)>>)
struct_field ==
    InOrder(<<Rule("specifier_qualifiers"), Separated(struct_declarator), Word(";"),
              Maybe(Gnu(Many(Word(";"))))>>)
struct_declaration ==
    Choice(<<struct_field, Rule("static_assert"),
             Gnu(InOrder(<<Word("__extension__"), Rule("struct_declaration")>>))>>)
struct_or_union_body ==
    Maybe(Choice(<<InOrder(<<Word("{"), Some(Rule("struct_declaration")), Word("}")>>),
                   Gnu(InOrder(<<Word("{"), Word("}")>>))>>))
struct_or_union_specifier ==
    Choice(<<InOrder(<<struct_or_union, attribute_specifier_list, Maybe(identifier),
                       struct_or_union_body>>),
             InOrder(<<struct_or_union, identifier>>)>>)

enumerator_constant == InOrder(<<Word("="), Rule("conditional_expression")>>)
enumerator ==
    Declares(Naming(identifier,
                    InOrder(<<Maybe(Gnu(attribute_specifier_list)),
                              Maybe(enumerator_constant)>>)), "Identifier")
enum_specifier ==
    Choice(<<InOrder(<<Word("enum"), Maybe(identifier), Word("{"), Listed(enumerator),
                       Maybe(Word(",")), Word("}")>>),
             InOrder(<<Word("enum"), identifier>>)>>)

typeof_specifier ==
    InOrder(<<Words({"typeof", "__typeof__"}), Word("("),
              Choice(<<Rule("expression"), Rule("type_name")>>), Word(")")>>)

type_specifier_unique ==
    Choice(<<Word("void"), Words({"_Bool", "bool"}), Gnu(Word("__float128")),
             InOrder(<<Word("_BitInt"), Word("("), Rule("conditional_expression"),
                       Word(")")>>),
             InOrder(<<Word("_Atomic"), Word("("), Rule("type_name"), Word(")")>>),
             struct_or_union_specifier, enum_specifier, typedef_name>>)
type_specifier_nonunique ==
    Choice(<<Words({"char", "short", "int", "long", "float", "double", "signed"}),
             Gnu(Word("__signed")), Words({"unsigned", "_Complex", "complex"}),
             Gnu(Word("__complex")), Words({"_Float32", "_Decimal32"}),
             Gnu(Word("__int128")), typeof_specifier>>)

specifier_qualifier_qualifier == Choice(<<type_qualifier, Gnu(attribute_specifier)>>)
specifier_qualifiers ==
    Choice(<<InOrder(<<Many(specifier_qualifier_qualifier), type_specifier_unique,
                       Many(specifier_qualifier_qualifier)>>),
             InOrder(<<Many(specifier_qualifier_qualifier), type_specifier_nonunique,
                       Many(Choice(<<type_specifier_nonunique,
                                     specifier_qualifier_qualifier>>))>>)>>)

----------------------------------------------------------------------------
(* Declarators.                                                            *)

pointer_qualifier == Choice(<<type_qualifier, Gnu(attribute_specifier)>>)
pointer ==
    InOrder(<<Choice(<<Word("*"), Gnu(Word("^"))>>), Many(pointer_qualifier)>>)

\* The five forms between the brackets of an array; stars is what stands
\* before a lone star.
ArraySize(stars) ==
    Choice(<<InOrder(<<Many(type_qualifier), Word("]")>>),
             InOrder(<<Many(type_qualifier), Rule("assignment_expression"), Word("]")>>),
             InOrder(<<Word("static"), Many(type_qualifier),
                       Rule("assignment_expression"), Word("]")>>),
             InOrder(<<Some(type_qualifier), Word("static"),
                       Rule("assignment_expression"), Word("]")>>),
             InOrder(<<stars, Word("*"), Word("]")>>)>>)
array_declarator          == ArraySize(Many(type_qualifier))
abstract_array_declarator == ArraySize(InOrder(<<>>))

ellipsis == Maybe(InOrder(<<Word(","), Word("...")>>))
function_declarator ==
    InOrder(<<Listed(Rule("parameter_declaration")), ellipsis>>)
derived_declarator ==
    Choice(<<InOrder(<<Word("["), array_declarator>>),
             InOrder(<<Word("("), Scoped(function_declarator), Word(")")>>),
             InOrder(<<Word("("), Separated(identifier), Word(")")>>)>>)
direct_declarator ==
    Choice(<<identifier, InOrder(<<Word("("), Rule("declarator"), Word(")")>>)>>)
declarator ==
    InOrder(<<Maybe(Gnu(attribute_specifier_list)), Many(pointer),
              Naming(direct_declarator, Many(derived_declarator))>>)

abstract_function_declarator ==
    Maybe(InOrder(<<Listed(Rule("parameter_declaration")), ellipsis>>))
derived_abstract_declarator ==
    Choice(<<InOrder(<<Word("["), abstract_array_declarator>>),
             InOrder(<<Word("("), abstract_function_declarator, Word(")")>>)>>)
direct_abstract_declarator ==
    InOrder(<<Word("("), Rule("abstract_declarator"), Word(")")>>)
abstract_declarator ==
    Choice(<<InOrder(<<Many(pointer), direct_abstract_declarator,
                       Many(derived_abstract_declarator)>>),
             InOrder(<<Many(pointer), Some(derived_abstract_declarator)>>),
             Some(pointer)>>)
type_name == InOrder(<<specifier_qualifiers, Maybe(abstract_declarator)>>)

----------------------------------------------------------------------------
(* Declaration specifiers, parameters, declarations.                       *)

declaration_specifier_nontype ==
    Choice(<<storage_class_specifier, type_qualifier, function_specifier,
             alignment_specifier, Gnu(attribute_specifier)>>)
declaration_specifiers_unique == Many(declaration_specifier_nontype)
declaration_specifiers_nonunique ==
    Many(Choice(<<declaration_specifier_nontype, type_specifier_nonunique>>))
declaration_specifiers_tail ==
    Choice(<<InOrder(<<type_specifier_unique, declaration_specifiers_unique>>),
             InOrder(<<type_specifier_nonunique, declaration_specifiers_nonunique>>)>>)
declaration_specifiers ==
    InOrder(<<declaration_specifiers_unique, declaration_specifiers_tail>>)

parameter_declarator ==
    Maybe(Choice(<<Declares(Rule("declarator"), "Identifier"), abstract_declarator>>))
parameter_declaration ==
    InOrder(<<declaration_specifiers, parameter_declarator,
              Maybe(Gnu(attribute_specifier_list))>>)

init_declarator_gnu == InOrder(<<Maybe(asm_label), attribute_specifier_list>>)
\* Mutant of init_declarator_declarator: the name it declares is not added.
UnaddedDeclarator == Rule("declarator")
init_declarator_declarator == Declares(Rule("declarator"), "Identifier")
init_declarator_init == InOrder(<<Word("="), Rule("initializer")>>)
init_declarator ==
    InOrder(<<init_declarator_declarator, Maybe(Gnu(init_declarator_gnu)),
              Maybe(init_declarator_init)>>)
type_declarator ==
    Declares(Naming(Rule("declarator"), Maybe(Gnu(init_declarator_gnu))), "Typename")
declaration_init_declarators == Separated(init_declarator)
declaration_type_declarators == Separated(type_declarator)

declaration_typedef_tail ==
    InOrder(<<declaration_specifiers_unique,
              Choice(<<InOrder(<<type_specifier_unique, declaration_specifiers_unique,
                                 declaration_type_declarators>>),
                       InOrder(<<type_specifier_nonunique,
                                 declaration_specifiers_nonunique,
                                 declaration_type_declarators>>)>>)>>)

\* What follows the type of a declaration: the word typedef may stand among
\* the specifiers after it.
AfterType(specifiers) ==
    InOrder(<<specifiers,
              Choice(<<InOrder(<<storage_class_typedef, specifiers,
                                 declaration_type_declarators>>),
                       declaration_init_declarators>>)>>)
declaration2 ==
    Choice(<<InOrder(<<storage_class_typedef, declaration_typedef_tail>>),
             InOrder(<<type_specifier_unique,
                       AfterType(declaration_specifiers_unique)>>),
             InOrder(<<type_specifier_nonunique,
                       AfterType(declaration_specifiers_nonunique)>>)>>)
declaration ==
    InOrder(<<Maybe(Gnu(Word("__extension__"))), declaration_specifiers_unique,
              declaration2, Word(";")>>)

static_assert ==
    InOrder(<<Maybe(Gnu(Word("__extension__"))),
              Words({"_Static_assert", "static_assert"}), Word("("),
              Rule("conditional_expression"), Word(","), string_literal, Word(")"),
              Word(";")>>)
=============================================================================
