-------------------------------- MODULE Parser ---------------------------------
(***************************************************************************)
(* parse_expression: precedence climbing over the tokens of an expression. *)
(* The node that is built is the caller's: a binary or postfix operator    *)
(* moves what it holds into a new operand and becomes the operator, and    *)
(* what the new operator does not set stays behind in it: its type and the *)
(* structure that the next . or -> looks its member up in.                 *)
(*                                                                         *)
(* An expression is a tuple: an operator, its operands, its name.          *)
(* Abstracted: the tokens of a type are one token; two literals of a kind  *)
(* are the same; a node's links and the text of errors are left out.       *)
(***************************************************************************)
EXTENDS Integers, Sequences, SequencesExt, TLC

CONSTANTS
  Exprs,    \* the expressions
  Vars,     \* the type of each variable: <<base, pointer level>>
  Types,    \* the types that are written down
  Members,  \* of each structure: the type of each of its members
  Funcs,    \* of each function: its return type and its number of parameters
  Sizes,    \* the size of each base type
  Careful   \* TRUE: only expressions that are Plain

ASSUME ParseExprAssumption ==
  /\ Careful \in BOOLEAN
  /\ DOMAIN Members \subseteq DOMAIN Sizes
  /\ \A base \in DOMAIN Sizes : Sizes[base] \in Nat \ {0}

VARIABLES
  expr,    \* the expression
  tokens,  \* its tokens
  node     \* what parse_expression makes of them

Structs == DOMAIN Members

-----------------------------------------------------------------------------
(* Operators *)

\* token_type_to_bop_type
BinaryOps ==
  [plus |-> "add", minus |-> "sub", star |-> "mul", slash |-> "div", percent |-> "mod",
   eq |-> "eq", neq |-> "neq", lt |-> "lt", lte |-> "lte", gt |-> "gt", gte |-> "gte",
   andand |-> "and", oror |-> "or", bar |-> "bitor", amp |-> "bitand", hat |-> "bitxor",
   left |-> "leftshift", right |-> "rightshift", assign |-> "assign",
   assign_plus |-> "assign_add", assign_minus |-> "assign_sub", assign_star |-> "assign_mult",
   assign_slash |-> "assign_div", assign_percent |-> "assign_mod",
   assign_left |-> "assign_leftshift", assign_right |-> "assign_rightshift",
   assign_amp |-> "assign_bitand", assign_bar |-> "assign_bitor",
   assign_hat |-> "assign_bitxor"]

\* token_type_to_pre_uop_type, accept_unop
PrefixOps ==
  [minus |-> "neg", not |-> "not", compl |-> "compl", incr |-> "pre_incr",
   decr |-> "pre_decr", sizeof |-> "sizeof", amp |-> "addr", star |-> "deref"]

\* token_type_to_post_uop_type, accept_post_unop
PostfixOps == [incr |-> "post_incr", decr |-> "post_decr"]

\* is_binary_operation_assignment
Assignments ==
  {"assign", "assign_add", "assign_sub", "assign_mult", "assign_div", "assign_mod",
   "assign_leftshift", "assign_rightshift", "assign_bitand", "assign_bitor", "assign_bitxor"}

\* is_binary_operation_logical
Comparisons == {"eq", "neq", "lt", "lte", "gt", "gte"}

Climbing == <<
  Assignments, {}, {"or"}, {"and"}, {"bitor"}, {"bitxor"}, {"bitand"}, {"eq", "neq"},
  {"lt", "lte", "gt", "gte"}, {"leftshift", "rightshift"}, {"add", "sub"},
  {"mul", "div", "mod"} >>

PrecedenceMutant(op) ==
  IF op \in {"bitand", "bitxor"} THEN 8
  ELSE 1 + CHOOSE level \in DOMAIN Climbing : op \in Climbing[level]

\* get_binary_operator_precedence
Precedence(op) == 1 + CHOOSE level \in DOMAIN Climbing : op \in Climbing[level]

-----------------------------------------------------------------------------
(* Types as the parser keeps them *)

VarType(base, ptr, size) ==
  [type |-> base, ptr_level |-> ptr, bytes |-> IF ptr > 0 THEN 8 ELSE size,
   ptr_value_bytes |-> IF ptr > 0 THEN size ELSE 0]

\* The type of a declaration; a structure may not have been complete there.
Declared(ctype) ==
  VarType(ctype[1], ctype[2], IF ctype[1] \in Structs THEN 0 ELSE Sizes[ctype[1]])

Complete(ctype) == VarType(ctype[1], ctype[2], Sizes[ctype[1]])

\* A new node, from calloc.
NoType == VarType("void", 0, 0)
NoStruct == "none"

GetDerefVarTypeMutant(cast) ==
  [cast EXCEPT !.ptr_level = @ - 1, !.bytes = cast.ptr_value_bytes]

GetDerefVarType(cast) ==
  [cast EXCEPT !.ptr_level = @ - 1,
               !.bytes = IF cast.ptr_level = 1 THEN cast.ptr_value_bytes ELSE @]

Width(cast) == cast.bytes + (IF cast.type = "double" THEN 8 ELSE 0)

ReturnWiderType(type1, type2) ==
  IF (IF type1.type \in Structs THEN 0 ELSE Width(type1)) > Width(type2) THEN type1 ELSE type2

\* The size of a structure, looked up again where it is used.
Sized(cast) ==
  IF cast.type \notin Structs THEN cast
  ELSE IF cast.ptr_level = 0 THEN [cast EXCEPT !.bytes = Sizes[cast.type]]
  ELSE [cast EXCEPT !.ptr_value_bytes = Sizes[cast.type]]

PointedSized(cast) ==
  IF cast.type \in Structs THEN [cast EXCEPT !.ptr_value_bytes = Sizes[cast.type]] ELSE cast

StructOfMutant(cast, otherwise) == cast.type

\* The structure whose members are looked up next, the old one when there is none.
StructOf(cast, otherwise) == IF cast.type \in Structs THEN cast.type ELSE otherwise

-----------------------------------------------------------------------------
(* Parsing: a node and the place of the next token come out.  A parse_error *)
(* goes to the end of the tokens, where nothing more can be parsed.         *)

Node(op, name, args, cast, struct) ==
  [op |-> op, name |-> name, args |-> args, cast |-> cast, struct |-> struct]

Parsed(n, pos) == [node |-> n, pos |-> pos]

EndToken == [kind |-> "end", str |-> "end"]

TokenAt(pos) == IF pos \in DOMAIN tokens THEN tokens[pos] ELSE EndToken

Accept(pos, kind, str) == TokenAt(pos) = [kind |-> kind, str |-> str]

Error == Node("error", "", << >>, NoType, NoStruct)

ParseError == Parsed(Error, Len(tokens) + 1)

\* The node n becomes what holds before the token behind it is accepted.
Expect(n, pos, str) == IF Accept(pos, "delim", str) THEN Parsed(n, pos + 1) ELSE ParseError

StructMember(n, pos) ==
  LET member == TokenAt(pos).str
      found == n.struct \in Structs /\ member \in DOMAIN Members[n.struct]
      type == Declared(Members[n.struct][member])
  IN IF \/ n.cast.type \notin Structs \/ n.cast.ptr_level > 0
        \/ TokenAt(pos).kind # "ident" \/ ~found
     THEN ParseError
     ELSE Parsed(Node("member", member, <<n>>, Sized(type), StructOf(type, n.struct)), pos + 1)

StructPtrMember(n, pos) ==
  StructMember(Node("deref", "", <<n>>, PointedSized(GetDerefVarType(n.cast)), n.struct), pos)

Indexing(n, index) ==
  LET type == PointedSized(ReturnWiderType(index.cast, n.cast))
      add == Node("add", "", <<n, index>>, type, NoStruct)
  IN Node("deref", "", <<add>>, GetDerefVarType(type), n.struct)

BinaryNode(op, lhs, rhs) ==
  LET type == IF op \in Assignments THEN lhs.cast ELSE ReturnWiderType(rhs.cast, lhs.cast)
      n == Node(op, "", <<lhs, rhs>>, type, lhs.struct)
      int == [type EXCEPT !.type = "long", !.ptr_level = 0, !.bytes = 8]
  IN IF op \in Comparisons THEN Node("cast", "", <<n>>, int, n.struct) ELSE n

UnaryNode(op, rhs) ==
  LET Of(type, struct) == Node(op, "", <<rhs>>, type, struct)
      addr == [rhs.cast EXCEPT !.ptr_level = @ + 1,
                               !.ptr_value_bytes = IF rhs.cast.ptr_level = 0 THEN rhs.cast.bytes
                                                   ELSE @]
      type == GetDerefVarType(rhs.cast)
      struct == IF rhs.cast.ptr_level = 1 THEN rhs.struct ELSE NoStruct
  IN CASE op = "addr" -> Of(addr, NoStruct)
       [] op = "deref" /\ rhs.cast.ptr_level = 0 -> Error
       [] op = "deref" /\ type.ptr_level = 0 -> Of(Sized(type), StructOf(type, struct))
       [] op = "deref" -> Of(type, struct)
       [] OTHER -> Of(rhs.cast, NoStruct)

\* parse_literal
LiteralTypes ==
  [int |-> VarType("long", 0, 0), float |-> VarType("double", 0, 0),
   char |-> [VarType("long", 0, 0) EXCEPT !.ptr_level = 1], string |-> VarType("long", 0, 0)]

RECURSIVE ParseExpression(_, _), ParseAtom(_), Primary(_), ParseUnaryOp(_, _),
          HighPrecedence(_), PostUnary(_), Climb(_, _), Arguments(_, _, _)

ParseExpression(pos, min) == Climb(HighPrecedence(ParseAtom(pos)), min)

\* The loop of parse_expression.
Climb(left, min) ==
  LET token == TokenAt(left.pos)
      op == BinaryOps[token.str]
      right == ParseExpression(left.pos + 1,
                               Precedence(op) + (IF op \in Assignments THEN 0 ELSE 1))
  IN IF token.kind # "op" THEN left
     ELSE IF token.str \notin DOMAIN BinaryOps THEN ParseError
     ELSE IF Precedence(op) < min THEN left
     ELSE Climb(Parsed(BinaryNode(op, left.node, right.node), right.pos), min)

\* parse_high_precedence_binary_operators
HighPrecedence(left) ==
  LET index == ParseExpression(left.pos + 1, 1)
  IN IF Accept(left.pos, "delim", "[")
     THEN HighPrecedence(Expect(Indexing(left.node, index.node), index.pos, "]"))
     ELSE IF Accept(left.pos, "delim", ".")
     THEN HighPrecedence(StructMember(left.node, left.pos + 1))
     ELSE IF Accept(left.pos, "op", "arrow")
     THEN HighPrecedence(StructPtrMember(left.node, left.pos + 1))
     ELSE left

\* parse_func_call: its arguments, from the place behind the parenthesis.
Arguments(func, args, pos) ==
  LET arg == ParseExpression(pos, 1)
      next == IF Accept(arg.pos, "delim", ",") THEN arg.pos + 1 ELSE arg.pos
      type == Complete(Funcs[func].type)
  IN IF Accept(pos, "delim", ")")
     THEN Parsed(Node("call", func, args, type, StructOf(type, NoStruct)), pos + 1)
     ELSE IF Len(args) + 1 > Funcs[func].params \/ pos > Len(tokens) THEN ParseError
     ELSE Arguments(func, Append(args, arg.node), next)

\* What parse_expression_atom reads before the postfix operators.
Primary(pos) ==
  LET token == TokenAt(pos)
      type == Declared(Vars[token.str])
      parens == ParseExpression(pos + 1, 1)
      casted == ParseAtom(pos + 3)
      cast == TokenAt(pos + 1).str
  IN CASE token.kind = "literal" ->
            Parsed(Node("literal", token.str, << >>, LiteralTypes[token.str], NoStruct), pos + 1)
       [] token.kind = "ident" /\ Accept(pos + 1, "delim", "(") ->
            Arguments(token.str, << >>, pos + 2)
       [] token.kind = "ident" /\ ~Accept(pos + 1, "delim", "(") ->
            HighPrecedence(Parsed(Node("var", token.str, << >>, Sized(type),
                                       StructOf(type, NoStruct)), pos + 1))
       [] Accept(pos, "delim", "(") /\ TokenAt(pos + 1).kind # "type" ->
            Expect(parens.node, parens.pos, ")")
       [] Accept(pos, "delim", "(") /\ TokenAt(pos + 1).kind = "type" ->
            IF ~Accept(pos + 2, "delim", ")") THEN ParseError
            ELSE Parsed(Node("cast", "", <<casted.node>>, Complete(Types[cast]), NoStruct), casted.pos)
       [] token.kind = "op" /\ token.str \in DOMAIN PrefixOps ->
            ParseUnaryOp(PrefixOps[token.str], pos + 1)
       [] Accept(pos, "delim", ")") -> Parsed(Node("null", "", << >>, NoType, NoStruct), pos)
       [] OTHER -> ParseError

ParseUnaryOp(op, pos) ==
  LET rhs == ParseAtom(pos)
      size(operand) == Node("sizeof", "", <<operand>>, VarType("long", 0, 8), NoStruct)
      type == Node("type", "", << >>, Complete(Types[TokenAt(pos + 1).str]), NoStruct)
  IN IF op # "sizeof" THEN Parsed(UnaryNode(op, rhs.node), rhs.pos)
     ELSE IF ~Accept(pos, "delim", "(") THEN ParseError
     ELSE IF TokenAt(pos + 1).kind = "type" THEN Expect(size(type), pos + 2, ")")
     ELSE Parsed(size(rhs.node), rhs.pos)

PostUnary(left) ==
  LET token == TokenAt(left.pos)
  IN IF token.kind = "op" /\ token.str \in DOMAIN PostfixOps
     THEN PostUnary(Parsed([left.node EXCEPT !.op = PostfixOps[token.str], !.name = "",
                                             !.args = <<left.node>>], left.pos + 1))
     ELSE left

\* parse_expression_atom
ParseAtom(pos) == PostUnary(Primary(pos))

-----------------------------------------------------------------------------
(* The expression, written down *)

Tok(kind, str) == <<[kind |-> kind, str |-> str]>>

TokenOf(op, ops) == Tok("op", CHOOSE str \in DOMAIN ops : ops[str] = op)

InParens(seq) == Tok("delim", "(") \o seq \o Tok("delim", ")")

IsIn(op, ops) == \E str \in DOMAIN ops : ops[str] = op

Operands(e) ==
  CASE e[1] \in {"var", "literal", "sizeof_type"} -> << >>
    [] e[1] = "call" -> e[3]
    [] e[1] = "cast" -> <<e[3]>>
    [] e[1] \in {"member", "arrow"} \/ Len(e) = 2 -> <<e[2]>>
    [] OTHER -> <<e[2], e[3]>>

RECURSIVE Written(_)

Written(e) ==
  CASE e[1] = "var" -> Tok("ident", e[2])
    [] e[1] = "literal" -> Tok("literal", e[2])
    [] e[1] = "paren" -> InParens(Written(e[2]))
    [] e[1] = "call" ->
         LET Comma(seq, arg) == IF seq = << >> THEN Written(arg)
                                ELSE seq \o Tok("delim", ",") \o Written(arg)
         IN Tok("ident", e[2]) \o InParens(FoldLeft(Comma, << >>, e[3]))
    [] e[1] = "index" -> Written(e[2]) \o Tok("delim", "[") \o Written(e[3]) \o Tok("delim", "]")
    [] e[1] = "member" -> Written(e[2]) \o Tok("delim", ".") \o Tok("ident", e[3])
    [] e[1] = "arrow" -> Written(e[2]) \o Tok("op", "arrow") \o Tok("ident", e[3])
    [] e[1] = "cast" -> InParens(Tok("type", e[2])) \o Written(e[3])
    [] e[1] = "sizeof_type" -> Tok("op", "sizeof") \o InParens(Tok("type", e[2]))
    [] IsIn(e[1], PrefixOps) -> TokenOf(e[1], PrefixOps) \o Written(e[2])
    [] IsIn(e[1], PostfixOps) -> Written(e[2]) \o TokenOf(e[1], PostfixOps)
    [] OTHER -> Written(e[2]) \o TokenOf(e[1], BinaryOps) \o Written(e[3])

-----------------------------------------------------------------------------
(* What C says of it *)

RECURSIVE CType(_)

\* The type of e: exact for objects, pointers, structures and doubles.
CType(e) ==
  LET Other(i) == CType(e[i])
      Either(type) == Other(2) = type \/ Other(3) = type
  IN CASE e[1] = "var" -> Vars[e[2]]
       [] e[1] = "call" -> Funcs[e[2]].type
       [] e[1] = "cast" -> Types[e[2]]
       [] e[1] = "member" -> Members[Other(2)[1]][e[3]]
       [] e[1] = "arrow" -> Members[Other(2)[1]][e[3]]
       [] e[1] \in {"deref", "index"} -> <<Other(2)[1], Other(2)[2] - 1>>
       [] e[1] = "addr" -> <<Other(2)[1], Other(2)[2] + 1>>
       [] e[1] \in Assignments \union {"paren", "pre_incr", "pre_decr", "post_incr", "post_decr"} ->
            Other(2)
       [] e[1] \in {"add", "sub", "mul", "div"} ->
            IF Either(<<"double", 0>>) THEN <<"double", 0>>
            ELSE IF e[1] = "sub" /\ Other(3)[2] > 0 THEN <<"long", 0>>
            ELSE IF Other(2)[2] > 0 THEN Other(2)
            ELSE IF Other(3)[2] > 0 THEN Other(3) ELSE <<"int", 0>>
       [] e = <<"literal", "string">> -> <<"char", 1>>
       [] e = <<"literal", "float">> -> <<"double", 0>>
       [] e[1] = "neg" /\ Other(2) = <<"double", 0>> -> Other(2)
       [] OTHER -> <<"int", 0>>

(***************************************************************************)
(* The expressions the parser gets right.  It reads a postfix operator     *)
(* into the operand of a prefix operator only when the operand begins with *)
(* a variable, and a ++ or -- before the other postfix operators.  It      *)
(* knows the structure of an operand only by the variable or call it       *)
(* begins with, and a pointer type only when it is the wider one.          *)
(***************************************************************************)
Postfix == {"index", "member", "arrow"}

RECURSIVE OnVariable(_), Atomic(_), FromAddress(_), StructKnown(_), Plain(_)

OnVariable(e) == e[1] = "var" \/ (e[1] \in Postfix /\ OnVariable(e[2]))

Atomic(e) ==
  /\ e[1] \in Postfix => OnVariable(e[2])
  /\ IsIn(e[1], PostfixOps) => Atomic(e[2])

FromAddress(e) ==
  (e[1] = "addr" /\ CType(e)[2] = 1) \/ (e[1] \in {"paren", "add", "sub"} /\ FromAddress(e[2]))

StructKnown(e) ==
  \/ e[1] \in {"var", "call", "member", "arrow"}
  \/ e[1] = "deref" /\ CType(e)[2] = 0
  \/ /\ e[1] \in Assignments \union {"paren", "index", "add", "sub", "post_incr", "post_decr"}
     /\ StructKnown(e[2])

PlainNode(e) ==
  /\ IsIn(e[1], PrefixOps) \/ IsIn(e[1], PostfixOps) => Atomic(e[2])
  /\ e[1] = "cast" => Atomic(e[3])
  /\ e[1] \in Postfix => e[2][1] \in Postfix \/ Atomic(e[2])
  /\ e[1] \in {"member", "arrow"} => StructKnown(e[2])
  /\ e[1] \in {"add", "sub", "index"} =>
       ~FromAddress(e[2]) /\ CType(e[2])[2] >= CType(e[3])[2]

Plain(e) == PlainNode(e) /\ \A i \in DOMAIN Operands(e) : Plain(Operands(e)[i])

-----------------------------------------------------------------------------
(* The parser is called on one of the expressions, written down. *)

Unparsed == Node("unparsed", "", << >>, NoType, NoStruct)

Begin(exprs) == expr \in exprs /\ tokens = Written(expr) /\ node = Unparsed

RECURSIVE HasError(_)

HasError(n) == n.op = "error" \/ \E i \in DOMAIN n.args : HasError(n.args[i])

\* The compiler exits at the first error.
Parse ==
  /\ node = Unparsed
  /\ LET result == ParseExpression(1, 1)
     IN node' = IF HasError(result.node) \/ result.pos <= Len(tokens) THEN Error ELSE result.node
  /\ UNCHANGED <<expr, tokens>>

================================================================================
