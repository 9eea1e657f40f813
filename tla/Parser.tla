------------------------------- MODULE Parser -------------------------------
(***************************************************************************)
(* src/parser/mod.rs: recursive descent over the tokens of Lexer.          *)
(*                                                                         *)
(* A parse function takes the tokens t and a position p and gives          *)
(* [v, p]: the node and the position behind it.  Position 0 stands for an  *)
(* error: there is no token there, so whatever goes on from it fails too.  *)
(* The names are those of the source without parse_.                       *)
(***************************************************************************)
EXTENDS Lexer, Ast

Got(v, p) == [v |-> v, p |-> p]

Failed == Got(<<>>, 0)

-----------------------------------------------------------------------------
(* Token helpers.  The last token is "eof" and is never passed.            *)

Is(t, p, kinds) == p # 0 /\ t[p].k \in kinds

\* peek2
IsNext(t, p, kinds) == p # 0 /\ t[IF p = Len(t) THEN p ELSE p + 1].k \in kinds

Eat(t, p, kind) == IF Is(t, p, {kind}) THEN p + 1 ELSE p

Expect(t, p, kind) == IF Is(t, p, {kind}) THEN p + 1 ELSE 0

\* The first position from p on that holds another kind.
Past(t, p, kinds) ==
  IF p = 0 THEN 0
  ELSE CHOOSE q \in p .. Len(t) : t[q].k \notin kinds /\ \A r \in p .. q - 1 : t[r].k \in kinds

Newlines(t, p) == Past(t, p, {"newline"})

Terminators(t, p) == Past(t, p, {"newline", ";"})

Name(t, p) == IF Is(t, p, {"ident"}) THEN Got(t[p].v, p + 1) ELSE Failed

\* A path a::b::c is the name <<"a::b", "c">>.
RECURSIVE Segments(_, _, _)
Segments(t, p, name) ==
  LET next == Name(t, p + 1)
  IN IF Is(t, p, {"::"})
     THEN Segments(t, next.p, <<IF name[1] = "" THEN name[2] ELSE name[1] \o "::" \o name[2], next.v>>)
     ELSE Got(name, p)

\* The name of something that may be namespaced.
PathName(t, p) == LET first == Name(t, p) IN Segments(t, first.p, <<"", first.v>>)

-----------------------------------------------------------------------------

\* All nonterminals that are part of each other, so that there is one recursion.
RECURSIVE Parse(_, _, _)

\* item { "," item }, up to the closing token, with line ends around each item.
RECURSIVE Items(_, _, _)
Items(item, t, p) ==
  LET first == Parse(item, t, p)
      end == Newlines(t, first.p)
      rest == Items(item, t, Newlines(t, end + 1))
  IN IF Is(t, end, {","}) THEN Got(<<first.v>> \o rest.v, rest.p) ELSE Got(<<first.v>>, end)

\* "(" [ items ] ")", at the position behind the opening token.
Listed(item, t, p, close) ==
  LET start == Newlines(t, p)
      items == Items(item, t, start)
  IN IF Is(t, start, {close}) THEN Got(<<>>, start + 1)
     ELSE Got(items.v, Expect(t, items.p, close))

\* { item }, separated by line ends, semicolons and, where they are allowed, commas, at the
\* position behind the opening brace.
Commas(item) == item \in {"expr", "pair", "field", "member"}

RECURSIVE Braced(_, _, _)
Braced(item, t, p) ==
  LET start == Terminators(t, p)
      first == Parse(item, t, start)
      end == Terminators(t, first.p)
      rest == Braced(item, t, IF Commas(item) THEN Eat(t, end, ",") ELSE end)
  IN CASE Is(t, start, {"}"}) -> Got(<<>>, start + 1)
       [] ~Is(t, start, {"}"}) /\ first.p # 0 -> Got(<<first.v>> \o rest.v, rest.p)
       [] OTHER -> Failed

ParseBlock(t, p) == Braced("stmt", t, Expect(t, p, "{"))

\* name [ ":" type ], of parameters and variables.
ParseParam(t, p) ==
  LET name == Name(t, p)
      colon == Newlines(t, name.p)
      type == Parse("type", t, colon + 1)
  IN IF Is(t, colon, {":"}) THEN Got(Param(name.v, type.v), type.p)
     ELSE Got(Param(name.v, NoType), colon)

\* name ":" what, of struct fields and of the fields of a literal.
Labelled(what, t, p) ==
  LET name == Name(t, p)
      value == Parse(what, t, Expect(t, name.p, ":"))
  IN Got(<<name.v, value.v>>, value.p)

-----------------------------------------------------------------------------
(* Types.                                                                  *)

TypeWords == [bool |-> TBool, int |-> TInt, float |-> TFloat, String |-> TStr, string |-> TStr,
              str |-> TStr, void |-> TVoid]

RECURSIVE MoreTypes(_, _)
MoreTypes(t, p) ==
  LET next == Parse("type", t, p + 1)
      rest == MoreTypes(t, next.p)
  IN IF Is(t, p, {","}) THEN Got(<<next.v>> \o rest.v, rest.p) ELSE Got(<<>>, p)

\* try_parse_type_list, behind its "[".
TypeList(t, p) ==
  LET first == Parse("type", t, p)
      rest == MoreTypes(t, Newlines(t, first.p))
  IN Got(<<first.v>> \o rest.v, Expect(t, Newlines(t, rest.p), "]"))

\* List[T] and Map[K, V].
ContainerType(t, p) ==
  LET first == Parse("type", t, Expect(t, p + 1, "["))
      second == Parse("type", t, Expect(t, Newlines(t, first.p), ","))
      Close(r, type) == Got(type, Expect(t, Newlines(t, r.p), "]"))
  IN IF t[p].v = "Map" THEN Close(second, Map(first.v, second.v)) ELSE Close(first, List(first.v))

NamedType(t, p) ==
  LET trait == PathName(t, Newlines(t, p + 1))
      args == TypeList(t, p + 2)
      path == PathName(t, p)
      word == t[p].v
  IN CASE word \in DOMAIN TypeWords -> Got(TypeWords[word], p + 1)
       [] word = "dyn" -> Got(Trait(trait.v), trait.p)
       [] word \in {"List", "Map"} -> ContainerType(t, p)
       [] OTHER -> IF Is(t, p + 1, {"["}) THEN Got(Generic(word, args.v), args.p)
                   ELSE Got(Named(path.v), path.p)

\* A literal stands for the type it has.
ParseType(t, p) ==
  LET inner == Parse("type", t, p + 1)
      target == Parse("type", t, Eat(t, p + 1, "mut"))
      params == Listed("type", t, p + 1, ")")
      ret == Parse("type", t, Expect(t, params.p, "->"))
  IN CASE Is(t, p, {"number"}) -> Got(TInt, p + 1)
       [] Is(t, p, {"float"}) -> Got(TFloat, p + 1)
       [] Is(t, p, {"string"}) -> Got(TStr, p + 1)
       [] Is(t, p, {"ident"}) -> NamedType(t, p)
       [] Is(t, p, {"["}) -> Got(Array(inner.v), Expect(t, Newlines(t, inner.p), "]"))
       [] Is(t, p, {"&"}) -> Got(Ptr(Is(t, p + 1, {"mut"}), target.v), target.p)
       [] Is(t, p, {"("}) -> Got(Fn(params.v, ret.v), ret.p)
       [] OTHER -> Failed

\* [ "->" type ]
ParseResult(t, p) ==
  LET arrow == Newlines(t, p)
  IN IF Is(t, arrow, {"->"}) THEN Parse("type", t, arrow + 1) ELSE Got(TVoid, arrow)

-----------------------------------------------------------------------------
(* Expressions.                                                            *)

AssignOps == {"=", "+=", "-=", "*=", "/=", "%="}

\* x op= e is x = x op e.
Assigned(op, l, r) ==
  Assign(l, CASE op = "=" -> r
              [] op = "+=" -> Binary("+", l, r)
              [] op = "-=" -> Binary("-", l, r)
              [] op = "*=" -> Binary("*", l, r)
              [] op = "/=" -> Binary("/", l, r)
              [] op = "%=" -> Binary("%", l, r))

ParseAssign(t, p) ==
  LET l == Parse("ternary", t, Newlines(t, p))
      r == Parse("expr", t, l.p + 1)
  IN IF Is(t, l.p, AssignOps) THEN Got(Assigned(t[l.p].k, l.v, r.v), r.p) ELSE l

\* Mutant: && and || in one row.
LevelsOfLogic ==
  <<{"||", "&&"}, {"==", "!="}, {"<", "<=", ">", ">="}, {"+", "-"}, {"*", "/", "%"}>>

\* The binary operators, a row for each function from parse_or to parse_multiplicative.
Levels == <<{"||"}, {"&&"}, {"==", "!="}, {"<", "<=", ">", ">="}, {"+", "-"}, {"*", "/", "%"}>>

RECURSIVE ParseLevel(_, _, _), Operands(_, _, _, _)

ParseLevel(n, t, p) ==
  LET first == ParseLevel(n + 1, t, p)
  IN IF n > Len(Levels) THEN Parse("unary", t, p) ELSE Operands(n, first.v, t, first.p)

Operands(n, l, t, p) ==
  LET r == ParseLevel(n + 1, t, p + 1)
  IN IF Is(t, p, Levels[n]) THEN Operands(n, Binary(t[p].k, l, r.v), t, r.p) ELSE Got(l, p)

ParseTernary(t, p) ==
  LET c == ParseLevel(1, t, p)
      l == ParseLevel(1, t, Newlines(t, c.p + 1))
      r == Parse("ternary", t, Newlines(t, Expect(t, l.p, ":")))
  IN IF Is(t, c.p, {"?"}) THEN Got(Ternary(c.v, l.v, r.v), r.p) ELSE c

\* e++ and ++e are both e = e + 1.
Stepped(op, e) == Assign(e, Binary(IF op = "++" THEN "+" ELSE "-", e, IntLit(1)))

ParseUnary(t, p) ==
  LET e == Parse("unary", t, p + 1)
      target == Parse("unary", t, Eat(t, p + 1, "mut"))
  IN CASE Is(t, p, {"-", "!", "*"}) -> Got(Unary(t[p].k, e.v), e.p)
       [] Is(t, p, {"&"}) ->
            Got(Unary(IF Is(t, p + 1, {"mut"}) THEN "&mut" ELSE "&", target.v), target.p)
       [] Is(t, p, {"++", "--"}) -> Got(Stepped(t[p].k, e.v), e.p)
       [] OTHER -> Parse("postfix", t, p)

\* What follows a primary expression.
RECURSIVE Postfixes(_, _, _)
Postfixes(e, t, p) ==
  LET args == Listed("expr", t, p + 1, ")")
      member == Name(t, p + 1)
      passed == Listed("expr", t, member.p + 1, ")")
      index == Parse("expr", t, p + 1)
  IN CASE Is(t, p, {"("}) -> Postfixes(Call(e, args.v), t, args.p)
       [] Is(t, p, {"."}) ->
            IF Is(t, member.p, {"("}) THEN Postfixes(Method(e, member.v, passed.v), t, passed.p)
            ELSE Postfixes(Field(e, member.v), t, member.p)
       [] Is(t, p, {"["}) ->
            Postfixes(Index(e, index.v), t, Expect(t, Newlines(t, index.p), "]"))
       [] Is(t, p, {"++", "--"}) -> Postfixes(Stepped(t[p].k, e), t, p + 1)
       [] OTHER -> Got(e, p)

ParsePostfix(t, p) == LET e == Parse("primary", t, p) IN Postfixes(e.v, t, e.p)

\* The parts of an interpolated string are texts of their own; what follows the
\* expression in a part is not looked at.
PartOf(lexed) == IF lexed.ok THEN Parse("expr", NoNewlines(lexed.toks), 1) ELSE Failed

Assembled(parts, p) ==
  IF \E n \in DOMAIN parts : parts[n].p = 0 THEN Failed
  ELSE Got(Interp([n \in DOMAIN parts |-> parts[n].v]), p + 1)

ParseInterp(t, p) ==
  Assembled([n \in DOMAIN t[p].v |->
               IF t[p].v[n][1] = "text" THEN Got(StrLit(t[p].v[n][2]), 1)
               ELSE PartOf(Tokenize(t[p].v[n][2]))], p)

\* Map[K, V] { k: v } and List[T] { e }; the types are dropped.
ParseContainer(t, p) ==
  LET type == ContainerType(t, p)
      open == Expect(t, Newlines(t, type.p), "{")
      pairs == Braced("pair", t, open)
      elems == Braced("expr", t, open)
  IN IF t[p].v = "Map" THEN Got(MapLit(pairs.v), pairs.p) ELSE Got(ListLit(elems.v), elems.p)

ParseStructLit(name, t, p) ==
  LET fields == Braced("field", t, p + 1) IN Got(StructLit(name, fields.v), fields.p)

\* m::f, or m::S { }, which may begin on a later line.
ParsePath(t, p) ==
  LET path == PathName(t, p)
      end == Newlines(t, path.p)
  IN IF Is(t, end, {"{"}) THEN ParseStructLit(path.v, t, end)
     ELSE Got(Path(path.v[1], path.v[2]), end)

\* Mutant: what was read as types is not given back.
ParseGenericKept(t, p) ==
  LET types == TypeList(t, p + 2)
      end == Newlines(t, types.p)
      args == Listed("expr", t, end + 1, ")")
      fields == Braced("field", t, end + 1)
  IN CASE Is(t, end, {"("}) -> Got(GenericCall(t[p].v, types.v, args.v), args.p)
       [] Is(t, end, {"{"}) -> Got(GenericLit(t[p].v, types.v, fields.v), fields.p)
       [] types.p # 0 /\ ~Is(t, end, {"(", "{"}) -> Got(Ident(t[p].v), types.p)
       [] OTHER -> Got(Ident(t[p].v), p + 1)

\* f[T](x) and S[T] { }, if what is between the brackets can be read as types and a "(" or
\* "{" comes next; else the name alone, to which an index follows.
ParseGeneric(t, p) ==
  LET types == TypeList(t, p + 2)
      end == Newlines(t, types.p)
      args == Listed("expr", t, end + 1, ")")
      fields == Braced("field", t, end + 1)
  IN CASE Is(t, end, {"("}) -> Got(GenericCall(t[p].v, types.v, args.v), args.p)
       [] Is(t, end, {"{"}) -> Got(GenericLit(t[p].v, types.v, fields.v), fields.p)
       [] OTHER -> Got(Ident(t[p].v), p + 1)

ParseName(t, p) ==
  CASE IsNext(t, p, {"::"}) -> ParsePath(t, p)
    [] IsNext(t, p, {"["}) ->
         IF t[p].v \in {"Map", "List"} THEN ParseContainer(t, p) ELSE ParseGeneric(t, p)
    [] IsNext(t, p, {"{"}) -> ParseStructLit(<<NoModule, t[p].v>>, t, p + 1)
    [] OTHER -> Got(Ident(t[p].v), p + 1)

\* |x: T| -> R body
ParseClosure(t, p) ==
  LET params == Listed("param", t, p + 1, "|")
      ret == ParseResult(t, params.p)
      start == Newlines(t, ret.p)
      block == ParseBlock(t, start)
      e == Parse("expr", t, start)
  IN IF Is(t, start, {"{"}) THEN Got(Closure(params.v, ret.v, Block(block.v)), block.p)
     ELSE Got(Closure(params.v, ret.v, e.v), e.p)

\* The condition of if and while, in parentheses or not.
ParseCondition(t, p) ==
  LET start == Newlines(t, p)
      paren == Is(t, start, {"("})
      c == Parse("expr", t, IF paren THEN start + 1 ELSE start)
  IN Got(c.v, IF paren THEN Expect(t, c.p, ")") ELSE c.p)

\* The branches of an if expression are primary expressions.
ParseIfExpr(t, p) ==
  LET c == ParseCondition(t, p + 1)
      l == Parse("primary", t, Newlines(t, c.p))
      end == Newlines(t, l.p)
      r == Parse("primary", t, Newlines(t, end + 1))
  IN IF Is(t, end, {"else"}) THEN Got(IfExpr(c.v, l.v, r.v), r.p) ELSE Got(IfOnly(c.v, l.v), end)

ParsePrimary(t, p) ==
  LET elems == Listed("expr", t, p + 1, "]")
      inner == Parse("expr", t, p + 1)
      block == ParseBlock(t, p)
  IN CASE Is(t, p, {"number"}) -> Got(IntLit(t[p].v), p + 1)
       [] Is(t, p, {"float"}) -> Got(FloatLit(t[p].v), p + 1)
       [] Is(t, p, {"true", "false"}) -> Got(BoolLit(t[p].k = "true"), p + 1)
       [] Is(t, p, {"null"}) -> Got(NullLit, p + 1)
       [] Is(t, p, {"string"}) -> Got(StrLit(t[p].v), p + 1)
       [] Is(t, p, {"interp"}) -> ParseInterp(t, p)
       [] Is(t, p, {"this"}) -> Got(Ident("this"), p + 1)
       [] Is(t, p, {"ident"}) -> ParseName(t, p)
       [] Is(t, p, {"["}) -> Got(ListLit(elems.v), elems.p)
       [] Is(t, p, {"("}) -> Got(inner.v, Expect(t, Newlines(t, inner.p), ")"))
       [] Is(t, p, {"|"}) -> ParseClosure(t, p)
       [] Is(t, p, {"{"}) -> Got(Block(block.v), block.p)
       [] Is(t, p, {"if"}) -> ParseIfExpr(t, p)
       [] OTHER -> Failed

-----------------------------------------------------------------------------
(* Statements.                                                             *)

ParseLet(t, p) ==
  LET var == ParseParam(t, p + 1)
      eq == Newlines(t, var.p)
      e == Parse("expr", t, eq + 1)
  IN IF Is(t, eq, {"="}) THEN Got(Let(var.v.name, var.v.ty, e.v), e.p)
     ELSE Got(Let(var.v.name, var.v.ty, NullLit), eq)

\* stmt_end: a return has a value only if it begins on the same line.
ParseReturn(t, p) ==
  LET e == Parse("expr", t, p)
  IN IF Is(t, p, {"newline", ";", "}", "eof"}) THEN Got(ReturnVoid, p) ELSE Got(Return(e.v), e.p)

ParseIf(t, p) ==
  LET c == ParseCondition(t, p + 1)
      then == ParseBlock(t, Newlines(t, c.p))
      end == Terminators(t, then.p)
      start == Newlines(t, end + 1)
      nested == Parse("stmt", t, start)
      else == ParseBlock(t, start)
  IN IF ~Is(t, end, {"else"}) THEN Got(If(c.v, then.v, <<>>), end)
     ELSE IF Is(t, start, {"if"}) THEN Got(If(c.v, then.v, <<nested.v>>), nested.p)
     ELSE Got(If(c.v, then.v, else.v), else.p)

ParseWhile(t, p) ==
  LET c == ParseCondition(t, p + 1)
      body == ParseBlock(t, Newlines(t, c.p))
  IN Got(While(c.v, body.v), body.p)

\* A part of a for loop's head: nothing if the closing token is there.
OrAbsent(t, p, close) == IF Is(t, p, {close}) THEN Got(Absent, p) ELSE Parse("expr", t, p)

ParseFor(t, p) ==
  LET open == Newlines(t, p + 1)
      paren == Is(t, open, {"("})
      start == Eat(t, open, "(")
      first == Parse(IF Is(t, start, {"var"}) THEN "stmt" ELSE "effect", t, start)
      init == IF Is(t, start, {";"}) THEN Got(<<>>, start) ELSE Got(<<first.v>>, first.p)
      c == OrAbsent(t, Expect(t, init.p, ";"), ";")
      step == OrAbsent(t, Expect(t, c.p, ";"), ")")
      body == ParseBlock(t, Newlines(t, IF paren THEN Expect(t, step.p, ")") ELSE step.p))
  IN Got(For(init.v, c.v, step.v, body.v), body.p)

\* catch (name) block
ParseCatch(t, p) ==
  LET name == Name(t, Expect(t, Newlines(t, p + 1), "("))
      body == ParseBlock(t, Newlines(t, Expect(t, Newlines(t, name.p), ")")))
  IN Got(<<<<name.v, body.v>>>>, body.p)

ParseTry(t, p) ==
  LET body == ParseBlock(t, Newlines(t, p + 1))
      end == Terminators(t, body.p)
      catch == IF Is(t, end, {"catch"}) THEN ParseCatch(t, end) ELSE Got(<<>>, end)
      after == Terminators(t, catch.p)
      block == ParseBlock(t, Newlines(t, after + 1))
      finally == IF Is(t, after, {"finally"}) THEN Got(<<block.v>>, block.p) ELSE Got(<<>>, after)
  IN IF catch.v = <<>> /\ finally.v = <<>> THEN Failed
     ELSE Got(Try(body.v, catch.v, finally.v), finally.p)

AnnValue(t, p) ==
  CASE Is(t, p, {"number", "float", "string", "ident"}) -> Got(<<t[p].k, t[p].v>>, p + 1)
    [] Is(t, p, {"-"}) /\ Is(t, p + 1, {"number"}) -> Got(<<"number", -t[p + 1].v>>, p + 2)
    [] Is(t, p, {"-"}) /\ Is(t, p + 1, {"float"}) -> Got(<<"float", "-" \o t[p + 1].v>>, p + 2)
    [] OTHER -> Failed

\* key = value, or a value alone.
ParseAnnArg(t, p) ==
  LET named == Is(t, p, {"ident"}) /\ IsNext(t, p, {"="})
      value == AnnValue(t, IF named THEN p + 2 ELSE p)
  IN Got(<<IF named THEN t[p].v ELSE "", value.v>>, value.p)

RECURSIVE ParseAnnotations(_, _)
ParseAnnotations(t, p) ==
  LET name == Name(t, p + 1)
      args == IF Is(t, name.p, {"("}) THEN Listed("annarg", t, name.p + 1, ")")
              ELSE Got(<<>>, name.p)
      rest == ParseAnnotations(t, args.p)
  IN IF Is(t, p, {"@"}) THEN Got(<<Annotation(name.v, args.v)>> \o rest.v, rest.p) ELSE Got(<<>>, p)

ParseEffect(t, p) == LET e == Parse("expr", t, p) IN Got(Expr(e.v), e.p)

\* Of several annotations in front of each other the first is the directive.
ParseStmt(t, p) ==
  LET thrown == Parse("expr", t, p + 1)
      anns == ParseAnnotations(t, p)
  IN CASE Is(t, p, {"var"}) -> ParseLet(t, p)
       [] Is(t, p, {"return"}) -> ParseReturn(t, p + 1)
       [] Is(t, p, {"if"}) -> ParseIf(t, p)
       [] Is(t, p, {"while"}) -> ParseWhile(t, p)
       [] Is(t, p, {"for"}) -> ParseFor(t, p)
       [] Is(t, p, {"break"}) -> Got(Break, p + 1)
       [] Is(t, p, {"continue"}) -> Got(Continue, p + 1)
       [] Is(t, p, {"@"}) -> Got(Directive(anns.v[1]), anns.p)
       [] Is(t, p, {"try"}) -> ParseTry(t, p)
       [] Is(t, p, {"throw"}) -> Got(Throw(thrown.v), thrown.p)
       [] OTHER -> ParseEffect(t, p)

-----------------------------------------------------------------------------
(* Declarations.                                                           *)

\* name [ ":" trait ], of a type parameter.
ParseTypeParam(t, p) ==
  LET name == Name(t, p)
      colon == Newlines(t, name.p)
      bound == PathName(t, Newlines(t, colon + 1))
  IN IF Is(t, colon, {":"}) THEN Got(<<name.v, <<bound.v>>>>, bound.p)
     ELSE Got(<<name.v, <<>>>>, colon)

ParseTypeParams(t, p) ==
  LET params == Items("typeparam", t, Newlines(t, p + 1))
  IN IF Is(t, p, {"["}) THEN Got(params.v, Expect(t, params.p, "]")) ELSE Got(<<>>, p)

ParseParams(t, p) == Listed("param", t, Expect(t, p, "("), ")")

\* The name, parameters and result of a trait's method, behind its func.
ParseSignature(t, p) ==
  LET name == Name(t, p)
      params == ParseParams(t, name.p)
      ret == ParseResult(t, params.p)
  IN Got(TraitMethod(name.v, params.v, ret.v), ret.p)

ParseFunc(t, p, anns) ==
  LET name == Name(t, p + 1)
      tparams == ParseTypeParams(t, name.p)
      params == ParseParams(t, tparams.p)
      ret == ParseResult(t, params.p)
      body == ParseBlock(t, Newlines(t, ret.p))
  IN Got(FuncDecl(FuncDef(NoModule, name.v, params.v, ret.v, body.v), tparams.v, anns), body.p)

\* Classes and impl blocks drop the bounds of their parameters.
Unbounded(params) == [n \in DOMAIN params |-> <<params[n][1], <<>>>>]

ParseStruct(t, p, anns) ==
  LET name == Name(t, p + 1)
      tparams == ParseTypeParams(t, name.p)
      fields == Braced("member", t, Expect(t, Newlines(t, tparams.p), "{"))
      Fields == [n \in DOMAIN fields.v |-> Param(fields.v[n][1], fields.v[n][2])]
  IN Got(StructDecl(StructDef(NoModule, name.v, Fields), Unbounded(tparams.v), anns), fields.p)

ParseExtern(t, p) ==
  LET abi == IF Is(t, p + 1, {"string"}) THEN Got(t[p + 1].v, p + 2) ELSE Got("arrow", p + 1)
      sig == ParseSignature(t, Eat(t, abi.p, "func"))
  IN Got(ExternDecl(NoModule, abi.v, sig.v.name, sig.v.params, sig.v.ret), Terminators(t, sig.p))

ParseTrait(t, p) ==
  LET name == Name(t, p + 1)
      methods == Braced("signature", t, Expect(t, Newlines(t, name.p), "{"))
  IN Got(TraitDecl(name.v, methods.v), methods.p)

\* with Type { } and imp Trait for Type { }
ParseImpl(t, p) ==
  LET first == PathName(t, Newlines(t, p + 1))
      for == Newlines(t, first.p)
      second == PathName(t, Newlines(t, for + 1))
      isFor == Is(t, for, {"for"})
      type == CASE isFor -> second
                [] ~isFor /\ Is(t, p, {"with"}) -> Got(first.v, for)
                [] OTHER -> Failed
      tparams == ParseTypeParams(t, type.p)
      methods == Braced("method", t, Expect(t, Newlines(t, tparams.p), "{"))
  IN Got(ImplDecl(NoModule, IF isFor THEN <<first.v>> ELSE <<>>, type.v, Unbounded(tparams.v),
                  methods.v), methods.p)

\* A method of an impl block.
ParseMethod(t, p) ==
  LET anns == ParseAnnotations(t, p)
      func == Newlines(t, anns.p)
  IN IF Is(t, func, {"func"}) THEN ParseFunc(t, func, anns.v) ELSE Failed

\* A declaration behind its annotations, with the kind it belongs to; a kind that takes no
\* annotations drops them.
ParseDeclaration(t, anns, p) ==
  LET Kind(kind, r) == Got([kind |-> kind, v |-> r.v], r.p)
  IN CASE Is(t, p, {"class"}) -> Kind("structs", ParseStruct(t, p, anns))
       [] Is(t, p, {"func"}) -> Kind("funcs", ParseFunc(t, p, anns))
       [] Is(t, p, {"extern"}) -> Kind("externs", ParseExtern(t, p))
       [] Is(t, p, {"module"}) -> Kind("modules", Name(t, p + 1))
       [] Is(t, p, {"import"}) ->
            IF Is(t, p + 1, {"string"}) THEN Kind("imports", Got(t[p + 1].v, p + 2)) ELSE Failed
       [] Is(t, p, {"infs"}) -> Kind("traits", ParseTrait(t, p))
       [] Is(t, p, {"with", "imp"}) -> Kind("impls", ParseImpl(t, p))
       [] Is(t, p, {"var"}) -> Kind("globals", ParseLet(t, p))
       [] OTHER -> Failed

ParseAnnotated(t, p) ==
  LET anns == ParseAnnotations(t, p) IN ParseDeclaration(t, anns.v, Newlines(t, anns.p))

Parse(n, t, p) ==
  LET func == Expect(t, p, "func")
      key == Parse("expr", t, p)
      value == Parse("expr", t, Expect(t, Newlines(t, key.p), ":"))
  IN IF p = 0 THEN Failed
     ELSE CASE n = "expr" -> ParseAssign(t, p)
            [] n = "ternary" -> ParseTernary(t, p)
            [] n = "unary" -> ParseUnary(t, p)
            [] n = "postfix" -> ParsePostfix(t, p)
            [] n = "primary" -> ParsePrimary(t, p)
            [] n = "type" -> ParseType(t, Newlines(t, p))
            [] n = "param" -> ParseParam(t, p)
            [] n = "member" -> Labelled("type", t, p)
            [] n = "field" -> Labelled("expr", t, p)
            [] n = "pair" -> Got(<<key.v, value.v>>, value.p)
            [] n = "annarg" -> ParseAnnArg(t, p)
            [] n = "typeparam" -> ParseTypeParam(t, p)
            [] n = "signature" -> ParseSignature(t, func)
            [] n = "method" -> ParseMethod(t, p)
            [] n = "stmt" -> ParseStmt(t, p)
            [] n = "effect" -> ParseEffect(t, p)
            [] n = "declaration" -> ParseAnnotated(t, p)

-----------------------------------------------------------------------------
(* A program: the declarations of each kind, in order.                     *)

NoDeclarations ==
  [mod |-> NoModule, structs |-> <<>>, funcs |-> <<>>, externs |-> <<>>, modules |-> <<>>,
   imports |-> <<>>, traits |-> <<>>, impls |-> <<>>, globals |-> <<>>]

\* A declaration belongs to the module that the file has named last.
InModule(mod, kind, v) ==
  CASE kind \in {"structs", "funcs"} -> [v EXCEPT !.def.mod = mod]
    [] kind = "externs" -> [v EXCEPT !.mod = mod]
    [] kind = "impls" ->
         [v EXCEPT !.mod = mod,
                   !.methods = [n \in DOMAIN @ |-> [@[n] EXCEPT !.def.mod = mod]]]
    [] OTHER -> v

Declare(prog, d) ==
  [prog EXCEPT ![d.kind] = Append(@, InModule(prog.mod, d.kind, d.v)),
               !.mod = IF d.kind = "modules" THEN d.v ELSE @]

RECURSIVE ParseProgram(_, _, _)
Extended(t, prog, r) == IF r.p = 0 THEN Failed ELSE ParseProgram(t, r.p, Declare(prog, r.v))

ParseProgram(t, p, prog) ==
  LET start == Terminators(t, p)
  IN IF Is(t, start, {"eof"}) THEN Got(prog, start)
     ELSE Extended(t, prog, Parse("declaration", t, start))

\* parse
Parsed(t) == ParseProgram(t, 1, NoDeclarations)
=============================================================================
