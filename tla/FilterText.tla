------------------------------- MODULE FilterText -------------------------------
(***************************************************************************)
(* The language saved filters are written in (filter_expression.rs):       *)
(* render gives a query's text, parse reads one back.  A fault is the      *)
(* value Fault; its column and wording are left out.                       *)
(***************************************************************************)
EXTENDS QueryTree

Fault == [fault |-> TRUE]
Faulty(r) == "fault" \in DOMAIN r

Precedence(op) == CASE op = "or" -> 1 [] op = "xor" -> 2 [] op = "and" -> 3
NotPrecedence == 4
AtomPrecedence == 5
Operator(op) == CASE op = "and" -> "AND" [] op = "or" -> "OR" [] op = "xor" -> "XOR"

-----------------------------------------------------------------------------
(* render                                                                  *)

\* A pattern stands between slashes, its own slashes escaped.
AtomText(atom) ==
    IF atom.lane = "pattern"
    THEN <<"/">> \o FlattenSeq([i \in DOMAIN atom.text |->
              IF atom.text[i] = "/" THEN <<"\\", "/">> ELSE <<atom.text[i]>>]) \o <<"/">>
    ELSE TermText(atom)

Parenthesized(text) == <<"(">> \o text \o <<")">>

EnclosedByPrecedence(child, parent) == child.precedence < Precedence(parent)

\* Whether a group asks for parentheses around a child of it.
Enclosed(child, parent) ==
    \/ child.precedence < Precedence(parent)
    \/ parent = "xor" /\ child.op = "xor"

\* render_expr, render_group and render_child.  A group of one child is its child;
\* an empty one has no text.
RECURSIVE RenderExpr(_)
RenderExpr(expr) ==
    LET core == Core(expr)
        rendered ==
          IF core.kind = "atom"
          THEN [text |-> AtomText(core.atom), precedence |-> AtomPrecedence, op |-> "none"]
          ELSE LET each == [i \in DOMAIN core.children |-> RenderExpr(core.children[i])]
                   text(i) == IF Enclosed(each[i], core.op) THEN Parenthesized(each[i].text)
                              ELSE each[i].text
                   join == <<" ", Operator(core.op), " ">>
               IN  IF core.children = <<>> \/ \E i \in DOMAIN each : Faulty(each[i]) THEN Fault
                   ELSE IF Len(core.children) = 1 THEN each[1]
                   ELSE [text |-> FlattenSeq([i \in DOMAIN each |->
                                     IF i = 1 THEN text(i) ELSE join \o text(i)]),
                         precedence |-> Precedence(core.op), op |-> core.op]
    IN  IF Faulty(rendered) \/ ~Negated(expr) THEN rendered
        ELSE [text |-> <<"~">> \o (IF rendered.precedence < NotPrecedence
                                   THEN Parenthesized(rendered.text) ELSE rendered.text),
              precedence |-> NotPrecedence, op |-> "none"]

Render(query) ==
    IF query = EmptyQuery THEN [text |-> <<>>]
    ELSE RenderExpr(query)

-----------------------------------------------------------------------------
(* lex                                                                     *)

\* bare_end: a word runs to a blank, a Not or a parenthesis it did not open.
RECURSIVE BareLength(_, _)
BareLength(s, open) ==
    IF s = <<>> \/ Head(s) \in {" ", "~"} \/ (Head(s) = ")" /\ open = 0) THEN 0
    ELSE 1 + BareLength(Tail(s), CASE Head(s) = "(" -> open + 1
                                   [] Head(s) = ")" -> open - 1
                                   [] OTHER -> open)

\* QueryAtom::parse of a bare word, and what a word that is a keyword is; any
\* other capital letters are refused.
Keywords == {"AND", "OR", "XOR"}
WordToken(word) ==
    CASE Len(word) = 1 /\ word[1] \in Keywords -> [token |-> word[1]]
      [] ToSet(word) \cap Keywords # {} /\ ~(Len(word) = 1 /\ word[1] \in Keywords) -> Fault
      [] Len(word) = 2 /\ word[1] = "rating:" /\ word[2] = "g" ->
           [token |-> "atom", atom |-> RatingAtom(<<"g">>)]
      [] OTHER -> [token |-> "atom", atom |-> TagAtom(word)]

\* lex_pattern, after the opening slash: the source and what follows the closing one.
RECURSIVE PatternFrom(_, _)
PatternFrom(s, source) ==
    IF s = <<>> THEN Fault
    ELSE IF Head(s) = "/" THEN
         IF source = <<>> THEN Fault ELSE [source |-> source, rest |-> Tail(s)]
    ELSE IF Head(s) = "\\" /\ Len(s) > 1 /\ s[2] = "/"
         THEN PatternFrom(SubSeq(s, 3, Len(s)), Append(source, "/"))
    ELSE PatternFrom(Tail(s), Append(source, Head(s)))

\* The tokens of a text; a fault among them is the lexer's.
RECURSIVE Lex(_)
Lex(s) ==
    IF s = <<>> THEN <<[token |-> "end"]>>
    ELSE CASE Head(s) = " " -> Lex(Tail(s))
           [] Head(s) \in {"~", "(", ")"} -> <<[token |-> Head(s)]>> \o Lex(Tail(s))
           [] Head(s) = "/" ->
                LET found == PatternFrom(Tail(s), <<>>) IN
                IF Faulty(found) THEN <<Fault>>
                ELSE <<[token |-> "atom", atom |-> PatternAtom(found.source)]>> \o Lex(found.rest)
           [] OTHER ->
                LET n == BareLength(s, 0) IN
                <<WordToken(SubSeq(s, 1, n))>> \o Lex(SubSeq(s, n + 1, Len(s)))

-----------------------------------------------------------------------------
(* parse: a level of the grammar takes the tokens ahead and returns the     *)
(* expression it read and the tokens after it.                              *)

Levels == <<"or", "xor", "and">>

RECURSIVE ParseLevel(_, _), ParseMore(_, _, _), ParseUnary(_)
\* or, xor and and: operands of the next level, chained by this level's operator.
ParseLevel(level, tokens) ==
    IF level > Len(Levels) THEN ParseUnary(tokens)
    ELSE LET first == ParseLevel(level + 1, tokens) IN
         IF Faulty(first) \/ Head(first.rest).token # Operator(Levels[level]) THEN first
         ELSE LET chain == ParseMore(level, first.rest, <<first.expr>>) IN
              IF Faulty(chain) THEN Fault
              ELSE [expr |-> Group(Levels[level], chain.exprs), rest |-> chain.rest]
ParseMore(level, tokens, exprs) ==
    IF Head(tokens).token # Operator(Levels[level]) THEN [exprs |-> exprs, rest |-> tokens]
    ELSE LET next == ParseLevel(level + 1, Tail(tokens)) IN
         IF Faulty(next) THEN Fault
         ELSE ParseMore(level, next.rest, Append(exprs, next.expr))
\* unary and primary
ParseUnary(tokens) ==
    CASE Head(tokens).token = "~" ->
           LET child == ParseUnary(Tail(tokens)) IN
           IF Faulty(child) THEN Fault ELSE [expr |-> Neg(child.expr), rest |-> child.rest]
      [] Head(tokens).token = "atom" ->
           [expr |-> Leaf(Head(tokens).atom), rest |-> Tail(tokens)]
      [] Head(tokens).token = "(" ->
           LET inner == ParseLevel(1, Tail(tokens)) IN
           IF Faulty(inner) \/ Head(inner.rest).token # ")" THEN Fault
           ELSE [expr |-> inner.expr, rest |-> Tail(inner.rest)]
      [] OTHER -> Fault

Parse(text) ==
    IF ToSet(text) \subseteq {" "} THEN [expr |-> EmptyQuery]
    ELSE LET tokens == Lex(text) IN
         IF \E i \in DOMAIN tokens : Faulty(tokens[i]) THEN Fault
         ELSE LET read == ParseLevel(1, tokens) IN
              IF Faulty(read) \/ Head(read.rest).token # "end" THEN Fault
              ELSE [expr |-> read.expr]

\* An atom whose text lexes to that atom and nothing else wherever it is rendered: a
\* tag that opens or closes a parenthesis of its own does not.
Lexes(atom) ==
    \A suffix \in {<<>>, <<")">>} :
      Lex(AtomText(atom) \o suffix) =
        <<[token |-> "atom", atom |-> atom]>> \o Lex(suffix)
================================================================================
