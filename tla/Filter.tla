------------------------------- MODULE Filter -------------------------------
(***************************************************************************)
(* Filter expressions of the walk: a tokenizer that knows quotes, a        *)
(* recursive-descent parser for the part of Todoist's filters the cache    *)
(* can answer, and the substring match it degrades to.                     *)
(*                                                                         *)
(* An expression, like every name, is a sequence of runes in lower case    *)
(* and without spaces; what it selects is a set of the cached tasks.       *)
(***************************************************************************)
EXTENDS Naturals, Sequences, FiniteSets

LOCAL INSTANCE SequencesExt

CONSTANTS Corpus,         \* tasks: [title, section, project, priority, labels]
          Priorities,     \* p1 .. p4
          Quote,
          MaxFilterDepth  \* maxFilterDepth

Operators == {"&", "|", "!", "(", ")"}

----------------------------------------------------------------------------
(* Terms                                                                   *)

Within(q, text) == \E s \in Suffixes(text) : IsPrefix(q, s)

SubstringMatch(q) == {t \in Corpus : \/ Within(q, t.title) \/ Within(q, t.section)
                                     \/ \E l \in t.labels : Within(q, l)}

\* @label and #project name one exactly, pN is a priority, the rest is free text.
TermPredicate(term) ==
    IF Len(term) > 1 /\ Head(term) = "@" THEN {t \in Corpus : Tail(term) \in t.labels}
    ELSE IF Len(term) > 1 /\ Head(term) = "#" THEN {t \in Corpus : Tail(term) = t.project}
    ELSE IF term \in Priorities THEN {t \in Corpus : t.priority = term}
    ELSE SubstringMatch(term)

----------------------------------------------------------------------------
(* tokenizeFilter                                                          *)

\* A token: an operator, or a term with its text.
Token(kind, text) == [kind |-> kind, text |-> text]
Emit(s, kind, text) == [s EXCEPT !.toks = Append(@, Token(kind, text)), !.buf = <<>>]
Flush(s) == IF s.buf = <<>> THEN s ELSE Emit(s, "term", s.buf)

\* Operators split inside quotes too.
LexQuotesIgnored(s, rune) ==
    IF rune = Quote THEN [s EXCEPT !.quoted = ~@]
    ELSE IF rune \in Operators THEN Emit(Flush(s), rune, <<>>)
    ELSE [s EXCEPT !.buf = Append(@, rune)]

\* A quoted span joins the term around it, operators and all.
Lex(s, rune) ==
    IF rune = Quote THEN [s EXCEPT !.quoted = ~@]
    ELSE IF ~s.quoted /\ rune \in Operators THEN Emit(Flush(s), rune, <<>>)
    ELSE [s EXCEPT !.buf = Append(@, rune)]

Lexed(expr) == FoldLeft(Lex, [toks |-> <<>>, buf |-> <<>>, quoted |-> FALSE], expr)
Tokens(expr) == Flush(Lexed(expr)).toks

----------------------------------------------------------------------------
(* filterParser: from token i on, at nesting d, the selection and the next token *)

Failed == [ok |-> FALSE, next |-> 0, selects |-> {}]
Parsed(i, S) == [ok |-> TRUE, next |-> i, selects |-> S]
Peek(toks, i, kind) == i <= Len(toks) /\ toks[i].kind = kind

RECURSIVE ParseOr(_, _, _), ParseNot(_, _, _), AndRest(_, _, _), OrRest(_, _, _)

\* parsePrimary := '(' parseOr ')' | TERM
ParsePrimary(toks, i, d) ==
    IF i > Len(toks) THEN Failed
    ELSE IF toks[i].kind = "(" THEN
        LET inner == ParseOr(toks, i + 1, d)
        IN  IF inner.ok /\ Peek(toks, inner.next, ")")
            THEN Parsed(inner.next + 1, inner.selects) ELSE Failed
    ELSE IF toks[i].kind # "term" THEN Failed
    ELSE Parsed(i + 1, TermPredicate(toks[i].text))

\* parseNot := '!' parseNot | parsePrimary
ParseNot(toks, i, d) ==
    IF d + 1 > MaxFilterDepth THEN Failed
    ELSE IF ~Peek(toks, i, "!") THEN ParsePrimary(toks, i, d + 1)
    ELSE LET inner == ParseNot(toks, i + 1, d + 1)
         IN  IF inner.ok THEN Parsed(inner.next, Corpus \ inner.selects) ELSE Failed

\* parseAnd := parseNot ( '&' parseNot )*
AndRest(toks, left, d) ==
    IF ~left.ok \/ ~Peek(toks, left.next, "&") THEN left
    ELSE LET right == ParseNot(toks, left.next + 1, d)
         IN  IF right.ok THEN AndRest(toks, Parsed(right.next, left.selects \cap right.selects), d)
             ELSE Failed
ParseAnd(toks, i, d) == AndRest(toks, ParseNot(toks, i, d), d)

\* The right operand of | is one parseNot, so that & no longer binds tighter.
OrRestFlat(toks, left, d) ==
    IF ~left.ok \/ ~Peek(toks, left.next, "|") THEN left
    ELSE LET right == ParseNot(toks, left.next + 1, d)
         IN  IF right.ok
             THEN OrRest(toks, AndRest(toks, Parsed(right.next, left.selects \cup right.selects), d), d)
             ELSE Failed

\* parseOr := parseAnd ( '|' parseAnd )*
OrRest(toks, left, d) ==
    IF ~left.ok \/ ~Peek(toks, left.next, "|") THEN left
    ELSE LET right == ParseAnd(toks, left.next + 1, d)
         IN  IF right.ok THEN OrRest(toks, Parsed(right.next, left.selects \cup right.selects), d)
             ELSE Failed
ParseOr(toks, i, d) ==
    IF d + 1 > MaxFilterDepth THEN Failed ELSE OrRest(toks, ParseAnd(toks, i, d + 1), d + 1)

\* compileFilter: all of the tokens are one expression.
Compile(expr) ==
    LET toks == Tokens(expr)
        all  == ParseOr(toks, 1, 0)
    IN  IF Lexed(expr).quoted \/ toks = <<>> \/ ~all.ok \/ all.next <= Len(toks) THEN Failed ELSE all

\* The ScopeFilter predicate.
Selects(expr) ==
    IF expr = <<>> THEN {} ELSE IF Compile(expr).ok THEN Compile(expr).selects ELSE SubstringMatch(expr)

----------------------------------------------------------------------------
(* What the grammar says an expression means, read off its splits          *)

\* Rune i is an operator that is not inside quotes.
Bare(e, i, op) == e[i] = op /\ Cardinality({j \in 1 .. i : e[j] = Quote}) % 2 = 0
Splits(e, op)  == {i \in DOMAIN e : Bare(e, i, op)}
Left(e, i)     == SubSeq(e, 1, i - 1)
Right(e, i)    == SubSeq(e, i + 1, Len(e))
Unquoted(e)    == SelectSeq(e, LAMBDA r : r # Quote)

\* The selections of e as a disjunction of conjunctions of negations of primaries, each
\* with the nesting it takes; of one that is no such thing, none.
RECURSIVE Disjunction(_), Conjunction(_), Negation(_)

Meaning(S, nesting) == [selects |-> S, nesting |-> nesting]
Deeper(x, y) == IF x.nesting < y.nesting THEN y.nesting ELSE x.nesting

Primary(e) ==
    {Meaning(x.selects, x.nesting + 2) :
        x \in IF Len(e) > 2 /\ e[1] = "(" /\ Bare(e, Len(e), ")")
              THEN Disjunction(SubSeq(e, 2, Len(e) - 1)) ELSE {}} \cup
    {Meaning(TermPredicate(Unquoted(x)), 2) :
        x \in {y \in {e} : /\ Unquoted(y) # <<>> /\ \A op \in Operators : Splits(y, op) = {}
                           /\ Cardinality({i \in DOMAIN y : y[i] = Quote}) % 2 = 0}}

Negation(e) ==
    IF e # <<>> /\ e[1] = "!"
    THEN {Meaning(Corpus \ x.selects, x.nesting + 1) : x \in Negation(Tail(e))}
    ELSE Primary(e)

Conjunction(e) ==
    Negation(e) \cup
    UNION {{Meaning(x.selects \cap y.selects, Deeper(x, y)) :
               x \in Conjunction(Left(e, i)), y \in Negation(Right(e, i))} : i \in Splits(e, "&")}

Disjunction(e) ==
    Conjunction(e) \cup
    UNION {{Meaning(x.selects \cup y.selects, Deeper(x, y)) :
               x \in Disjunction(Left(e, i)), y \in Conjunction(Right(e, i))} : i \in Splits(e, "|")}

\* Two quotes next to each other say nothing: they are an empty name, or end one part of
\* a name and begin the next.
WithoutEmptyQuotes(e) ==
    FoldLeft(LAMBDA s, r : IF r = Quote /\ s # <<>> /\ Last(s) = Quote THEN Front(s)
                           ELSE Append(s, r), <<>>, e)

\* An expression selects what its one reading under the grammar says, if it nests no
\* deeper than the parser goes; otherwise what contains it.
MeansWhatItSays(e) ==
    LET meanings == Disjunction(WithoutEmptyQuotes(e))
        readings == {x \in meanings : x.nesting <= MaxFilterDepth}
    IN  /\ Cardinality(meanings) <= 1
        /\ e # <<>> => Selects(e) = IF readings = {} THEN SubstringMatch(e)
                                    ELSE (CHOOSE x \in readings : TRUE).selects

\* Quoting a whole name selects what the name says, whatever operators are in it.  (An
\* empty name is none: the tokenizer drops it.)
QuotedIsLiteral(name) == Selects(<<Quote>> \o name \o <<Quote>>) = TermPredicate(name)

=============================================================================
