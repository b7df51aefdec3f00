------------------------------- MODULE MCWalk -------------------------------
(* Small instances of Walk: two tasks, both selected by a filter expression, one     *)
(* by --task; and every expression of a few runes against the grammar of filters.    *)
EXTENDS Walk, Filter, SequencesExt

CONSTANTS single, filter  \* the two scopes

Task(title, section, project, priority, labels) ==
    [title |-> title, section |-> section, project |-> project, priority |-> priority, labels |-> labels]

\* The cached tasks, by id; a project and a label have an operator in their names.
Cached == << Task(<<"x">>, <<>>, <<"x", "&", "y">>, <<"p", "1">>, {<<"y">>}),
             Task(<<"y">>, <<"x">>, <<"y">>, <<"p", "2">>, {}),
             Task(<<"y", "!">>, <<>>, <<"x">>, <<"p", "1">>, {<<"x">>, <<"x", "|", "y">>}) >>

CachedTasks == ToSet(Cached)
SomePriorities == {<<"p", "1">>, <<"p", "2">>}

\* The filter scope: #"x&y" | !@x & y, which selects tasks 1 and 2.
Expression == <<"#", Quote, "x", "&", "y", Quote, "|", "!", "@", "x", "&", "y">>
InScopeValue == [s \in Scopes |-> IF s = single THEN {2}
                                  ELSE {t \in Tasks : Cached[t] \in Selects(Expression)}]

\* A walk is followed to the end of the clock without an assessment, and to the second
\* launch or append with one.
AssessedEarly == (\A t \in Tasks : summary[t] = 0) \/ now <= 2

\* Every expression up to these lengths, over runes that exercise the precedence of the
\* operators, the quoting of names, empty ones included, and the nesting.
Expressions ==
    BoundedSeq({"x", "y", "&", "|", "!", "(", ")"}, 5)
    \cup BoundedSeq({Quote, "x", "&", "|", "#", "@"}, 5)
    \cup BoundedSeq({Quote, "x", "!", "(", ")"}, 5)
    \cup BoundedSeq({"!", "x", "(", ")"}, 7)
    \cup BoundedSeq({"p", "1", "|", "!"}, 4)

Names == BoundedSeq({"x", "y", "&", "|", "!", "#", "("}, 4)

\* What does not depend on the state is checked in one, an initial one.
Once(P) == Init /\ cache = {} => P

\* Every filter expression selects what the grammar says it means, or what contains it
\* (filter.go:19-36, scope.go:48-71).
FiltersMeanWhatTheySay == Once(\A e \in Expressions : MeansWhatItSays(e))

\* A quoted name is taken literally; an empty pair of quotes is no name (filter.go:68-104).
QuotedNamesAreLiteral == Once(\A name \in Names \ {<<>>} : QuotedIsLiteral(name))

=============================================================================
