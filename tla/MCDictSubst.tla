----------------------------- MODULE MCDictSubst -----------------------------
EXTENDS DictSubst

\* "%", a letter, a digit and a character outside every class.
MCAlphabet == {"%", "A", "0", "x"}

MCNL == "nl"

\* %A% has a shorter value, %A0% a longer one, %AA% none and %A0A% an
\* empty one.
MCDico ==
  [key \in {<<"%", "A", "%">>, <<"%", "A", "0", "%">>, <<"%", "A", "0", "A", "%">>} |->
     CASE key = <<"%", "A", "%">>      -> <<"x", "x">>
       [] key = <<"%", "A", "0", "%">> -> <<"x", "x", "x", "x", "x", "x">>
       [] OTHER                        -> <<>>]

Line(n) == {body \o <<MCNL>> : body \in BoundedSeq(MCAlphabet, n)}

\* One line of up to 6 characters, enough for two matches, or two lines
\* of up to 3, so that a "%KEY%" may straddle the end of a line.
MCFiles == {<<l>> : l \in Line(6)} \cup {<<l1, l2>> : l1, l2 \in Line(3)}
=============================================================================
