----------------------------- MODULE MCModelCall -----------------------------
EXTENDS ModelCall

\* The default, no retries and one retry; an ordinary base, a base above the
\* cap, and none.
MCConfigs == {[retries |-> 0, base |-> 0], [retries |-> -1, base |-> 1], [retries |-> 1, base |-> 9],
              [retries |-> 4, base |-> 3]}

\* Below, at and above the cap, in both forms; a date may lie in the past.
MCHeaders == {[form |-> "none", at |-> 0]}
    \cup [form: {"seconds", "date"}, at: {-1, 0, 8, 11}]

\* A script, prose before a script, an empty script, another fence, both
\* markers, a marker with nothing behind it, a word that opens like one, and
\* prose, each behind no white space, one line end, or so much that a fence or
\* marker just fits into the hold-back or just does not.
Word == <<"w">>
Block == Script \o <<Newline>> \o Word \o <<Newline>> \o Fence
Bodies == {Block, Word \o <<Newline>> \o Block, Script \o <<Newline, Newline>> \o Fence,
           Fence \o Word, Done \o <<Newline>> \o Word, Done \o <<Return, Newline>> \o Word,
           Done, Done \o Word \o Word, <<"tick">> \o Word \o <<Newline>> \o Word}
Spaces(n) == [i \in 1..n |-> "space"]
MCReplies == {<<>>} \cup {white \o body : white \in {<<>>, <<Newline>>, Spaces(2), Spaces(3), Spaces(4), Spaces(5)},
                                        body \in Bodies}
=============================================================================
