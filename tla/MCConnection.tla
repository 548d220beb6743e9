--------------------------- MODULE MCConnection ----------------------------
(***************************************************************************)
(* What the peers send, for model checking Connection.                     *)
(***************************************************************************)
EXTENDS Connection

CONSTANTS p1, p2

Q == <<"Q">>

Ping == Command(<< <<"P">> >>)
Quit == Command(<<Q>>)

\* Words that look like the protocol, and an empty one.
Binary == Command(<< <<"\r", "\n">>, <<"*", "1">>, << >> >>)

\* Streams of one peer: commands, and bytes that are none: an inline command, an
\* empty and a negative array, one that is too long, a negative length, a word
\* without its end of line, an element that is no bulk string.
Alone ==
    {<<Binary, Ping>>,
     <<Raw(<<"P", "\r", "\n">>), Raw(<<"*", "0", "\r", "\n", "*", "-", "1", "\r", "\n">>), Ping>>,
     <<Raw(<<"*", "4", "\r", "\n", "$", "1", "\r", "\n">>), Quit, Ping>>,
     <<Raw(<<"*", "1", "\r", "\n", "$", "-", "1", "\r", "\n", "P", "\r">>), Ping>>,
     <<Raw(<<"*", "1", "\r", "\n", "$", "1", "\r", "\n", "P">>), Ping>>,
     <<Raw(<<"*", "1", "\r", "\n", ":", "1", "\r", "\n">>), Ping>>}

Stream(items, cuts) == [items |-> items, cuts |-> cuts]

Silent == Stream(<< >>, {})

\* The streams of one peer arrive in pieces of any size, those of two are cut
\* inside a command or behind it.
MCScripts ==
    {[p \in Peers |-> IF p = p1 THEN Stream(s, 1 .. 40) ELSE Silent] : s \in Alone}
        \cup {[p \in Peers |-> IF p = p1 THEN Stream(<<Ping, Quit>>, {10, 17})
                               ELSE Stream(<<Ping, Quit>>, {11})]}
=============================================================================
