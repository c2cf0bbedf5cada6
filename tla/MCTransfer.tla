------------------------------ MODULE MCTransfer ------------------------------
(* Transfer with the files its users write in the run, and the values in them. *)
EXTENDS Transfer, TLC

CONSTANTS n1, n2

Named(name) == <<"object", [firstName |-> <<"text", name>>]>>

\* A row of a file from elsewhere: its id, and an address in the JSON of a cell.
Lines == <<"array", << <<"json", <<"array", <<>> >> >>, <<"text", Text>> >> >>
Address(lines) == <<"object", [updatedAt |-> <<"text", Text>>, lines |-> lines]>>
ForeignWith(c, name, addresses) ==
    <<"object", [id |-> <<"text", c>>, firstName |-> <<"text", name>>,
                 addresses |-> addresses]>>
Foreign(c, name) == ForeignWith(c, name, <<"json", Address(<<"json", Lines>>)>>)

File(separator, lines, contents) ==
    [separator |-> separator, lines |-> lines, rows |-> contents]

\* Two rows without ids; the cells of the first are empty at both ends.
Tabs == File("tab", << <<"x", "tab", "x", "tab", "x">>, <<"tab", "x", "tab">>,
                       <<"x", "tab", "x", "tab", "x">> >>, <<Named(n1), Named(n2)>>)

\* Five blank lines before the header; the id is one the sequence has still to give.
Blanks == File("|", << <<>>, <<>>, <<"tab">>, <<>>, <<>>, <<"x", "|", "x", "|", "x">>,
                       <<",", ",", ",", "x", "|", "x">> >>, <<Foreign(2, n1)>>)

\* Each line has a comma, the cells of one more than one semicolon.
Commas == File(";", << <<"x", ";", "x", ";", "x">>,
                       <<"x", ",", ";", ",", ",", ";", ",", ",", "x">> >>, <<Named(n1)>>)

\* More than one semicolon wherever there is a comma.
Semicolons == File(";", << <<"x", ",", "x", ";", "x", ";", "x">>, <<",", "x", ";", "x", ";">>,
                           <<"x", ";", ",", ";", "x">> >>, <<Named(n2), Foreign(1, n2)>>)

\* One column; no row; nothing at all.
Column == File(",", << <<"x">>, <<"x">> >>, <<Named(n1)>>)
Header == File(",", << <<"x", ",", "x">> >>, <<>>)
Empty == File(",", <<>>, <<>>)

Written == {Tabs, Blanks, Commas, Semicolons, Column, Header, Empty}

\* What the cells of those rows, and of exported ones, are before and after the two
\* helpers, each of which may have come first.
Without(v, keys) == <<"object", [key \in DOMAIN v[2] \ keys |-> v[2][key]]>>
Bare(vs) == vs \cup {Without(v, Timestamps) : v \in vs}

ForeignCells ==
    {<<"json", Address(<<"json", Lines>>)>>}
        \cup Bare({Address(lines) : lines \in {Lines, <<"json", Lines>>}})

ExportedCells ==
    {<<"json", <<"array", <<Email>> >> >>}
        \cup {<<"array", <<email>> >> : email \in Bare({Email})}

ExportedWith(c, name, emails) ==
    <<"object", [ExportedRow(c, name)[2] EXCEPT !.emails = emails]>>

RECURSIVE Nested(_)
Nested(v) == {v} \cup UNION {Nested(w) : w \in Parts(v)}

AllValues ==
    UNION {Nested(v) : v \in
        {RowUnseparated}
        \cup {Named(name) : name \in Names}
        \cup {ForeignWith(c, name, cell) : c \in Ids, name \in Names, cell \in ForeignCells}
        \cup Bare({ExportedWith(c, name, cell) :
                       c \in Ids, name \in Names, cell \in ExportedCells})}

\* A value has more in it than each of its parts.
Nesting(v) == 1 + Cardinality(UNION {Nested(w) : w \in Parts(v)})

Symmetry == Permutations(Users) \cup Permutations(Requests)

=============================================================================
