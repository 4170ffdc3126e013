------------------------------- MODULE MCWeb -------------------------------
(* Web on a small instance of each machine: the values of its larger       *)
(* constants.                                                              *)
EXTENDS Web, TLC

\* Two results of queries; column 2 of the first is numeric.
MCData ==
    [a |-> [width |-> 2, numeric |-> {2},
            rows |-> << <<"x", "y">>, <<"x", None>>, <<"y", "x">> >>],
     b |-> [width |-> 1, numeric |-> {}, rows |-> << <<"y">>, <<"x">> >>]]
MCRank == [x |-> 1, y |-> 2]

\* "q" and "Q" are the same statement to the log.
MCHash == ("q" :> 1) @@ ("Q" :> 1) @@ ("r" :> 2)

\* Scanning all keys takes two rounds.
MCRedisPages == ("all" :> << <<"k1">>, <<"k2">> >>) @@ ("k2" :> << <<"k2">> >>)

\* One table in two schemas; that of x has lost column b.
MCExists == (<<"m", "t">> :> {"a", "b"}) @@ (<<"x", "t">> :> {"a"})
Config(m, how) == [map |-> m, opts |-> [mode |-> how, fixed |-> FALSE]]
MCStored ==
    (<<"m", "t">> :> Config(<<"b", "a">>, "upsert"))
      @@ (<<"x", "t">> :> Config(<<"a", "b">>, "insert"))
MCStoredSnaps ==
    (<<"m", "t">> :> <<Config(<<"a", "b">>, "upsert"), Config(<<"a", "b">>, "insert")>>)
      @@ (<<"x", "t">> :> << >>)

\* The third column of the file is like the key k2.
MCScore == [i \in 1..3 |-> [t \in {"k1", "d", "k2"} |-> IF i = 3 /\ t = "k2" THEN 70 ELSE 0]]

\* One file with two keys and a snapshot, one with a newer preset of key 1.
MCBackupFiles ==
    {(<<1, "preset">> :> 1) @@ (<<1, "snapshot">> :> 1) @@ (<<2, "preset">> :> 1),
     <<1, "preset">> :> 2}

\* b is a backquote, n a line feed; each set is about some of the quotes.
MCAlphabets ==
    {{"'", "b", ";", "?", "a"}, {"-", "#", "n", ";", "?"},
     {"/", "*", ";", "?", "'"}, {"[", "]", ";", "?"}}

\* q is a double quote, s a blank, n and r are line feed and carriage return.
MCFields ==
    {<< >>, <<"a">>, <<"q">>, <<",">>, <<"n">>, <<"r">>, <<"a", "q">>, <<"q", ",">>, <<"n", "q">>}
MCCsvNames == {<<"x">>, <<"x", "s">>}

MCSchemasOf == <<{"main"}, {"main", "x"}>>
MCFirst == <<"main", "x">>

MCTablePages == {{"r"}, {}}
MCParts == {[kind |-> "column", name |-> "a", null |-> TRUE, pk |-> TRUE]}
MCTableOf == <<1, 1>>

MCFileColumns == <<"a", "b">>
MCTargets == <<"k1", "d", "k2">>
MCSameName == <<"d", "k1", None>>
MCFileRows == << <<"v", "b", "e">>, <<"z", "v", "v">> >>
=============================================================================
