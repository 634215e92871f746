------------------------------ MODULE MCAppArg ------------------------------
(***************************************************************************)
(* Tables and argument vectors for checking AppArg.                        *)
(***************************************************************************)
EXTENDS AppArg

\* -a / --al takes a value; -b is required and takes none; -c / --c takes
\* a value that may be left out ("[v]").
MCArgs ==
  << [ch |-> "a", name |-> <<"a", "l">>, req |-> FALSE,
      param |-> <<"v">>, result |-> TRUE],
     [ch |-> "b", name |-> NoName, req |-> TRUE,
      param |-> NoName, result |-> FALSE],
     [ch |-> "c", name |-> <<"c">>, req |-> FALSE,
      param |-> <<"[", "v", "]">>, result |-> TRUE] >>

\* Keys spelt out in full, values inline, attached or separate, an
\* unexpected value, a positional argument, an empty one and "--".
MCTokens ==
  { <<"-", "-", "a", "l">>, <<"-", "-", "a", "l", "=", "x">>,
    <<"-", "a">>, <<"-", "a", "x">>, <<"-", "b">>, <<"-", "b", "x">>,
    <<"-", "-", "c">>, <<"x">>, <<>>, <<"-", "-">> }

MCQueries ==
  { [ch |-> "a", name |-> <<"a", "l">>], [ch |-> "c", name |-> NoName],
    [ch |-> NUL, name |-> <<"c">>], [ch |-> NUL, name |-> NoName] }

\* A long name that is a prefix of another: --l and --lv both take a value.
MCPrefixArgs ==
  << [ch |-> "l", name |-> <<"l">>, req |-> FALSE,
      param |-> <<"v">>, result |-> TRUE],
     [ch |-> "v", name |-> <<"l", "v">>, req |-> FALSE,
      param |-> <<"v">>, result |-> TRUE] >>

MCPrefixTokens == { <<"-", "-", "l", "v", "=", "x">>, <<"-", "-", "l", "=", "x">> }

\* A long-only entry (ch == '\0') and a lone "-".
MCLongOnlyArgs ==
  << [ch |-> NUL, name |-> <<"l">>, req |-> FALSE,
      param |-> NoName, result |-> FALSE] >>

MCDashTokens == { <<"-">>, <<"-", "-", "l">> }

\* Options with separate values ahead of the one a query looks for.
MCSkipTokens == { <<"-", "a">>, <<"x">>, <<"-", "c">> }

MCSkipQueries == { [ch |-> "c", name |-> NoName] }

\* A long key with a value that is a proper prefix of the name queried.
MCShortKeyTokens == { <<"-", "-", "a", "=", "x">> }

MCLongQueries == { [ch |-> NUL, name |-> <<"a", "l">>] }


\* Positional names as the callers write them: plain, optional,
\* repeatable, both.
MCUsagePoses == { <<"F">>, <<"[", "F", "]">>, <<"F", "+">>, <<"[", "F", "]", "+">> }

=============================================================================
