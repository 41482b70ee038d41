---------------------------- MODULE MCSymbolFetch ----------------------------
(***************************************************************************)
(* Instances of SymbolFetch for TLC.                                       *)
(***************************************************************************)
EXTENDS SymbolFetch

Line(record) == Append(record, NL)

\* FILE records out of order, \r\n, a function whose INLINE record is malformed,
\* symbols that are not in the order of their addresses, no line break at the end.
Lines_ ==
  Line(<<MODULE_, 1>>) \o Line(<<FILE, 1>>) \o Line(<<FILE, 0, CR>>) \o Line(<<FUNC, 2, 3>>)
  \o Line(<<3, 0>>) \o Line(<<FUNC, 6, 1>>) \o Line(<<INLINE>>) \o <<PUBLIC, 1>>

\* A call that was inlined in two places, another one within it, and a record
\* that ends the FUNC block.
Inlines ==
  Line(<<MODULE_, 1>>) \o Line(<<INLINE_ORIGIN, 0>>) \o Line(<<FUNC, 1, 5>>)
  \o Line(<<INLINE, 0, 0, 0, 2, 1, 4, 2>>)
  \o Line(<<INLINE, 1, 0, 0, 5, 1>>) \o Line(<<STACK>>)

\* The file of another library, one whose MODULE line is malformed, and one that
\* is not a Breakpad file.
Others == {<<MODULE_, 2>>, Line(<<MODULE_>>), <<FILE>>}

MCContents == {Lines_, Inlines} \cup Others
MCAddresses == 0 .. 7

\* Every server is asked, and the next one only after it failed (the one that
\* delivers fails if the disk is full).
MCNetworks == {<<"breaks", "delivers">>, <<"refuses", "stalls">>}
=============================================================================
