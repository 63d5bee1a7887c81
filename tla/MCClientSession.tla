--------------------------- MODULE MCClientSession ---------------------------
(***************************************************************************)
(* The lines typed in the runs of ClientSession.                           *)
(***************************************************************************)
EXTENDS ClientSession

Find == <<"db", "find", "open", "field", "close">>
Two == <<"db", "delete", "open", "field", "comma", "field", "close">>
Set == <<"db", "update", "open", "field", "middle", "field", "close">>
Put == <<"db", "insert", "open", "field", "close">>

\* Without db., with the closing brackets missing, with a command begun twice,
\* with a semicolon inside.
NoDb == <<"find", "open", "field", "close">>
Cut == <<"db", "find", "open", "field">>
Twice == <<"db", "db", "db">> \o Tail(Put)
Semi == <<"db", "delete", "open", "field", "stray", "close">>

MCLines == {Find, Two, Set, Put, NoDb, Cut, Twice, Semi}
CutLines == {Find, Cut}
SemiLines == {Find, Semi}
GoodLines == {Find, Put}
=============================================================================
