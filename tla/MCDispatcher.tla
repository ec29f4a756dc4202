---------------------------- MODULE MCDispatcher ----------------------------
(* Instances of Dispatcher for TLC. *)
EXTENDS Dispatcher

(* Rules as the panel may give them one after the other: the second set     *)
(* shortens one list and empties the other.                                 *)
Long == [domains |-> <<"ads", "http">>, protocols |-> <<"quic", "bittorrent">>]
Short == [domains |-> <<"http">>, protocols |-> <<>>]

MCRuleSets == {Long, Short}
=============================================================================
