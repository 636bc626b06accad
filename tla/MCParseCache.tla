---------------------------- MODULE MCParseCache ----------------------------
(***************************************************************************)
(* Reports that share a cache over one log.  All contents are of one size; *)
(* the second has a last line without its newline.                         *)
(***************************************************************************)
EXTENDS ParseCache

WithTail == [lines |-> <<"c">>, tail |-> "d"]

MCContent == {[lines |-> <<"a", "b">>, tail |-> None], WithTail, Gone}

=============================================================================
