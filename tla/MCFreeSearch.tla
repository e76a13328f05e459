----------------------------- MODULE MCFreeSearch -----------------------------
(***************************************************************************)
(* Two bit addresses: seven prefixes, all tables of few of them and all    *)
(* lists of one or two to search.                                          *)
(***************************************************************************)
EXTENDS FreeSearch

\* One prefix of two addresses, and two single addresses.
SmallRequests == {<<1, 1>>, <<2, 2>>}

=============================================================================
