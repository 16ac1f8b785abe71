--------------------------- MODULE MCWebdavLocks ---------------------------
(***************************************************************************)
(* WebdavLocks with two clients, a directory a with a child and a second     *)
(* name b; a/x and b/x let a directory be moved with its content.          *)
(***************************************************************************)
EXTENDS WebdavLocks, TLC

CONSTANTS c1, c2, t1, t2

OwnUser == [c \in Clients |-> c]        \* every client is a user of its own
MCPaths == {<< >>, <<"a">>, <<"b">>, <<"a", "x">>, <<"b", "x">>}

\* Either a lock runs out or something fails.
OneTrouble == now + faults <= 1

TokenSymmetry == Permutations(Tokens)
Symmetry == Permutations(Clients) \cup TokenSymmetry
=============================================================================
