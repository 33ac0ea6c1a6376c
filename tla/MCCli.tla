------------------------------- MODULE MCCli -------------------------------
(* Two processes that run one command after another.  Both run init; of the *)
(* others p1 runs delete, update and list, p2 the rest, so that a command   *)
(* meets those of the other half.                                           *)
EXTENDS Cli

CONSTANTS p1, p2, pw1, pw2, id1, id2, a, password

TwoProcs == {p1, p2}
MCMenu ==
  (p1 :> {"init", "delete", "update", "list"}) @@ (p2 :> {"init", "add", "passwd", "get", "copy"})
MCPasswords == {pw1, pw2}
TwoIds == {id1, id2}
OneField == {password}
=============================================================================
