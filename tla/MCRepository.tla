---------------------------- MODULE MCRepository ----------------------------
(* Up to three processes, two passwords, two or three ids.  Each save uses *)
(* up a counter, so MaxCounter bounds the changes made to a vault.         *)
EXTENDS Repository, TLC

CONSTANTS p1, p2, p3, pw1, pw2, id1, id2, id3, a, b, username, password

TwoProcs == {p1, p2}
ThreeProcs == {p1, p2, p3}
OneCreator == {p2}
MCPasswords == {pw1, pw2}
TwoIds == {id1, id2}
ThreeIds == {id1, id2, id3}
MCData == {a, b}
OneField == {password}
TwoFields == {username, password}

=============================================================================
