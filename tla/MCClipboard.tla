---------------------------- MODULE MCClipboard ----------------------------
(* Two overlapping copy commands and a user with two texts of their own.    *)
EXTENDS Clipboard, TLC

CONSTANTS c1, c2, s1, s2, u1, u2

MCCommands == {c1, c2}
MCSecretOf == (c1 :> s1) @@ (c2 :> s2)
MCUserTexts == {u1, u2}
=============================================================================
