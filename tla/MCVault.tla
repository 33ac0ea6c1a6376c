------------------------------ MODULE MCVault ------------------------------
(* One or two vaults with a password change: three salts let one vault      *)
(* change its password twice, or two vaults once between them.              *)
EXTENDS Vault, TLC

CONSTANTS pw1, pw2, t1, t2, s1, s2, s3, d1, d2

MCPasswords == {pw1, pw2}
MCPlaintexts == {t1, t2}
MCSalts == {s1, s2, s3}
MCDeks == {d1, d2}
\* The default costs, the weakest that pass, and one above the memory limit.
MCParams ==
  {[memory_kib |-> 65536, time_cost |-> 3, parallelism |-> 4],
   [memory_kib |-> 19456, time_cost |-> 1, parallelism |-> 1],
   [memory_kib |-> 1048577, time_cost |-> 1, parallelism |-> 1]}

\* Two plaintexts are told apart by no operation, nor are two passwords.
Symmetry == Permutations(MCPasswords) \cup Permutations(MCPlaintexts)
            \cup Permutations(MCSalts) \cup Permutations(MCDeks)
=============================================================================
