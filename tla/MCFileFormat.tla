---------------------------- MODULE MCFileFormat ----------------------------
(* The shortest file there is, with the weakest costs and a counter of 0,   *)
(* and one with the highest costs, the last counter and a longer body.      *)
EXTENDS FileFormat

Fill(n, b) == [i \in 1 .. n |-> b]

MCFileParts ==
  {[memory_kib |-> 19456, time_cost |-> 1, parallelism |-> 1, salt |-> Fill(16, 10),
    counter |-> <<0, 0, 0, 0>>, dek_nonce |-> Fill(12, 11), dek_blob |-> Fill(48, 12),
    body_nonce |-> Fill(12, 13), body_blob |-> Fill(16, 14)],
   [memory_kib |-> 1048576, time_cost |-> 16, parallelism |-> 8, salt |-> Fill(16, 20),
    counter |-> <<65535, 65535, 65535, 65535>>, dek_nonce |-> Fill(12, 21),
    dek_blob |-> Fill(48, 22), body_nonce |-> Fill(12, 23), body_blob |-> Fill(18, 24)]}

=============================================================================
