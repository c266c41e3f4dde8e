------------------------------ MODULE MCFrames ------------------------------
(* One small partition, with two peers, for the frames that go wrong.       *)
EXTENDS WindowFrames

MCPartitions ==
  [asc  |-> [RANGE |-> {}, ROWS |-> {<<1, 1, 2, 3>>}, GROUPS |-> {<<1, 1, 2, 3>>}],
   desc |-> [RANGE |-> {}, ROWS |-> {}, GROUPS |-> {}]]
=============================================================================
