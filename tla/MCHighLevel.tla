----------------------------- MODULE MCHighLevel ----------------------------
(* HighLevelCalls on a small platform. *)
EXTENDS HighLevelCalls

(* No array, one event, two events, an event twice, an event the platform  *)
(* does not have (last), more events than counters.                        *)
MCRequests ==
  {<<>>, <<FpOps>>, <<TotIns, TotCyc>>, <<TotCyc, TotCyc>>,
   <<TotIns, RefCyc>>, <<TotIns, TotCyc, FpOps>>}

MCCodes == {FpIns, FpOps, TotIns, TotCyc, RefCyc}

(* A platform without reference cycles. *)
MCNoRefCyc == MCCodes \ {RefCyc}

MCLengths == 0 .. 2

MCEpcChoices == {NoEvent, FpOps, TotCyc}
=============================================================================
