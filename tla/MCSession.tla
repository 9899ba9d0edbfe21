------------------------------ MODULE MCSession -----------------------------
(* Session on small platforms. *)
EXTENDS Session

CONSTANT Typo   \* a name no event has

MCCodes == {FpIns, FpOps, TotIns, TotCyc, RefCyc}
MCNames == MCCodes \cup {Typo}

(* A platform without reference cycles. *)
MCNoRefCyc == MCCodes \ {RefCyc}

AllProfilers == {"event"} \cup RateModes

(* One event, two, a repeated one, one the platform lacks, a misspelt one. *)
MCEvents ==
  {<<FpOps>>, <<TotIns, TotCyc>>, <<TotCyc, TotCyc, FpIns>>,
   <<TotIns, RefCyc>>, <<Typo>>}

MCFewEvents == {<<FpOps>>, <<TotIns, TotCyc>>}

MCEpcEvents == {FpOps, TotCyc}
=============================================================================
