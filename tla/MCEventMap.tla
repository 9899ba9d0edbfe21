----------------------------- MODULE MCEventMap -----------------------------
(* EventMapCalls on a small platform. *)
EXTENDS EventMapCalls, TLC

CONSTANTS n1, n2, n3, n4, Sum, Ratio, Missing

(* Presets that share native events, and one this platform lacks. *)
MCPresets ==
  [p \in {Sum, Ratio, Missing} |->
     CASE p = Sum   -> <<n1, n2>>
       [] p = Ratio -> <<n2, n3>>
       [] OTHER     -> <<>>]

MCSymmetry == Permutations(Sets)
=============================================================================
