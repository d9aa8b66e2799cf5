----------------------------- MODULE MCPromise -----------------------------
(* Values and symmetries for checking Promise and PromiseFuture on small instances. *)
EXTENDS PromiseFuture, TLC

CONSTANTS k1, k2, v1, v2, c1, c2, c3, w1

MCKeys == {k1}
MCValues == {v1}
MCValuesOf == k1 :> {v1}

MC2Keys == {k1, k2}
MC2Values == {v1, v2}
MC2ValuesOf == k1 :> {v1} @@ k2 :> {v2}

MCCalls == {c1, c2, c3}
MC2Calls == {c1, c2}
MC1Watchers == {w1}

Symmetry == Permutations(MCCalls)
=============================================================================
