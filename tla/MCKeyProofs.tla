---------------------------- MODULE MCKeyProofs ----------------------------
(* Values for checking KeyProofs on small instances. *)
EXTENDS KeyProofsService, TLC

CONSTANTS h1, h2, ann, bob, ea, eb, sa, pa, pb, style, proofA, proofB

\* Two people, each with a proof of her own, and one style for both.
MCIds == {ann, bob}
MCEntityOf == ann :> ann @@ bob :> bob
MCEntityKey == ann :> ea @@ bob :> eb
MCStyleKey == ann :> sa @@ bob :> sa
MCProofKeys == ann :> <<pa>> @@ bob :> <<pb>>
MCProofBy == ann :> proofA @@ bob :> proofB
MCKeys == {ea, eb, sa, pa, pb}
MCValues == {ann, bob, style, proofA, proofB}
MCValuesOf ==
  ea :> {ann} @@ eb :> {bob} @@ sa :> {style}
    @@ pa :> {proofA} @@ pb :> {proofB}

\* Both claim the same account.
SharedProofKeys == ann :> <<pa>> @@ bob :> <<pa>>
SharedKeys == {ea, eb, sa, pa}
SharedValuesOf ==
  ea :> {ann} @@ eb :> {bob} @@ sa :> {style} @@ pa :> {proofA, proofB}

\* One person without proofs.
AnnId == {ann}
AnnEntityKey == ann :> ea
NoProofKeys == ann :> <<>>
AnnKeys == {ea, sa}
AnnValuesOf == ea :> {ann} @@ sa :> {style}

\* One request at a time, or one over what is left of the last.
OneHandler == {h1}
TwoHandlers == {h1, h2}
MCCalls == OneHandler \X MCKeys
SharedCalls == OneHandler \X SharedKeys
AnnCalls == TwoHandlers \X AnnKeys
BothCallbacks == {"style", "proofs"}
StyleOnly == {"style"}
MCWatchers == OneHandler \X BothCallbacks
AnnWatchers == TwoHandlers \X StyleOnly
=============================================================================
