--------------------------- MODULE MCClaimAndSend ---------------------------
(* Small instances of ClaimAndSend: the attempts a1 and a2 share a channel   *)
(* and go to two recipients, a3 is alone on a second channel.                *)
EXTENDS RecountAlone, TLC

CONSTANTS a1, a2, a3, c1, c2, r1, r2

MCChannelOf == a1 :> c1 @@ a2 :> c1 @@ a3 :> c2
MCRecipientOf == a1 :> r1 @@ a2 :> r2 @@ a3 :> r1

WorkerSymmetry == Permutations(Worker)
=============================================================================
