------------------------ MODULE MCSponsorshipExposure ------------------------
(***************************************************************************)
(* Two wallets, three transactions (two of one wallet, with different      *)
(* actions) and caps that two of them fill.                                *)
(***************************************************************************)
EXTENDS SponsorshipExposure

CONSTANTS t1, t2, t3, w1, w2, burn, claim

MCTransaction == {t1, t2, t3}
MCWallet == {w1, w2}
MCAction == {burn, claim}
MCWalletOf == [t \in MCTransaction |-> IF t = t3 THEN w2 ELSE w1]
MCActionOf == [t \in MCTransaction |-> IF t = t2 THEN claim ELSE burn]
MCCost == [t \in MCTransaction |-> IF t = t2 THEN 2 ELSE 1]
=============================================================================
