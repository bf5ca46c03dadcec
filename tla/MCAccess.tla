------------------------------ MODULE MCAccess ------------------------------
(***************************************************************************)
(* One page, two deliveries of its token, one other request.               *)
(***************************************************************************)
EXTENDS Access

CONSTANTS t1, t2, d1, d2, r1

TwoTokens == {t1, t2}
TwoDeliveries == {d1, d2}
OneRequest == {r1}
=============================================================================
