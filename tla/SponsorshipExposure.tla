------------------------- MODULE SponsorshipExposure -------------------------
(***************************************************************************)
(* The sponsorship budget: what the temporary store keeps of the network   *)
(* costs GASLESS has promised to pay, and how the risk service reserves    *)
(* and gives back a transaction's share of it                              *)
(* (server/storage/temporary.ts, server/risk/operational.ts).              *)
(*                                                                         *)
(* A reservation adds its cost to three counters (the network's, the       *)
(* wallet's, and the wallet's for this action).  The reservation lives for *)
(* one window from the moment it is made; a counter lives for one window   *)
(* from the moment it was CREATED, because adding to it keeps its expiry.  *)
(* The two clocks are therefore not aligned, which is what the properties  *)
(* below are about.  Each action is one script the store runs atomically.  *)
(***************************************************************************)
EXTENDS Integers, FiniteSetsExt

CONSTANTS
  Transaction,          \* reservation ids: prepared transactions (or quotes)
  Wallet, Action,       \* wallets and sponsored action types, on one network
  WalletOf, ActionOf,   \* the wallet and the action type of each transaction
  Cost,                 \* the sponsored cost of each transaction, in lamports
  GlobalCap, WalletCap, \* the caps of the counters
  PerTransactionCap,    \* the cap of one transaction
  Window,               \* sponsorshipWindowSeconds
  MaxTime               \* bound: the last instant the clock reaches

ASSUME ConstantsAssumption ==
  /\ WalletOf \in [Transaction -> Wallet]
  /\ ActionOf \in [Transaction -> Action]
  /\ Cost \in [Transaction -> Nat \ {0}]   \* a network fee is never zero
  /\ GlobalCap \in Nat /\ WalletCap \in Nat /\ PerTransactionCap \in Nat
  /\ Window \in Nat \ {0}
  /\ MaxTime \in Nat

VARIABLES
  now,          \* the store's clock
  counter,      \* gasless:sponsor:<key>: value and expiry
  reservation,  \* gasless:sponsor-reservation:<id>: expiry (0 when absent)
  strayed       \* history: the counters that paid back what an older one had counted

vars == <<now, counter, reservation, strayed>>

(***************************************************************************)
(* The counters of a transaction, and their limits: the action counter is  *)
(* held to the wallet's cap.                                               *)
(***************************************************************************)
GlobalKey == <<"global">>
WalletKey(w) == <<"wallet", w>>
ActionKey(a, w) == <<"action", a, w>>

Key == {GlobalKey} \cup {WalletKey(w) : w \in Wallet}
         \cup {ActionKey(a, w) : a \in Action, w \in Wallet}

KeysOf(t) == {GlobalKey, WalletKey(WalletOf[t]), ActionKey(ActionOf[t], WalletOf[t])}

Limit(k) == IF k = GlobalKey THEN GlobalCap ELSE WalletCap

Absent == [value |-> 0, expires |-> 0]

TypeOK ==
  /\ now \in Nat
  /\ counter \in [Key -> [value : Nat, expires : Nat]]
  /\ reservation \in [Transaction -> Nat]
  /\ strayed \subseteq Key

(***************************************************************************)
(* What a read sees: an item is gone once its expiry is reached.           *)
(***************************************************************************)
CounterLive(k) == counter[k].expires > now
Exposure(k) == IF CounterLive(k) THEN counter[k].value ELSE 0
Live(t) == reservation[t] > now

\* A reservation ends no sooner than the counters its cost was added to: one that ends
\* sooner than the counter was charged to an older counter, which is gone.
Older(t, k) == reservation[t] < counter[k].expires

-----------------------------------------------------------------------------
Init ==
  /\ now = 0
  /\ counter = [k \in Key |-> Absent]
  /\ reservation = [t \in Transaction |-> 0]
  /\ strayed = {}

\* What a counter becomes when t's cost is added: a live one keeps its expiry.
Charged(k, t) ==
  [value   |-> Exposure(k) + Cost[t],
   expires |-> IF CounterLive(k) THEN counter[k].expires ELSE now + Window]

\* Fault: a release deletes the counter, whoever else is on it.
CreditedDeleting(k, t) == Absent

\* What a counter becomes when t's cost is given back: at zero it is deleted.
Credited(k, t) ==
  IF counter[k].value = Cost[t] THEN Absent
  ELSE [counter[k] EXCEPT !.value = @ - Cost[t]]

\* Fault: the limits are compared with what the counters show before the cost is added.
ReserveComparingBefore(t) ==
  /\ ~Live(t)
  /\ Cost[t] <= PerTransactionCap
  /\ \A k \in KeysOf(t) : Exposure(k) < Limit(k)
  /\ counter' = [k \in Key |-> IF k \in KeysOf(t) THEN Charged(k, t) ELSE counter[k]]
  /\ reservation' = [reservation EXCEPT ![t] = now + Window]
  /\ UNCHANGED <<now, strayed>>

\* Fault: a retried prepare reserves again.
ReserveTwice(t) ==
  /\ Cost[t] <= PerTransactionCap
  /\ \A k \in KeysOf(t) : Exposure(k) + Cost[t] <= Limit(k)
  /\ counter' = [k \in Key |-> IF k \in KeysOf(t) THEN Charged(k, t) ELSE counter[k]]
  /\ reservation' = [reservation EXCEPT ![t] = now + Window]
  /\ UNCHANGED <<now, strayed>>

(***************************************************************************)
(* reserveTransactionExposure.  A reservation that is live is reported as  *)
(* granted and changes nothing (the retry of a prepare), and so does a     *)
(* refusal: neither is a step.                                             *)
(***************************************************************************)
Reserve(t) ==
  /\ ~Live(t)
  /\ Cost[t] <= PerTransactionCap
  /\ \A k \in KeysOf(t) : Exposure(k) + Cost[t] <= Limit(k)
  /\ counter' = [k \in Key |-> IF k \in KeysOf(t) THEN Charged(k, t) ELSE counter[k]]
  /\ reservation' = [reservation EXCEPT ![t] = now + Window]
  /\ UNCHANGED <<now, strayed>>

\* Fault: a release does not look at the counters first.
ReleaseUnguarded(t) ==
  /\ Live(t)
  /\ counter' = [k \in Key |-> IF k \in KeysOf(t) THEN Credited(k, t) ELSE counter[k]]
  /\ reservation' = [reservation EXCEPT ![t] = 0]
  /\ strayed' = strayed \cup {k \in KeysOf(t) : Older(t, k)}
  /\ UNCHANGED now

(***************************************************************************)
(* releaseTransactionExposure.  Without a live reservation it answers      *)
(* already_released; with a counter missing or too small it throws and     *)
(* changes nothing.  The amount check cannot fail here, because both calls *)
(* derive the amount from the same transaction (Cost).  Nothing compares   *)
(* the ages of counter and reservation: the cost may be taken from a       *)
(* counter that never counted it.                                          *)
(***************************************************************************)
Release(t) ==
  /\ Live(t)
  /\ \A k \in KeysOf(t) : Exposure(k) >= Cost[t]
  /\ counter' = [k \in Key |-> IF k \in KeysOf(t) THEN Credited(k, t) ELSE counter[k]]
  /\ reservation' = [reservation EXCEPT ![t] = 0]
  /\ strayed' = strayed \cup {k \in KeysOf(t) : Older(t, k)}
  /\ UNCHANGED now

Tick ==
  /\ now < MaxTime
  /\ now' = now + 1
  /\ strayed' = {k \in strayed : counter[k].expires > now + 1}   \* gone, forgotten
  /\ UNCHANGED <<counter, reservation>>

Next ==
  \/ \E t \in Transaction : Reserve(t) \/ Release(t)
  \/ Tick

Spec == Init /\ [][Next]_vars

-----------------------------------------------------------------------------
(***************************************************************************)
(* What the live reservations that a counter covers add up to.             *)
(***************************************************************************)
Charging(k) == {t \in Transaction : Live(t) /\ k \in KeysOf(t)}
Outstanding(k) == MapThenSumSet(LAMBDA t : Cost[t], Charging(k))

(***************************************************************************)
(* No counter ever shows more than its cap, whatever sequence of           *)
(* reservations, retries, releases and expiries led there (the reserve     *)
(* script checks all three limits before it adds to any of them).          *)
(***************************************************************************)
CapRespected == \A k \in Key : Exposure(k) <= Limit(k)

(***************************************************************************)
(* No phantom exposure: a counter never shows more than its live           *)
(* reservations add up to, so a retried prepare is not counted twice, a    *)
(* repeated release does not matter, and a wallet is never refused for     *)
(* sponsorship nobody holds.                                               *)
(***************************************************************************)
NoPhantomExposure == \A k \in Key : Exposure(k) <= Outstanding(k)

(***************************************************************************)
(* No uncounted sponsorship: a live counter shows all that the live        *)
(* reservations charged to it add up to, so the caps hold for what GASLESS *)
(* has really promised since the counter was made, and each of them can be *)
(* given back.  It fails only for a counter that a reservation older than  *)
(* itself was given back to: that release takes away what others hold.     *)
(***************************************************************************)
Own(k) == {t \in Charging(k) : CounterLive(k) /\ ~Older(t, k)}
OwnShare(k) == MapThenSumSet(LAMBDA t : Cost[t], Own(k))

CountsItsOwn == \A k \in Key \ strayed : Exposure(k) >= OwnShare(k)
=============================================================================
