------------------------------- MODULE Access -------------------------------
(***************************************************************************)
(* Who gets in: the page's verification gate, the service that trades a    *)
(* Turnstile token for a browser session, the wallet session, and the      *)
(* checks index.ts makes, in their order, before it routes a request.      *)
(*                                                                         *)
(* One page behind one client address.  The temporary store's keys count   *)
(* down to their expiry with Tick, so every behaviour goes on for ever.    *)
(* The gate and the requests behind it share nothing but a browser session *)
(* that lives or does not: a behaviour is of the page before it is let in, *)
(* or of the requests it makes with a session it was given.                *)
(***************************************************************************)
EXTENDS Naturals, FiniteSets

CONSTANTS
  Tokens,        \* the challenges the page may have solved and not yet lost
  Deliveries,    \* POSTs of /verify the server may be handling at a time
  Requests,      \* other requests it may be handling at a time
  ChallengeLimit, RouteLimit,   \* requests a rate window lets through
  TokenLife, LockLife, Window,  \* each 300 seconds in the code; in Ticks here
  MaxRepeats,    \* POSTs that reach the server twice
  BrowserLife, WalletLife       \* BROWSER_VERIFICATION_TTL, GASLESS_SESSION_TTL

\* A lock lives no shorter than the token it is taken for.
ASSUME AccessAssumption ==
  /\ TokenLife \in Nat /\ LockLife \in Nat /\ TokenLife <= LockLife
  /\ Window \in Nat \ {0} /\ BrowserLife \in Nat \ {0} /\ WalletLife \in Nat \ {0}
  /\ ChallengeLimit \in Nat /\ RouteLimit \in Nat /\ MaxRepeats \in Nat

NoToken == "none"

VARIABLES
  page,      \* the gate: its state, whether its widget is rendered, its cookie
  post,      \* post[d]: a POST of /verify under way
  token,     \* token[t]: Turnstile's side, the replay lock, and ghost bought
  session,   \* the browser sessions, each named by the token it was bought with
  wallet,    \* what is left of the wallet session the page holds
  rate,      \* the rate windows: [count, left]
  server,    \* the instance's startup validation, and the emergency controls
  request,   \* request[r]: the check an API request waits for, and its kind
  half       \* which of the two this behaviour is about

vars == <<page, post, token, session, wallet, rate, server, request, half>>

Idle == [at |-> "idle"]
Handled == {"session", "act", "read", "loose"}

GateInit ==
  /\ half = "gate"
  /\ page = [gate |-> "checking", widget |-> FALSE, cookie |-> NoToken, repeats |-> 0]
  /\ session = [t \in Tokens |-> 0]

RequestsInit ==
  /\ half = "requests"
  /\ page = [gate |-> "verified", widget |-> FALSE, cookie |-> CHOOSE t \in Tokens : TRUE,
             repeats |-> 0]
  /\ session = [t \in Tokens |-> IF t = page.cookie THEN BrowserLife ELSE 0]

Init ==
  /\ GateInit \/ RequestsInit
  /\ post = [d \in Deliveries |-> Idle]
  /\ token = [t \in Tokens |-> [life |-> 0, lock |-> 0, bought |-> 0]]
  /\ wallet = 0
  /\ rate = [k \in {"challenge", "session", "act", "read"} |-> [count |-> 0, left |-> 0]]
  /\ server = [startup |-> "unset", enabled |-> TRUE]
  /\ request = [r \in Requests |-> Idle]

-----------------------------------------------------------------------------
\* Fault: every attempt prolongs the window it is counted in.
ConsumedProlonging(k, limit) ==
  [count |-> IF rate[k].left = 0 THEN 1
             ELSE IF rate[k].count > limit THEN rate[k].count ELSE rate[k].count + 1,
   left |-> Window]

(* The rate counters.  A window starts with its first request and is never *)
(* prolonged; the count goes on beyond the limit and is capped here.       *)
Consumed(k, limit) ==
  IF rate[k].left = 0 THEN [count |-> 1, left |-> Window]
  ELSE [rate[k] EXCEPT !.count = IF @ > limit THEN @ ELSE @ + 1]

Consume(k, limit) == rate' = [rate EXCEPT ![k] = Consumed(k, limit)]
WithinLimit(k, limit) == Consumed(k, limit).count <= limit

(* BrowserVerificationService.require.  A session is bound to the browser  *)
(* by its user agent: to one that was updated, its cookie is worth nothing. *)
Verified(t) == t # NoToken /\ session[t] > 0

-----------------------------------------------------------------------------
(* The gate.  Its first request asks whether the cookie still stands.      *)
Check ==
  /\ page.gate = "checking"
  /\ page' = IF Verified(page.cookie) THEN [page EXCEPT !.gate = "verified"]
             ELSE [page EXCEPT !.gate = "challenging", !.widget = TRUE]
  /\ UNCHANGED <<post, token, session, wallet, rate, server, request>>

\* A request of the gate fails, the widget's script does not load, or the
\* widget reports an error, which it may do after the gate has opened too.
GateFails ==
  /\ page.gate = "checking" \/ page.widget
  /\ page' = [page EXCEPT !.gate = "failed"]
  /\ UNCHANGED <<post, token, session, wallet, rate, server, request>>

\* The effect starts over: the widget goes, and what is under way is cancelled.
Restarted(cookie) ==
  /\ page' = [page EXCEPT !.gate = "checking", !.widget = FALSE, !.cookie = cookie]
  /\ post' = [d \in Deliveries |-> IF post[d] = Idle THEN Idle ELSE [post[d] EXCEPT !.heard = FALSE]]
  /\ UNCHANGED <<token, session, wallet, rate, server, request>>

TryAgain == page.gate = "failed" /\ Restarted(page.cookie)

\* A page that is open is loaded again, perhaps by an updated browser.
Reload == page.gate = "verified" /\ \E cookie \in {page.cookie, NoToken} : Restarted(cookie)

(* The widget has a token: a new one, or another when the last expired.  A *)
(* token that nothing remembers any more stands for a new one; a cookie of  *)
(* its session is worth no more than none.                                  *)
Unused(t) ==
  /\ token[t].life = 0 /\ token[t].lock = 0 /\ session[t] = 0
  /\ \A d \in Deliveries : post[d] # Idle => post[d].token # t

Solve(d, t) ==
  /\ page.widget /\ page.gate # "failed" /\ Unused(t) /\ post[d] = Idle
  /\ \A e \in Deliveries : post[e] # Idle => ~post[e].heard
  /\ token' = [token EXCEPT ![t] = [life |-> TokenLife, lock |-> 0, bought |-> 0]]
  /\ post' = [post EXCEPT ![d] = [at |-> "limit", token |-> t, heard |-> TRUE]]
  /\ page' = [page EXCEPT !.cookie = IF @ = t THEN NoToken ELSE @]
  /\ UNCHANGED <<session, wallet, rate, server, request>>

\* The request reaches the server twice; nobody hears the second answer.
Repeat(d, e) ==
  /\ post[d] # Idle /\ post[d].heard /\ post[e] = Idle
  /\ page.repeats < MaxRepeats /\ page' = [page EXCEPT !.repeats = @ + 1]
  /\ post' = [post EXCEPT ![e] = [post[d] EXCEPT !.at = "limit", !.heard = FALSE]]
  /\ UNCHANGED <<token, session, wallet, rate, server, request>>

-----------------------------------------------------------------------------
(* POST /api/browser-verification/verify *)
Go(d, place) == post' = [post EXCEPT ![d].at = place]

Limited(d) ==
  /\ post[d].at = "limit" /\ Consume("challenge", ChallengeLimit)
  /\ Go(d, IF WithinLimit("challenge", ChallengeLimit) THEN "siteverify" ELSE "refused")
  /\ UNCHANGED <<page, token, session, wallet, server, request>>

\* The idempotency key is the request's own, so a repeated token is confirmed again.
Siteverify(d) ==
  /\ post[d].at = "siteverify" /\ token[post[d].token].life > 0
  /\ Go(d, "lock")
  /\ UNCHANGED <<page, token, session, wallet, rate, server, request>>

\* Fault: the lock is taken whether or not another request holds it.
LockAnyway(d) ==
  /\ post[d].at = "lock" /\ Go(d, "save")
  /\ token' = [token EXCEPT ![post[d].token].lock = LockLife]
  /\ UNCHANGED <<page, session, wallet, rate, server, request>>

Lock(d) ==
  /\ post[d].at = "lock"
  /\ IF token[post[d].token].lock = 0
     THEN Go(d, "save") /\ token' = [token EXCEPT ![post[d].token].lock = LockLife]
     ELSE Go(d, "refused") /\ UNCHANGED token
  /\ UNCHANGED <<page, session, wallet, rate, server, request>>

Save(d) ==
  /\ post[d].at = "save"
  /\ session' = [session EXCEPT ![post[d].token] = BrowserLife]
  /\ token' = [token EXCEPT ![post[d].token].bought = @ + 1]
  /\ post' = [post EXCEPT ![d] = Idle]
  /\ UNCHANGED <<wallet, rate, server, request>>

Answered(d) ==
  /\ Save(d)
  /\ page' = [page EXCEPT !.cookie = IF post[d].heard THEN post[d].token ELSE @,
                          !.gate = IF post[d].heard THEN "verified" ELSE @]

AnswerLost(d) ==
  /\ Save(d)
  /\ page' = [page EXCEPT !.gate = IF post[d].heard THEN "failed" ELSE @]

\* The handler throws, the token is refused, or the answer is lost on its way.
Refuse(d) ==
  /\ post[d] # Idle
  /\ page' = [page EXCEPT !.gate = IF post[d].heard THEN "failed" ELSE @]
  /\ post' = [post EXCEPT ![d] = Idle]
  /\ UNCHANGED <<token, session, wallet, rate, server, request>>

-----------------------------------------------------------------------------
(* Every other request: the checks of handleRequest, each after an await.  *)
(* "act" stands for the routes that sponsor, "read" for discovery, and     *)
(* "loose" for a route the risk checks do not name: it only asks for the   *)
(* wallet session.  The page's address has one wallet, so the counters of  *)
(* the address and of the wallet are one.                                  *)
At(r, place) == request[r] # Idle /\ request[r].at = place
Pass(r, place) == request' = [request EXCEPT ![r].at = place]

Ask(r, kind) ==
  /\ page.gate = "verified" /\ request[r] = Idle
  /\ request' = [request EXCEPT ![r] = [at |-> "startup", kind |-> kind]]
  /\ UNCHANGED <<page, post, token, session, wallet, rate, server>>

\* The instance validates once, and remembers how that ended.
Startup(r) ==
  /\ At(r, "startup")
  /\ \E outcome \in {"valid", "failed"} :
       server' = IF server.startup = "unset" THEN [server EXCEPT !.startup = outcome] ELSE server
  /\ IF server'.startup = "valid" THEN Pass(r, "browser") ELSE Pass(r, "refused")
  /\ UNCHANGED <<page, post, token, session, wallet, rate>>

Browser(r) ==
  /\ At(r, "browser") /\ Verified(page.cookie)
  /\ Pass(r, CASE request[r].kind = "session" -> "rate"
               [] request[r].kind = "loose" -> "route"
               [] OTHER -> "wallet")
  /\ UNCHANGED <<page, post, token, session, wallet, rate, server>>

Wallet(r) ==
  /\ At(r, "wallet") /\ wallet > 0
  /\ Pass(r, IF request[r].kind = "act" THEN "controls" ELSE "rate")
  /\ UNCHANGED <<page, post, token, session, wallet, rate, server>>

Controls(r) ==
  /\ At(r, "controls") /\ server.enabled
  /\ Pass(r, "rate")
  /\ UNCHANGED <<page, post, token, session, wallet, rate, server>>

Rate(r) ==
  /\ At(r, "rate") /\ Consume(request[r].kind, RouteLimit)
  /\ Pass(r, IF WithinLimit(request[r].kind, RouteLimit) THEN "route" ELSE "refused")
  /\ UNCHANGED <<page, post, token, session, wallet, server>>

\* The route itself: a new wallet session, or the engine under the old one.
Route(r) ==
  /\ At(r, "route")
  /\ IF request[r].kind = "session" THEN wallet' = WalletLife
     ELSE wallet > 0 /\ UNCHANGED wallet
  /\ Pass(r, "served")
  /\ UNCHANGED <<page, post, token, session, rate, server>>

\* Answered, or refused for what this module abstracts from: a wallet that is
\* not on the allowlist, a relayer that is low, a body that is too large.
Done(r) ==
  /\ request[r] # Idle /\ request' = [request EXCEPT ![r] = Idle]
  /\ UNCHANGED <<page, post, token, session, wallet, rate, server>>

-----------------------------------------------------------------------------
\* The operator flips a control.
Control ==
  /\ server' = [server EXCEPT !.enabled = ~@]
  /\ UNCHANGED <<page, post, token, session, wallet, rate, request>>

\* The instance is replaced: what it was handling is lost, the store stays.
\* (Seen from the gate, every POST under way ends in Refuse.)
Restart ==
  /\ server' = [server EXCEPT !.startup = "unset"]
  /\ request' = [r \in Requests |-> Idle]
  /\ UNCHANGED <<page, post, token, session, wallet, rate>>

\* Time passes.  On this scale a POST is counted as it arrives, and it takes no
\* time from Siteverify's answer to the lock.
Less(n) == IF n = 0 THEN 0 ELSE n - 1
Tick ==
  /\ \A d \in Deliveries : post[d].at \notin {"limit", "lock"}
  /\ token' = [t \in Tokens |-> [token[t] EXCEPT !.life = Less(@), !.lock = Less(@)]]
  /\ session' = [t \in Tokens |-> Less(session[t])]
  /\ wallet' = Less(wallet)
  /\ rate' = [k \in DOMAIN rate |-> IF rate[k].left <= 1 THEN [count |-> 0, left |-> 0]
                                    ELSE [rate[k] EXCEPT !.left = @ - 1]]
  /\ UNCHANGED <<page, post, server, request>>

GateNext ==
  \/ Check \/ GateFails \/ TryAgain \/ Reload
  \/ \E d \in Deliveries :
       \/ \E t \in Tokens : Solve(d, t)
       \/ \E e \in Deliveries : Repeat(d, e)
       \/ Limited(d) \/ Siteverify(d) \/ Lock(d) \/ Answered(d) \/ AnswerLost(d) \/ Refuse(d)

RequestsNext ==
  \/ \E r \in Requests :
       \/ \E kind \in Handled : Ask(r, kind)
       \/ Startup(r) \/ Browser(r) \/ Wallet(r) \/ Controls(r) \/ Rate(r) \/ Route(r) \/ Done(r)
  \/ Control \/ Restart

Next ==
  /\ UNCHANGED half
  /\ \/ half = "gate" /\ GateNext
     \/ half = "requests" /\ RequestsNext
     \/ Tick

Spec == Init /\ [][Next]_vars

(***************************************************************************)
(* The user tries again whenever the gate fails, time passes, and each     *)
(* step that can fail, Turnstile's challenge included, succeeds if it is   *)
(* tried often enough.                                                     *)
(***************************************************************************)
\* What the server answers no to, a token that Turnstile no longer knows too;
\* and a handler nobody hears comes to its end.
Refused(d) ==
  /\ post[d] # Idle
  /\ \/ post[d].at = "refused" \/ ~post[d].heard
     \/ post[d].at = "siteverify" /\ token[post[d].token].life = 0
  /\ Refuse(d)

AtGate(A) == half = "gate" /\ A /\ UNCHANGED half
Heard(d) == post[d] # Idle /\ post[d].heard
PatientSpec ==
  /\ Spec
  /\ WF_vars(AtGate(TryAgain)) /\ WF_vars(AtGate(Tick)) /\ SF_vars(AtGate(Check))
  /\ SF_vars(AtGate(\E d \in Deliveries, t \in Tokens : Solve(d, t)))
  /\ SF_vars(WithinLimit("challenge", ChallengeLimit)
               /\ AtGate(\E d \in Deliveries : Heard(d) /\ Limited(d)))
  /\ SF_vars(AtGate(\E d \in Deliveries : Heard(d) /\ Siteverify(d)))
  /\ SF_vars(AtGate(\E d \in Deliveries : Heard(d) /\ Lock(d)))
  /\ SF_vars(AtGate(\E d \in Deliveries : Heard(d) /\ Answered(d)))
  /\ \A d \in Deliveries : WF_vars(AtGate(Limited(d) \/ Lock(d) \/ Refused(d)))

-----------------------------------------------------------------------------
(* A solved challenge buys one browser session, however often it is posted *)
(* and however the handlers interleave: Turnstile confirms a token again   *)
(* under the same request id, so only the replay lock says no.             *)
TokenBuysOneSession == \A t \in Tokens : token[t].bought <= 1

(* A user who keeps trying gets in, whatever has failed before: tokens     *)
(* that were spent without a session, lost answers, a full rate window.    *)
GateOpens == page.gate = "failed" ~> page.gate = "verified"
=============================================================================
