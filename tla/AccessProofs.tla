---------------------------- MODULE AccessProofs ----------------------------
(***************************************************************************)
(* A solved challenge buys one browser session, for any number of tokens   *)
(* and of POSTs of /verify that carry them.  The argument: between         *)
(* Siteverify's answer and the lock a token is alive; once the lock has    *)
(* been taken it outlives the token; so whoever finds the lock free is the *)
(* first.                                                                  *)
(***************************************************************************)
EXTENDS Access, TLAPS

PostPlaces == {"limit", "siteverify", "lock", "save", "refused"}
Post == [at : PostPlaces, token : Tokens, heard : BOOLEAN]

TypeInv ==
  /\ token \in [Tokens -> [life : 0..TokenLife, lock : 0..LockLife, bought : Nat]]
  /\ post \in [Deliveries -> Post \cup {Idle}]

\* The POST of d carries t and is at this place.
Carries(d, t, place) == post[d] # Idle /\ post[d].token = t /\ post[d].at = place

Saving(t) == \E d \in Deliveries : Carries(d, t, "save")

ConfirmedAlive ==
  \A d \in Deliveries, t \in Tokens : Carries(d, t, "lock") => token[t].life > 0

\* A token that was locked since it was solved can be locked again only when it is dead.
LockOutlives ==
  \A t \in Tokens : token[t].bought > 0 \/ Saving(t) => token[t].life <= token[t].lock

OneBuys ==
  \A t \in Tokens :
    /\ token[t].bought <= 1
    /\ token[t].bought > 0 => ~Saving(t)
    /\ \A d, e \in Deliveries : Carries(d, t, "save") /\ Carries(e, t, "save") => d = e

AccessInv == TypeInv /\ ConfirmedAlive /\ LockOutlives /\ OneBuys

-----------------------------------------------------------------------------
(* A step that leaves tokens alone and moves nobody to the lock or past it. *)
LEMMA Quiet ==
  ASSUME AccessInv, token' = token,
         post' \in [Deliveries -> Post \cup {Idle}],
         \A d \in Deliveries, t \in Tokens : Carries(d, t, "save")' => Carries(d, t, "save"),
         \A d \in Deliveries, t \in Tokens :
            Carries(d, t, "lock")' => Carries(d, t, "lock") \/ token[t].life > 0
  PROVE  AccessInv'
<1>1. \A t \in Tokens : Saving(t)' => Saving(t)
  BY DEF Saving
<1>2. TypeInv'
  BY DEF AccessInv, TypeInv
<1>3. ConfirmedAlive'
  BY DEF AccessInv, ConfirmedAlive
<1>4. LockOutlives'
  BY <1>1 DEF AccessInv, LockOutlives
<1>5. OneBuys'
  BY <1>1 DEF AccessInv, OneBuys
<1> QED BY <1>2, <1>3, <1>4, <1>5 DEF AccessInv

LEMMA Still ==
  ASSUME AccessInv, token' = token, post' = post PROVE AccessInv'
<1>1. post' \in [Deliveries -> Post \cup {Idle}]
  BY DEF AccessInv, TypeInv
<1> QED BY <1>1, Quiet DEF Carries

(* A POST goes from one place to another, as Go does.                      *)
LEMMA GoMoves ==
  ASSUME AccessInv, NEW d \in Deliveries, post[d] # Idle, NEW place \in PostPlaces, Go(d, place)
  PROVE  /\ post' \in [Deliveries -> Post \cup {Idle}]
         /\ \A e \in Deliveries : e # d => post'[e] = post[e]
         /\ post'[d] # Idle /\ post'[d].at = place /\ post'[d].token = post[d].token
         /\ post[d].token \in Tokens
<1>1. post \in [Deliveries -> Post \cup {Idle}] /\ post[d] \in Post
  BY DEF AccessInv, TypeInv
<1>2. post' = [post EXCEPT ![d] = [post[d] EXCEPT !.at = place]]
  BY DEF Go
<1>3. /\ [post[d] EXCEPT !.at = place] \in Post
      /\ [post[d] EXCEPT !.at = place].at = place
      /\ [post[d] EXCEPT !.at = place].token = post[d].token
      /\ post[d].token \in Tokens
  BY <1>1 DEF Post
<1>4. "idle" \notin PostPlaces /\ Idle.at = "idle"
  BY DEF PostPlaces, Idle
<1>5. [post[d] EXCEPT !.at = place] # Idle
  BY <1>3, <1>4
<1> QED BY <1>1, <1>2, <1>3, <1>5

LEMMA NotIdle ==
  ASSUME AccessInv, NEW d \in Deliveries, post[d].at # "idle"
  PROVE  post[d] # Idle
BY DEF Idle

-----------------------------------------------------------------------------
(* A new token is one that nobody carries and nothing remembers.           *)
LEMMA SolveSafe ==
  ASSUME AccessInv, NEW d \in Deliveries, NEW t \in Tokens, Solve(d, t) PROVE AccessInv'
<1> DEFINE fresh == [life |-> TokenLife, lock |-> 0, bought |-> 0]
           arrival == [at |-> "limit", token |-> t, heard |-> TRUE]
<1>1. /\ Unused(t) /\ post[d] = Idle
      /\ token' = [token EXCEPT ![t] = fresh] /\ post' = [post EXCEPT ![d] = arrival]
  BY DEF Solve
<1>2. fresh \in [life : 0..TokenLife, lock : 0..LockLife, bought : Nat]
  BY AccessAssumption
<1>3. arrival \in Post
  BY DEF Post, PostPlaces
<1>4. TypeInv'
  BY <1>1, <1>2, <1>3 DEF AccessInv, TypeInv
<1>5. \A e \in Deliveries, u \in Tokens :
        /\ Carries(e, u, "save")' => Carries(e, u, "save") /\ u # t
        /\ Carries(e, u, "lock")' => Carries(e, u, "lock") /\ u # t
  <2> TAKE e \in Deliveries, u \in Tokens
  <2>1. CASE e = d
    BY <1>1, <2>1 DEF Carries, AccessInv, TypeInv
  <2>2. CASE e # d
    BY <1>1, <2>2 DEF Carries, AccessInv, TypeInv, Unused
  <2> QED BY <2>1, <2>2
<1>6. /\ token'[t] = fresh /\ ~Saving(t)'
      /\ \A u \in Tokens \ {t} : token'[u] = token[u] /\ (Saving(u)' => Saving(u))
  BY <1>1, <1>5 DEF AccessInv, TypeInv, Saving
<1> HIDE DEF fresh, arrival
<1>7. ConfirmedAlive'
  BY <1>5, <1>6 DEF AccessInv, ConfirmedAlive
<1>8. LockOutlives'
  BY <1>6, AccessAssumption DEF AccessInv, LockOutlives, fresh
<1>9. OneBuys'
  BY <1>5, <1>6 DEF AccessInv, OneBuys, fresh
<1> QED BY <1>4, <1>7, <1>8, <1>9 DEF AccessInv

LEMMA RepeatSafe ==
  ASSUME AccessInv, NEW d \in Deliveries, NEW e \in Deliveries, Repeat(d, e) PROVE AccessInv'
<1> DEFINE again == [post[d] EXCEPT !.at = "limit", !.heard = FALSE]
<1>1. post[d] \in Post /\ post' = [post EXCEPT ![e] = again] /\ token' = token
  BY DEF Repeat, AccessInv, TypeInv
<1>2. again \in Post /\ again.at = "limit"
  BY <1>1 DEF Post, PostPlaces
<1> HIDE DEF again
<1>3. post' \in [Deliveries -> Post \cup {Idle}]
  BY <1>1, <1>2 DEF AccessInv, TypeInv
<1>4. \A c \in Deliveries, t \in Tokens, place \in {"save", "lock"} :
        Carries(c, t, place)' => Carries(c, t, place)
  BY <1>1, <1>2 DEF Carries, AccessInv, TypeInv
<1> QED BY <1>1, <1>3, <1>4, Quiet

(* Siteverify confirms only a token that is alive.                         *)
LEMMA SiteverifySafe ==
  ASSUME AccessInv, NEW d \in Deliveries, Siteverify(d) PROVE AccessInv'
<1>1. post[d] # Idle /\ token[post[d].token].life > 0 /\ Go(d, "lock") /\ token' = token
  BY NotIdle DEF Siteverify
<1>2. /\ post' \in [Deliveries -> Post \cup {Idle}]
      /\ \A e \in Deliveries : e # d => post'[e] = post[e]
      /\ post'[d].at = "lock" /\ post'[d].token = post[d].token
  BY <1>1, GoMoves DEF PostPlaces
<1> QED BY <1>1, <1>2, Quiet DEF Carries

LEMMA LimitedSafe ==
  ASSUME AccessInv, NEW d \in Deliveries, Limited(d) PROVE AccessInv'
<1>1. /\ post[d] # Idle /\ token' = token
      /\ \E place \in {"siteverify", "refused"} : Go(d, place)
  BY NotIdle DEF Limited
<1>2. PICK place \in {"siteverify", "refused"} : Go(d, place)
  BY <1>1
<1>3. /\ post' \in [Deliveries -> Post \cup {Idle}]
      /\ \A e \in Deliveries : e # d => post'[e] = post[e]
      /\ post'[d].at = place
  BY <1>1, <1>2, GoMoves DEF PostPlaces
<1> QED BY <1>1, <1>3, Quiet DEF Carries

(* The lock: a live token that was locked since it was solved still is.    *)
LEMMA LockSafe ==
  ASSUME AccessInv, NEW d \in Deliveries, Lock(d) PROVE AccessInv'
<1> DEFINE t == post[d].token
<1>1. post[d] # Idle /\ post[d].at = "lock"
  BY NotIdle DEF Lock
<1>2. CASE token[t].lock # 0
  <2>1. Go(d, "refused") /\ token' = token
    BY <1>2 DEF Lock
  <2>2. /\ post' \in [Deliveries -> Post \cup {Idle}]
        /\ \A e \in Deliveries : e # d => post'[e] = post[e]
        /\ post'[d].at = "refused"
    BY <1>1, <2>1, GoMoves DEF PostPlaces
  <2> QED BY <2>1, <2>2, Quiet DEF Carries
<1>3. CASE token[t].lock = 0
  <2>1. Go(d, "save") /\ token' = [token EXCEPT ![t].lock = LockLife]
    BY <1>3 DEF Lock
  <2>2. /\ post' \in [Deliveries -> Post \cup {Idle}]
        /\ \A e \in Deliveries : e # d => post'[e] = post[e]
        /\ post'[d] # Idle /\ post'[d].at = "save" /\ post'[d].token = t /\ t \in Tokens
    BY <1>1, <2>1, GoMoves DEF PostPlaces
  <2>3. Carries(d, t, "lock") /\ token[t].life > 0
    BY <1>1, <2>2 DEF Carries, AccessInv, ConfirmedAlive
  <2>4. ~Saving(t) /\ token[t].bought = 0
    <3>1. ~(token[t].life <= token[t].lock)
      BY <1>3, <2>2, <2>3 DEF AccessInv, TypeInv
    <3> QED BY <2>2, <3>1 DEF AccessInv, LockOutlives, TypeInv
  <2>5. /\ token' \in [Tokens -> [life : 0..TokenLife, lock : 0..LockLife, bought : Nat]]
        /\ token'[t].life = token[t].life /\ token'[t].lock = LockLife /\ token'[t].bought = 0
        /\ \A u \in Tokens \ {t} : token'[u] = token[u]
    BY <2>1, <2>2, <2>4, AccessAssumption DEF AccessInv, TypeInv
  <2>6. \A e \in Deliveries, u \in Tokens :
          /\ Carries(e, u, "save")' => Carries(e, u, "save") \/ (e = d /\ u = t)
          /\ Carries(e, u, "lock")' => Carries(e, u, "lock")
    BY <2>2 DEF Carries
  <2> HIDE DEF t
  <2>7. TypeInv'
    BY <2>2, <2>5 DEF TypeInv
  <2>8. ConfirmedAlive'
    BY <2>2, <2>3, <2>5, <2>6 DEF AccessInv, ConfirmedAlive
  <2>9. LockOutlives'
    <3> SUFFICES ASSUME NEW u \in Tokens, token'[u].bought > 0 \/ Saving(u)'
                 PROVE  token'[u].life <= token'[u].lock
      BY DEF LockOutlives
    <3>1. CASE u = t
      BY <2>2, <2>5, <3>1, AccessAssumption DEF AccessInv, TypeInv
    <3>2. CASE u # t
      <4>1. token'[u] = token[u] /\ (Saving(u)' => Saving(u))
        BY <2>5, <2>6, <3>2 DEF Saving
      <4> QED BY <4>1 DEF AccessInv, LockOutlives
    <3> QED BY <3>1, <3>2
  <2>10. OneBuys'
    BY <2>2, <2>4, <2>5, <2>6 DEF AccessInv, OneBuys, Saving
  <2> QED BY <2>7, <2>8, <2>9, <2>10 DEF AccessInv
<1> QED BY <1>2, <1>3

(* The session is saved by the one that took the lock.                     *)
LEMMA SaveSafe ==
  ASSUME AccessInv, NEW d \in Deliveries, Save(d) PROVE AccessInv'
<1>0. PICK t \in Tokens : post[d] # Idle /\ post[d].token = t
  BY NotIdle DEF Save, AccessInv, TypeInv, Post
<1>1. /\ post[d] # Idle /\ post[d].at = "save"
      /\ token' = [token EXCEPT ![t].bought = @ + 1]
      /\ post' = [post EXCEPT ![d] = Idle]
  BY <1>0 DEF Save
<1>2. Carries(d, t, "save")
  BY <1>0, <1>1 DEF Carries
<1>3. token[t].bought = 0
  <2>1. Saving(t) /\ token[t].bought \in Nat
    BY <1>2 DEF AccessInv, TypeInv, Saving
  <2>2. OneBuys
    BY DEF AccessInv
  <2>3. token[t].bought > 0 => ~Saving(t)
    BY <1>2, <2>2 DEF OneBuys
  <2> QED BY <2>1, <2>3
<1>4. /\ token' \in [Tokens -> [life : 0..TokenLife, lock : 0..LockLife, bought : Nat]]
      /\ token'[t].life = token[t].life /\ token'[t].lock = token[t].lock
      /\ token'[t].bought = 1
      /\ \A u \in Tokens \ {t} : token'[u] = token[u]
  BY <1>1, <1>2, <1>3 DEF AccessInv, TypeInv
<1>5. post' \in [Deliveries -> Post \cup {Idle}]
  BY <1>1 DEF AccessInv, TypeInv
<1>6. \A e \in Deliveries, u \in Tokens :
        /\ Carries(e, u, "save")' => Carries(e, u, "save") /\ e # d
        /\ Carries(e, u, "lock")' => Carries(e, u, "lock")
  BY <1>1 DEF Carries, AccessInv, TypeInv
<1>7. ~Saving(t)' /\ \A u \in Tokens : Saving(u)' => Saving(u)
  <2>1. \A e \in Deliveries : Carries(e, t, "save") => e = d
    <3>1. OneBuys
      BY DEF AccessInv
    <3> QED BY <1>2, <3>1 DEF OneBuys
  <2>2. \A e \in Deliveries : ~Carries(e, t, "save")'
    BY <1>2, <1>6, <2>1
  <2> QED BY <1>6, <2>2 DEF Saving
<1>8. token[t].life <= token[t].lock
  BY <1>2 DEF AccessInv, LockOutlives, Saving
<1>9. TypeInv'
  BY <1>4, <1>5 DEF TypeInv
<1>10. ConfirmedAlive'
  BY <1>2, <1>4, <1>6 DEF AccessInv, ConfirmedAlive
<1>11. LockOutlives'
  BY <1>2, <1>4, <1>7, <1>8 DEF AccessInv, LockOutlives
<1>12. OneBuys'
  BY <1>2, <1>4, <1>6, <1>7 DEF AccessInv, OneBuys
<1> QED BY <1>9, <1>10, <1>11, <1>12 DEF AccessInv

LEMMA RefuseSafe ==
  ASSUME AccessInv, NEW d \in Deliveries, Refuse(d) PROVE AccessInv'
<1>1. post' = [post EXCEPT ![d] = Idle] /\ token' = token
  BY DEF Refuse
<1>2. post' \in [Deliveries -> Post \cup {Idle}]
  BY <1>1 DEF AccessInv, TypeInv
<1>3. \A e \in Deliveries : post'[e] = post[e] \/ post'[e] = Idle
  BY <1>1 DEF AccessInv, TypeInv
<1> QED BY <1>1, <1>2, <1>3, Quiet DEF Carries

(* The page starts over: nobody hears what is under way, which goes on.    *)
LEMMA RestartedSafe ==
  ASSUME AccessInv, NEW cookie, Restarted(cookie) PROVE AccessInv'
<1>1. /\ token' = token
      /\ post' = [d \in Deliveries |->
                   IF post[d] = Idle THEN Idle ELSE [post[d] EXCEPT !.heard = FALSE]]
  BY DEF Restarted
<1>2. \A d \in Deliveries : post[d] # Idle =>
        /\ [post[d] EXCEPT !.heard = FALSE] \in Post
        /\ [post[d] EXCEPT !.heard = FALSE].at = post[d].at
        /\ [post[d] EXCEPT !.heard = FALSE].token = post[d].token
  BY DEF AccessInv, TypeInv, Post
<1>3. post' \in [Deliveries -> Post \cup {Idle}]
  BY <1>1, <1>2
<1>4. \A d \in Deliveries, t \in Tokens, place \in {"save", "lock"} :
        Carries(d, t, place)' => Carries(d, t, place)
  BY <1>1, <1>2 DEF Carries
<1> QED BY <1>1, <1>3, <1>4, Quiet

(* Time takes as much from a lock as from its token.                       *)
LEMMA TickSafe ==
  ASSUME AccessInv, Tick PROVE AccessInv'
<1>1. /\ \A d \in Deliveries : post[d].at # "lock"
      /\ token' = [t \in Tokens |-> [token[t] EXCEPT !.life = Less(@), !.lock = Less(@)]]
      /\ post' = post
  BY DEF Tick
<1>2. \A t \in Tokens :
        /\ token'[t].life = Less(token[t].life) /\ token'[t].lock = Less(token[t].lock)
        /\ token'[t].bought = token[t].bought
        /\ token'[t] \in [life : 0..TokenLife, lock : 0..LockLife, bought : Nat]
  <2> TAKE t \in Tokens
  <2>1. /\ token[t] \in [life : 0..TokenLife, lock : 0..LockLife, bought : Nat]
        /\ token'[t] = [token[t] EXCEPT !.life = Less(token[t].life), !.lock = Less(token[t].lock)]
    BY <1>1 DEF AccessInv, TypeInv
  <2>2. Less(token[t].life) \in 0..TokenLife /\ Less(token[t].lock) \in 0..LockLife
    BY <2>1, AccessAssumption DEF Less
  <2> QED BY <2>1, <2>2
<1>3. TypeInv'
  BY <1>1, <1>2 DEF AccessInv, TypeInv
<1>4. ConfirmedAlive'
  BY <1>1 DEF ConfirmedAlive, Carries
<1>5. LockOutlives'
  <2> SUFFICES ASSUME NEW t \in Tokens, token'[t].bought > 0 \/ Saving(t)'
               PROVE  token'[t].life <= token'[t].lock
    BY DEF LockOutlives
  <2>1. token[t].life <= token[t].lock
    BY <1>1, <1>2 DEF AccessInv, LockOutlives, Saving, Carries
  <2>2. token[t].life \in Nat /\ token[t].lock \in Nat
    BY AccessAssumption DEF AccessInv, TypeInv
  <2> QED BY <1>2, <2>1, <2>2 DEF Less
<1>6. OneBuys'
  BY <1>1, <1>2 DEF AccessInv, OneBuys, Saving, Carries
<1> QED BY <1>3, <1>4, <1>5, <1>6 DEF AccessInv

-----------------------------------------------------------------------------
LEMMA AccessInvInitially == Init => AccessInv
<1> SUFFICES ASSUME Init PROVE AccessInv
  OBVIOUS
<1>1. /\ post = [d \in Deliveries |-> Idle]
      /\ token = [t \in Tokens |-> [life |-> 0, lock |-> 0, bought |-> 0]]
  BY DEF Init
<1>2. TypeInv
  BY <1>1, AccessAssumption DEF TypeInv
<1>3. \A d \in Deliveries, t \in Tokens, place \in {"save", "lock"} : ~Carries(d, t, place)
  BY <1>1 DEF Carries
<1>4. ConfirmedAlive /\ LockOutlives /\ OneBuys
  BY <1>1, <1>3 DEF ConfirmedAlive, LockOutlives, OneBuys, Saving
<1> QED BY <1>2, <1>4 DEF AccessInv

LEMMA AccessInvInductive ==
  ASSUME AccessInv, [Next]_vars PROVE AccessInv'
<1>1. CASE UNCHANGED vars
  BY <1>1, Still DEF vars
<1>2. CASE GateNext
  <2>1. CASE Check \/ GateFails
    BY <2>1, Still DEF Check, GateFails
  <2>2. CASE TryAgain \/ Reload
    BY <2>2, RestartedSafe DEF TryAgain, Reload
  <2>3. ASSUME NEW d \in Deliveries, NEW t \in Tokens, Solve(d, t) PROVE AccessInv'
    BY <2>3, SolveSafe
  <2>4. ASSUME NEW d \in Deliveries, NEW e \in Deliveries, Repeat(d, e) PROVE AccessInv'
    BY <2>4, RepeatSafe
  <2>5. ASSUME NEW d \in Deliveries,
               Limited(d) \/ Siteverify(d) \/ Lock(d) \/ Answered(d) \/ AnswerLost(d) \/ Refuse(d)
        PROVE AccessInv'
    BY <2>5, LimitedSafe, SiteverifySafe, LockSafe, SaveSafe, RefuseSafe DEF Answered, AnswerLost
  <2> QED BY <1>2, <2>1, <2>2, <2>3, <2>4, <2>5 DEF GateNext
<1>3. CASE RequestsNext
  <2>1. token' = token /\ post' = post
    BY <1>3 DEF RequestsNext, Ask, Startup, Browser, Wallet, Controls, Rate, Route, Done, Control,
                Restart
  <2> QED BY <2>1, Still
<1>4. CASE Tick
  BY <1>4, TickSafe
<1> QED BY <1>1, <1>2, <1>3, <1>4 DEF Next

(* For any number of tokens and deliveries, however they race, repeat and  *)
(* are lost: a token buys at most one browser session.                     *)
THEOREM OneSessionPerToken == Spec => []TokenBuysOneSession
<1>1. AccessInv /\ [Next]_vars => AccessInv'
  BY AccessInvInductive
<1>2. AccessInv => TokenBuysOneSession
  BY DEF AccessInv, OneBuys, TokenBuysOneSession
<1> QED BY AccessInvInitially, <1>1, <1>2, PTL DEF Spec

=============================================================================
