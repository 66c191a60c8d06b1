---------------------------- MODULE ApiClient_proofs ----------------------------
(***************************************************************************)
(* Theorems about ApiClient, for every set of calls, of lifetimes and      *)
(* every margin that outlasts two requests: the token of a request         *)
(* outlives it, none is used after a refusal, and none is fetched while    *)
(* another will do.                                                        *)
(***************************************************************************)
EXTENDS ApiClient, TLAPS

-----------------------------------------------------------------------------
\* The inductive invariant

Requesting(r) == r.pc \in {"authenticating", "listing"}

\* A request under way has begun and not used up its timeout.
OnTime(r, t) == Requesting(r) => r.since <= t /\ t <= r.since + Timeout

\* The client's reckoning of a token's end is late by one request at most.
Reckoned(k, n) == k.ends <= k.dies + Timeout /\ k.id <= n

LongLives == \A life \in Lifetimes : life > 2 * Timeout

\* The plant list is asked for with a token that outlives the request.
Fresh(r, n) ==
  r.pc = "listing" =>
    /\ r.using # NoToken
    /\ r.using.id <= n
    /\ LongLives => r.using.dies > r.since + Timeout

IInv ==
  /\ TypeOK
  /\ \A c \in Calls : OnTime(call[c], now) /\ Fresh(call[c], issued)
  /\ token # NoToken => Reckoned(token, issued)
  /\ refused \subseteq 1 .. issued
  /\ RefusedTokenForgotten
  /\ NeverBaseless

-----------------------------------------------------------------------------
\* What the steps have in common

LEMMA Known ==
  ASSUME IInv
  PROVE  /\ now \in Nat /\ issued \in Nat /\ issued <= MaxTokens
         /\ token \in TokenType \cup {NoToken}
         /\ \A k \in TokenType : k # NoToken /\ k.id \in Nat /\ k.ends \in Nat
                                 /\ k.dies \in Nat
         /\ call \in [Calls -> CallType]
         /\ \A c \in Calls : call[c] \in CallType /\ call[c].since \in Nat
         /\ waiters \in Seq(Calls)
         /\ Timeout \in Nat /\ Margin \in Nat /\ MaxTokens \in Nat
         /\ Margin >= 2 * Timeout
         /\ baseless = FALSE
  BY TimeAssumption, MarginAssumption, TokenAssumption
  DEF IInv, TypeOK, NeverBaseless, TokenType, CallType

\* Where no token is issued or refused.
LEMMA NoMore ==
  ASSUME IInv, issued' = issued, refused' = refused
  PROVE  issued' \in issued .. MaxTokens /\ refused' \subseteq 1 .. issued
<1>1. issued \in Nat /\ issued <= MaxTokens /\ MaxTokens \in Nat
  BY Known
<1>2. issued \in issued .. MaxTokens
  BY <1>1
<1>3. refused \subseteq 1 .. issued
  BY DEF IInv
<1> QED
  BY <1>2, <1>3

\* The states a call may be put in.
Authenticating == [Idle EXCEPT !.pc = "authenticating", !.since = now]
Waiting == [Idle EXCEPT !.pc = "lock"]
Listing(k) == [pc |-> "listing", since |-> now, using |-> k]

LEMMA CallStates ==
  ASSUME IInv
  PROVE  /\ Idle \in CallType /\ Idle.pc = "idle"
         /\ Waiting \in CallType /\ Waiting.pc = "lock"
         /\ Authenticating \in CallType /\ Authenticating.pc = "authenticating"
         /\ Authenticating.since = now
         /\ \A k \in TokenType :
              /\ Listing(k) \in CallType
              /\ Listing(k).pc = "listing"
              /\ Listing(k).since = now
              /\ Listing(k).using = k
  BY Known DEF Idle, Waiting, Authenticating, Listing, CallType

\* A call takes another state r, with the lock to match; the token, time and what
\* was refused stay or grow as the caller shows.
LEMMA BecomeInv ==
  ASSUME IInv, NEW c \in Calls, NEW r \in CallType, Become(c, r),
         now' = now, waiters' \in Seq(Calls),
         token' \in TokenType \cup {NoToken},
         issued' \in issued .. MaxTokens, refused' \subseteq 1 .. issued,
         baseless' = baseless,
         OnTime(r, now), Fresh(r, issued'),
         token' # NoToken => Reckoned(token', issued'),
         token' # NoToken => token'.id \notin refused',
         r.pc = "authenticating" <=> holder' = c,
         \A d \in Calls \ {c} : holder' = d <=> holder = d
  PROVE  IInv'
<1>1. /\ call' \in [Calls -> CallType]
      /\ call'[c] = r
      /\ \A d \in Calls \ {c} : call'[d] = call[d]
  BY Known DEF Become
<1>2. issued' \in Nat /\ issued <= issued' /\ issued' <= MaxTokens
  BY Known
<1>3. refused' \subseteq 1 .. issued' /\ refused' \subseteq 1 .. MaxTokens
  BY <1>2, Known
<1>4. \A d \in Calls : call'[d].pc = "authenticating" <=> holder' = d
  BY <1>1 DEF IInv, TypeOK
<1>5. TypeOK'
  BY <1>1, <1>2, <1>3, <1>4, Known DEF TypeOK
<1>6. \A d \in Calls : OnTime(call'[d], now')
  BY <1>1 DEF IInv
<1>7. \A d \in Calls \ {c} : Fresh(call[d], issued')
  <2> SUFFICES ASSUME NEW d \in Calls \ {c} PROVE Fresh(call[d], issued')
    OBVIOUS
  <2>1. call[d] \in CallType /\ Fresh(call[d], issued)
    BY Known DEF IInv
  <2>2. call[d].pc = "listing" => call[d].using.id \in Nat
    BY <2>1, Known DEF Fresh, CallType
  <2> QED
    BY <1>2, <2>1, <2>2, Known DEF Fresh
<1>8. \A d \in Calls : Fresh(call'[d], issued')
  BY <1>1, <1>7
<1>9. RefusedTokenForgotten' /\ NeverBaseless'
  BY DEF IInv, RefusedTokenForgotten, NeverBaseless
<1> QED
  BY <1>3, <1>5, <1>6, <1>8, <1>9 DEF IInv

\* A call becomes idle or waits, and nothing else but the lock and its queue change.
LEMMA RestInv ==
  ASSUME IInv, NEW c \in Calls, NEW r \in {Idle, Waiting}, Become(c, r),
         UNCHANGED <<now, token, issued, refused, baseless>>,
         waiters' \in Seq(Calls),
         holder' # c,
         \A d \in Calls \ {c} : holder' = d <=> holder = d
  PROVE  IInv'
<1>1. r \in CallType /\ r.pc \in {"idle", "lock"}
  BY CallStates
<1>2. OnTime(r, now) /\ Fresh(r, issued')
  BY <1>1 DEF OnTime, Fresh, Requesting
<1>3. issued' \in issued .. MaxTokens /\ refused' \subseteq 1 .. issued
  BY NoMore
<1> QED
  BY <1>1, <1>2, <1>3, Known, BecomeInv DEF IInv, RefusedTokenForgotten

\* The plant list is asked for with the cached token.
LEMMA ListInv ==
  ASSUME IInv, NEW c \in Calls, Reusable, List(c, token),
         UNCHANGED <<now, token, issued, refused, holder>>,
         waiters' \in Seq(Calls), holder # c
  PROVE  IInv'
<1>1. token \in TokenType /\ token # NoToken /\ token.ends > now + Margin
  BY Known DEF Reusable
<1>2. Become(c, Listing(token)) /\ baseless' = baseless
  BY <1>1 DEF List, Listing
<1>3. token.dies > now + Timeout
  <2>1. token.ends \in Nat /\ token.dies \in Nat
    BY <1>1, Known
  <2>2. token.ends <= token.dies + Timeout
    BY <1>1 DEF IInv, Reckoned
  <2>3. now \in Nat /\ Timeout \in Nat /\ Margin \in Nat /\ Margin >= 2 * Timeout
    BY Known
  <2> QED
    BY <1>1, <2>1, <2>2, <2>3
<1>4. OnTime(Listing(token), now)
  BY <1>1, Known, CallStates DEF OnTime
<1>5. Fresh(Listing(token), issued')
  BY <1>1, <1>3, CallStates DEF Fresh, IInv, Reckoned
<1>6. issued' \in issued .. MaxTokens /\ refused' \subseteq 1 .. issued
  BY NoMore
<1>7. Listing(token) \in CallType /\ Listing(token).pc = "listing"
  BY <1>1, CallStates
<1> HIDE DEF Listing
<1> QED
  BY <1>1, <1>2, <1>4, <1>5, <1>6, <1>7, BecomeInv DEF IInv, RefusedTokenForgotten

LEMMA AuthenticateInv ==
  ASSUME IInv, NEW c \in Calls, Authenticate(c), holder = Nobody, holder' = c,
         UNCHANGED <<now, token, issued, refused>>,
         waiters' \in Seq(Calls)
  PROVE  IInv'
<1>1. Become(c, Authenticating) /\ baseless' = baseless
  BY DEF Authenticate, Authenticating
<1>2. OnTime(Authenticating, now) /\ Fresh(Authenticating, issued')
  BY CallStates, Known DEF OnTime, Fresh
<1>3. issued' \in issued .. MaxTokens /\ refused' \subseteq 1 .. issued
  BY NoMore
<1>4. \A d \in Calls \ {c} : holder' # d /\ holder # d
  BY NobodyAssumption
<1>5. Authenticating \in CallType /\ Authenticating.pc = "authenticating"
  BY CallStates
<1> HIDE DEF Authenticating
<1> QED
  BY <1>1, <1>2, <1>3, <1>4, <1>5, Known, BecomeInv DEF IInv, RefusedTokenForgotten

-----------------------------------------------------------------------------
\* Each step keeps the invariant

LEMMA InitInv == Init => IInv
<1> SUFFICES ASSUME Init PROVE IInv
  OBVIOUS
<1>1. \A c \in Calls : call[c] = Idle /\ holder # c
  BY NobodyAssumption DEF Init
<1>2. Idle \in CallType /\ Idle.pc = "idle"
  BY DEF Idle, CallType
<1>3. call \in [Calls -> CallType]
  BY <1>2 DEF Init
<1>4. issued \in 0 .. MaxTokens
  BY TimeAssumption DEF Init
<1>5. TypeOK
  <2>1. \A c \in Calls : call[c].pc = "authenticating" <=> holder = c
    BY <1>1, <1>2
  <2>2. now \in Nat /\ refused \subseteq 1 .. MaxTokens /\ baseless \in BOOLEAN
    BY DEF Init
  <2>3. token \in TokenType \cup {NoToken} /\ waiters \in Seq(Calls)
    BY DEF Init
  <2> QED
    BY <1>3, <1>4, <2>1, <2>2, <2>3 DEF TypeOK
<1>6. \A c \in Calls : OnTime(call[c], now) /\ Fresh(call[c], issued)
  BY <1>1, <1>2 DEF OnTime, Requesting, Fresh
<1> QED
  BY <1>5, <1>6 DEF Init, IInv, RefusedTokenForgotten, NeverBaseless

\* The lock's queue, with a call put in it or taken out of it.
LEMMA QueueType ==
  ASSUME waiters \in Seq(Calls)
  PROVE  /\ waiters # <<>> => Tail(waiters) \in Seq(Calls)
         /\ \A c \in Calls : Append(waiters, c) \in Seq(Calls)
         /\ \A i \in DOMAIN waiters :
              SubSeq(waiters, 1, i - 1) \o SubSeq(waiters, i + 1, Len(waiters))
                \in Seq(Calls)
<1>1. \A i \in DOMAIN waiters :
        /\ SubSeq(waiters, 1, i - 1) \in Seq(Calls)
        /\ SubSeq(waiters, i + 1, Len(waiters)) \in Seq(Calls)
  OBVIOUS
<1> QED
  BY <1>1

LEMMA CallInv ==
  ASSUME IInv, NEW c \in Calls, Call(c)
  PROVE  IInv'
<1>1. /\ call[c].pc = "idle" /\ holder # c
      /\ waiters \in Seq(Calls) /\ Append(waiters, c) \in Seq(Calls)
  BY Known, QueueType DEF Call, IInv, TypeOK
<1>2. CASE Reusable /\ List(c, token) /\ UNCHANGED <<holder, waiters>>
  BY <1>1, <1>2, ListInv DEF Call
<1>3. CASE holder = Nobody /\ Authenticate(c) /\ holder' = c /\ UNCHANGED waiters
  BY <1>1, <1>3, AuthenticateInv DEF Call
<1>4. CASE /\ Become(c, [Idle EXCEPT !.pc = "lock"])
           /\ waiters' = Append(waiters, c)
           /\ UNCHANGED <<holder, baseless>>
  <2>1. Become(c, Waiting)
    BY <1>4 DEF Waiting
  <2> QED
    BY <1>1, <1>4, <2>1, RestInv DEF Call
<1> QED
  BY <1>2, <1>3, <1>4 DEF Call

LEMMA EnterInv ==
  ASSUME IInv, NEW c \in Calls, Enter(c)
  PROVE  IInv'
<1>1. holder = Nobody /\ holder # c /\ waiters' \in Seq(Calls)
  BY Known, QueueType, NobodyAssumption DEF Enter, First
<1>2. CASE Reusable /\ List(c, token) /\ UNCHANGED holder
  BY <1>1, <1>2, ListInv DEF Enter
<1>3. CASE Authenticate(c) /\ holder' = c
  BY <1>1, <1>3, AuthenticateInv DEF Enter
<1> QED
  BY <1>2, <1>3 DEF Enter

LEMMA CancelWaitingInv ==
  ASSUME IInv, NEW c \in Calls, CancelWaiting(c)
  PROVE  IInv'
<1>1. holder # c /\ waiters' \in Seq(Calls)
  BY Known, QueueType DEF CancelWaiting, IInv, TypeOK
<1> QED
  BY <1>1, RestInv DEF CancelWaiting

\* The lock is released by its holder alone.
LEMMA Released ==
  ASSUME IInv, NEW c \in Calls, Release(c)
  PROVE  holder' # c /\ \A d \in Calls \ {c} : holder' = d <=> holder = d
  BY NobodyAssumption DEF Release

LEMMA ListedInv ==
  ASSUME IInv, NEW c \in Calls, Listed(c)
  PROVE  IInv'
<1>1. holder # c
  BY DEF Listed, IInv, TypeOK
<1> QED
  BY <1>1, RestInv, Known DEF Listed

LEMMA FailedInv ==
  ASSUME IInv, NEW c \in Calls, Failed(c)
  PROVE  IInv'
  BY Released, RestInv, Known DEF Failed

LEMMA RefusedInv ==
  ASSUME IInv, NEW c \in Calls, Refused(c)
  PROVE  IInv'
<1>1. refused' \subseteq 1 .. issued
  <2>1. CASE call[c].pc = "listing"
    <3>1. call[c].using \in TokenType /\ call[c].using.id <= issued
      BY <2>1, Known DEF IInv, Fresh, CallType
    <3>2. call[c].using.id \in 1 .. issued
      BY <3>1, Known DEF TokenType
    <3> QED
      BY <2>1, <3>2 DEF Refused, IInv
  <2>2. CASE call[c].pc # "listing"
    BY <2>2 DEF Refused, IInv
  <2> QED
    BY <2>1, <2>2
<1>2. token' = NoToken /\ issued' \in issued .. MaxTokens
  BY Known DEF Refused, Forget
<1>3. Idle \in CallType /\ OnTime(Idle, now) /\ Fresh(Idle, issued')
      /\ Idle.pc # "authenticating"
  BY CallStates DEF OnTime, Fresh, Requesting
<1>4. waiters' \in Seq(Calls)
  BY Known DEF Refused
<1> HIDE DEF Idle
<1> QED
  BY <1>1, <1>2, <1>3, <1>4, Released, BecomeInv DEF Refused

LEMMA GrantedInv ==
  ASSUME IInv, NEW c \in Calls, Granted(c)
  PROVE  IInv'
<1>1. PICK life \in Lifetimes, at \in call[c].since .. now :
        token' = [id |-> issued', ends |-> now + life, dies |-> at + life]
  BY DEF Granted
<1>2. /\ now \in Nat /\ life \in Nat /\ Timeout \in Nat
      /\ at \in Nat /\ at <= now /\ now <= at + Timeout
  <2>1. /\ call[c].since \in Nat /\ call[c].since <= now
        /\ now <= call[c].since + Timeout
    BY Known DEF Granted, IInv, OnTime, Requesting
  <2> QED
    BY <2>1, Known, TimeAssumption
<1>3. issued' = issued + 1 /\ issued' \in 1 .. MaxTokens /\ issued' \in issued .. MaxTokens
  BY Known DEF Granted
<1>4. /\ token' \in TokenType /\ token' # NoToken
      /\ token'.id = issued' /\ token'.ends = now + life /\ token'.dies = at + life
  BY <1>1, <1>2, <1>3, TokenAssumption DEF TokenType
<1>5. Reckoned(token', issued')
  BY <1>2, <1>3, <1>4 DEF Reckoned
<1>6. token'.id \notin refused /\ refused' = refused /\ refused \subseteq 1 .. issued
  <2>1. refused \subseteq 1 .. issued
    BY DEF IInv
  <2>2. refused' = refused
    BY DEF Granted
  <2>3. issued \in Nat /\ token'.id = issued + 1
    BY <1>3, <1>4, Known
  <2> QED
    BY <2>1, <2>2, <2>3
<1>7. Become(c, Listing(token')) /\ baseless' = baseless
  BY <1>4 DEF Granted, List, Listing
<1>8. /\ Listing(token') \in CallType /\ Listing(token').pc = "listing"
      /\ Listing(token').since = now /\ Listing(token').using = token'
  BY <1>4, CallStates
<1>9. OnTime(Listing(token'), now)
  BY <1>2, <1>8 DEF OnTime
<1>10. LongLives => token'.dies > now + Timeout
  BY <1>2, <1>4 DEF LongLives
<1>11. Fresh(Listing(token'), issued')
  BY <1>3, <1>4, <1>8, <1>10 DEF Fresh
<1>12. holder = c /\ holder' = Nobody
  BY DEF Granted, IInv, TypeOK
<1>13. \A d \in Calls \ {c} : holder' # d /\ holder # d
  BY <1>12, NobodyAssumption
<1>14. now' = now /\ waiters' \in Seq(Calls) /\ holder' # c
  BY <1>12, Known, NobodyAssumption DEF Granted
<1> HIDE DEF Listing
<1> QED
  BY <1>3, <1>4, <1>5, <1>6, <1>7, <1>8, <1>9, <1>11, <1>13, <1>14, BecomeInv

LEMMA TickInv ==
  ASSUME IInv, Tick
  PROVE  IInv'
<1>1. now' = now + 1 /\ UNCHANGED <<token, call, holder, waiters, issued, refused, baseless>>
  BY DEF Tick
<1>2. \A c \in Calls : OnTime(call'[c], now')
  <2> SUFFICES ASSUME NEW c \in Calls PROVE OnTime(call[c], now + 1)
    BY <1>1
  <2>1. Requesting(call[c]) => now < call[c].since + Timeout
    BY DEF Tick, Requesting
  <2>2. OnTime(call[c], now)
    BY DEF IInv
  <2> QED
    BY <2>1, <2>2, Known DEF OnTime
<1>3. TypeOK'
  BY <1>1, Known DEF IInv, TypeOK
<1> QED
  BY <1>1, <1>2, <1>3 DEF IInv, RefusedTokenForgotten, NeverBaseless

LEMMA NextInv == IInv /\ [Next]_vars => IInv'
<1> SUFFICES ASSUME IInv, [Next]_vars PROVE IInv'
  OBVIOUS
<1>1. CASE Tick
  BY <1>1, TickInv
<1>2. ASSUME NEW c \in Calls,
             \/ Call(c) \/ Enter(c) \/ CancelWaiting(c)
             \/ Granted(c) \/ Listed(c) \/ Refused(c) \/ Failed(c)
      PROVE  IInv'
  BY <1>2, CallInv, EnterInv, CancelWaitingInv, GrantedInv, ListedInv, RefusedInv,
     FailedInv
<1>3. CASE UNCHANGED vars
  BY <1>3 DEF vars, IInv, TypeOK, RefusedTokenForgotten, NeverBaseless
<1> QED
  BY <1>1, <1>2, <1>3 DEF Next

-----------------------------------------------------------------------------
\* Theorems

\* The inductive invariant holds in every reachable state (api.py:90-195).
THEOREM Invariance == Spec => []IInv
  BY InitInv, NextInv, PTL DEF Spec

\* Types of the client's fields; the lock is held exactly while a token request is
\* under way (api.py:94-116).
THEOREM TypeCorrect == Spec => []TypeOK
<1>1. IInv => TypeOK
  BY DEF IInv
<1> QED
  BY <1>1, Invariance, PTL

\* A request's token outlives the request at the platform, wherever in the token
\* request it was issued (api.py:115, 133-141).
THEOREM TokensOutlive == Spec => []TokenOutlivesRequest
<1>1. IInv => TokenOutlivesRequest
  <2> SUFFICES ASSUME IInv, LongLives, NEW c \in Calls, call[c].pc = "listing"
               PROVE  now < call[c].using.dies
    BY DEF TokenOutlivesRequest, LongLives
  <2>1. now <= call[c].since + Timeout
    BY DEF IInv, OnTime, Requesting
  <2>2. call[c].using.dies > call[c].since + Timeout /\ call[c].using # NoToken
    BY DEF IInv, Fresh
  <2>3. call[c].using \in TokenType
    BY <2>2, Known DEF CallType
  <2> QED
    BY <2>1, <2>2, <2>3, Known
<1> QED
  BY <1>1, Invariance, PTL

\* No call gets past authentication without a token (api.py:118-126).
THEOREM AlwaysAToken == Spec => []NeverBaseless
<1>1. IInv => NeverBaseless
  BY DEF IInv
<1> QED
  BY <1>1, Invariance, PTL

\* A refused token is not cached again (api.py:177-182).
THEOREM RefusedForgotten == Spec => []RefusedTokenForgotten
<1>1. IInv => RefusedTokenForgotten
  BY DEF IInv
<1> QED
  BY <1>1, Invariance, PTL

\* A token is requested only when the cached one is not reusable (api.py:90-97).
THEOREM TokensShared == Spec => TokenShared
<1> DEFINE Asks(c) == call[c].pc # "authenticating" /\ call'[c].pc = "authenticating"
<1>1. IInv /\ [Next]_vars => [\A c \in Calls : Asks(c) => ~Reusable]_vars
  <2> SUFFICES ASSUME IInv, Next, NEW c \in Calls, Asks(c) PROVE ~Reusable
    OBVIOUS
  <2>1. \A d \in Calls : \A r : Become(d, r) => call'[c] = IF c = d THEN r ELSE call[c]
    BY Known DEF Become
  <2>2. Idle.pc = "idle" /\ [Idle EXCEPT !.pc = "lock"].pc = "lock"
    BY DEF Idle
  <2>3. ASSUME NEW d \in Calls, NEW k, List(d, k) PROVE FALSE
    BY <2>1, <2>2, <2>3 DEF List
  <2>4. ASSUME NEW d \in Calls, Call(d) \/ Enter(d) PROVE ~Reusable
    BY <2>1, <2>2, <2>3, <2>4 DEF Call, Enter
  <2>5. ASSUME NEW d \in Calls,
               \/ CancelWaiting(d) \/ Listed(d) \/ Refused(d) \/ Failed(d)
        PROVE  FALSE
    BY <2>1, <2>2, <2>5 DEF CancelWaiting, Listed, Refused, Failed
  <2>6. ASSUME NEW d \in Calls, Granted(d) PROVE FALSE
    BY <2>3, <2>6 DEF Granted
  <2>7. ~Tick
    BY DEF Tick
  <2> QED
    BY <2>4, <2>5, <2>6, <2>7 DEF Next
<1> QED
  BY <1>1, Invariance, PTL DEF Spec, TokenShared
=============================================================================
