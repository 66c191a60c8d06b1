------------------------------- MODULE ApiClient -------------------------------
(***************************************************************************)
(* SajElekeeperApiClient of custom_components/saj_hs3/api.py: an access    *)
(* token that is cached until it comes near its end, fetched by one caller *)
(* at a time, and forgotten when the platform refuses a request.  A call   *)
(* is one of async_get_authorized_plant_count: it authenticates, then asks *)
(* for the plant list.                                                     *)
(*                                                                         *)
(* Time is discrete.  The platform is external: it issues a token at some  *)
(* moment of the token request and answers as it likes; every HTTP request *)
(* ends by its total timeout.                                              *)
(***************************************************************************)
EXTENDS Naturals, Sequences

CONSTANTS
  Calls,      \* concurrent calls
  Nobody,     \* no call holds the lock
  NoToken,    \* `None` for self._access_token and self._token
  Lifetimes,  \* values of `expires` the platform may give
  Margin,     \* TOKEN_REFRESH_MARGIN_SECONDS
  Timeout,    \* total timeout of an HTTP request
  MaxTime,    \* bound of the model on time
  MaxTokens   \* bound of the model on tokens issued

ASSUME NobodyAssumption == Nobody \notin Calls
ASSUME TimeAssumption ==
  /\ Timeout \in Nat \ {0} /\ Margin \in Nat /\ MaxTime \in Nat /\ MaxTokens \in Nat
  /\ Lifetimes \subseteq Nat \ {0}

\* 300 and 15 seconds in the code.
ASSUME MarginAssumption == Margin >= 2 * Timeout

VARIABLES
  now,     \* self._monotonic()
  token,   \* the cached token
  call,    \* what each call is doing, see CallType
  holder,  \* owner of self._lock
  waiters, \* FIFO queue of self._lock
  issued,  \* history: number of tokens the platform has issued
  refused, \* history: tokens the platform refused in the answer's code
  baseless \* history: a call failed for want of a token

vars == <<now, token, call, holder, waiters, issued, refused, baseless>>

\* `ends` is when the client takes the token to expire, `dies` when it does.
TokenType == [id : 1 .. MaxTokens, ends : Nat, dies : Nat]

CallType == [pc : {"idle", "lock", "authenticating", "listing"},
             since : Nat, using : TokenType \cup {NoToken}]

ASSUME TokenAssumption == NoToken \notin TokenType

Idle == [pc |-> "idle", since |-> 0, using |-> NoToken]

Init ==
  /\ now = 0
  /\ token = NoToken
  /\ call = [c \in Calls |-> Idle]
  /\ holder = Nobody
  /\ waiters = <<>>
  /\ issued = 0
  /\ refused = {}
  /\ baseless = FALSE

-----------------------------------------------------------------------------
\* Variant: a token is reused until its very end.
ReusableToTheEnd == token # NoToken /\ token.ends > now

\* _token_reusable
Reusable == token # NoToken /\ token.ends > now + Margin

Become(c, state) == call' = [call EXCEPT ![c] = state]

\* The plant list is asked for with whatever token is cached at that moment.
List(c, cached) ==
  IF cached = NoToken
    THEN Become(c, Idle) /\ baseless' = TRUE
    ELSE Become(c, [pc |-> "listing", since |-> now, using |-> cached])
         /\ UNCHANGED baseless

Authenticate(c) ==
  /\ Become(c, [Idle EXCEPT !.pc = "authenticating", !.since = now])
  /\ UNCHANGED baseless

\* A call begins.  A free lock is taken without yielding.
Call(c) ==
  /\ call[c].pc = "idle"
  /\ UNCHANGED <<now, token, issued, refused>>
  /\ \/ Reusable /\ List(c, token) /\ UNCHANGED <<holder, waiters>>
     \/ /\ ~Reusable /\ holder = Nobody /\ waiters = <<>>
        /\ Authenticate(c)
        /\ holder' = c
        /\ UNCHANGED waiters
     \/ /\ ~Reusable /\ (holder # Nobody \/ waiters # <<>>)
        /\ Become(c, [Idle EXCEPT !.pc = "lock"])
        /\ waiters' = Append(waiters, c)
        /\ UNCHANGED <<holder, baseless>>

First(c) == waiters # <<>> /\ Head(waiters) = c

\* Variant: no second look at the token once the lock is there.
EnterUnchecked(c) ==
  /\ call[c].pc = "lock" /\ holder = Nobody /\ First(c)
  /\ waiters' = Tail(waiters)
  /\ UNCHANGED <<now, token, issued, refused>>
  /\ Authenticate(c) /\ holder' = c

\* Variant: a call that waited trusts the one before it to have got a token.
EnterTrusting(c) ==
  /\ call[c].pc = "lock" /\ holder = Nobody /\ First(c)
  /\ waiters' = Tail(waiters)
  /\ UNCHANGED <<now, token, issued, refused, holder>>
  /\ List(c, token)

\* A waiting call gets the lock and looks at the token again.
Enter(c) ==
  /\ call[c].pc = "lock" /\ holder = Nobody /\ First(c)
  /\ waiters' = Tail(waiters)
  /\ UNCHANGED <<now, token, issued, refused>>
  /\ \/ Reusable /\ List(c, token) /\ UNCHANGED holder
     \/ ~Reusable /\ Authenticate(c) /\ holder' = c

\* The platform has answered with a token, issued at some time since the request;
\* the call goes on to the plant list without yielding.
Granted(c) ==
  /\ call[c].pc = "authenticating"
  /\ issued < MaxTokens
  /\ issued' = issued + 1
  /\ \E life \in Lifetimes, at \in call[c].since .. now :
       token' = [id |-> issued', ends |-> now + life, dies |-> at + life]
  /\ holder' = Nobody
  /\ List(c, token')
  /\ UNCHANGED <<now, waiters, refused>>

Listed(c) ==
  /\ call[c].pc = "listing"
  /\ Become(c, Idle)
  /\ UNCHANGED <<now, token, holder, waiters, issued, refused, baseless>>

\* Variant: a call that fails keeps the lock.
ReleaseNever(c) == UNCHANGED holder

Release(c) == holder' = IF holder = c THEN Nobody ELSE holder

\* Variant: only a token request's refusal forgets the token.
ForgetUnlessListing(c) ==
  token' = IF call[c].pc = "authenticating" THEN NoToken ELSE token

\* _forget_token, whichever token the refused request had used.
Forget(c) == token' = NoToken

\* The answer's code says that the app is disabled or the credentials are invalid.
Refused(c) ==
  /\ call[c].pc \in {"authenticating", "listing"}
  /\ Forget(c)
  /\ refused' = IF call[c].pc = "listing" THEN refused \cup {call[c].using.id}
                                          ELSE refused
  /\ Become(c, Idle)
  /\ Release(c)
  /\ UNCHANGED <<now, waiters, issued, baseless>>

\* Every other end of a request: timeout, connection error, an HTTP status of 400
\* or more (401 and 403 too), an answer that is no JSON, another code or malformed
\* contents.  Cancellation ends it the same way.
Failed(c) ==
  /\ call[c].pc \in {"authenticating", "listing"}
  /\ Become(c, Idle)
  /\ Release(c)
  /\ UNCHANGED <<now, token, waiters, issued, refused, baseless>>

CancelWaiting(c) ==
  /\ call[c].pc = "lock"
  /\ Become(c, Idle)
  /\ \E i \in DOMAIN waiters :
       /\ waiters[i] = c
       /\ waiters' = SubSeq(waiters, 1, i - 1) \o SubSeq(waiters, i + 1, Len(waiters))
  /\ UNCHANGED <<now, token, holder, issued, refused, baseless>>

\* Time passes; a request under way has not used up its timeout.
Tick ==
  /\ now < MaxTime
  /\ \A c \in Calls :
       call[c].pc \in {"authenticating", "listing"} => now < call[c].since + Timeout
  /\ now' = now + 1
  /\ UNCHANGED <<token, call, holder, waiters, issued, refused, baseless>>

Next ==
  \/ Tick
  \/ \E c \in Calls :
       \/ Call(c) \/ Enter(c) \/ CancelWaiting(c)
       \/ Granted(c) \/ Listed(c) \/ Refused(c) \/ Failed(c)

Spec == Init /\ [][Next]_vars

-----------------------------------------------------------------------------
\* Properties

\* Types of the client's fields; the lock is held exactly by the call whose token
\* request is under way.
TypeOK ==
  /\ now \in Nat
  /\ token \in TokenType \cup {NoToken}
  /\ call \in [Calls -> CallType]
  /\ waiters \in Seq(Calls)
  /\ \A c \in Calls : call[c].pc = "authenticating" <=> holder = c
  /\ issued \in 0 .. MaxTokens
  /\ refused \subseteq 1 .. MaxTokens
  /\ baseless \in BOOLEAN

\* No request is under way with a token that has expired at the platform, though
\* the client reckons from the answer's arrival: the margin outlasts both the token
\* request and the request that uses the token (api.py:95-97, 115, 133-141, 165).
\* A token's lifetime must allow for two requests.
TokenOutlivesRequest ==
  (\A life \in Lifetimes : life > 2 * Timeout) =>
    \A c \in Calls : call[c].pc = "listing" => now < call[c].using.dies

\* Callers that wait for one another share the token: a new one is requested only
\* when the cached one is not reusable (api.py:90-97).
TokenShared ==
  [][\A c \in Calls :
       call[c].pc # "authenticating" /\ call'[c].pc = "authenticating"
         => ~Reusable]_vars

\* A call never gets past authentication without a token, even while another
\* call's refusal forgets it (api.py:118-126, 143-153).
NeverBaseless == ~baseless

\* A token the platform refused in an answer's code is not cached any more, so
\* that no later request is sent with it (api.py:177-182).
RefusedTokenForgotten == token # NoToken => token.id \notin refused
=============================================================================
