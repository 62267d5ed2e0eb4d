-------------------------- MODULE TokenLifecycle --------------------------
(***************************************************************************)
(* fixtures/accounts.py and lib/auth.py: the tokens of one TradingAccount. *)
(* An access token lives TTL; a refresh token works once (the server       *)
(* revokes it the moment it is used).  refresh_account_token exchanges the *)
(* pair and rebuilds the account's two clients; auto_refreshing wraps the  *)
(* reads of a poll loop so that they refresh in time.                      *)
(*                                                                         *)
(* Time is counted in steps of a fraction of TTL, relative to the present: *)
(* the model keeps the AGE of every token; from TTL on it is expired, and  *)
(* ages saturate there.                                                    *)
(***************************************************************************)
EXTENDS Integers

CONSTANTS TTL,         \* lifetime of an access token (60 s)
          EverySecs,   \* every_s of auto_refreshing (45 s)
          PostTimeout, \* Playwright's own limit on one post (30 s)
          MaxRetries   \* retries of the client that posts /auth/refresh

ASSUME TokenAssumption ==
    /\ TTL \in Nat /\ EverySecs \in Nat /\ MaxRetries \in Nat
    /\ PostTimeout \in 0..TTL
    /\ EverySecs < TTL

Age == 0..TTL        \* bound: TTL stands for every age from TTL on
None == -1

VARIABLES
    stage,          \* "funding", "ready", "refreshing" or "failed"
    caller,         \* who called refresh_account_token: "provision", "test", "wrapper"
    jwt,            \* age of account.jwt
    trading_client, \* age of the token account.trading_client sends
    order_client,   \* age of the token account.order_client sends
    refresh_token,  \* account.refresh_token: "live" or "revoked" at the server
    reply,          \* answer to /auth/refresh on its way
    attempt,        \* attempts of the retry loop behind the post
    timer,          \* time since state["t"] of the wrapper; None: no wrapper
    base,           \* history: age of the client's token when the timer was set
    lastRead        \* history: the wrapped read just made, token age and base

tokenVars == <<stage, caller, jwt, trading_client, order_client, refresh_token,
               reply, attempt, timer, base, lastRead>>
account == <<jwt, trading_client, order_client, refresh_token>>
wrapper == <<timer, base, lastRead>>

NoReply == [age |-> None, renewed |-> FALSE]
NoRead == [age |-> None, base |-> None]

\* _mint_account has just authenticated; funding begins.
TokenInit ==
    /\ stage = "funding" /\ caller = "provision"
    /\ jwt = 0 /\ trading_client = 0 /\ order_client = 0
    /\ refresh_token = "live"
    /\ reply = NoReply /\ attempt = 0
    /\ timer = None /\ base = 0 /\ lastRead = NoRead

-----------------------------------------------------------------------------
Older(age) == IF age = None THEN None ELSE IF age < TTL THEN age + 1 ELSE TTL

\* Time passes.  A post whose answer takes longer than PostTimeout is lost.
Elapse ==
    /\ stage # "failed"
    /\ reply.age < PostTimeout
    /\ jwt' = Older(jwt)
    /\ trading_client' = Older(trading_client)
    /\ order_client' = Older(order_client)
    /\ reply' = [reply EXCEPT !.age = Older(@)]
    /\ timer' = Older(timer)
    /\ lastRead' = NoRead
    /\ UNCHANGED <<stage, caller, refresh_token, attempt, base>>

(***************************************************************************)
(* refresh_account_token is called: at the end of _provision_funded, by a  *)
(* test before a step that may outlive the token, or by the wrapper.       *)
(***************************************************************************)
BeginRefresh(who) ==
    /\ stage' = "refreshing"
    /\ caller' = who
    /\ reply' = NoReply
    /\ attempt' = 0
    /\ lastRead' = NoRead
    /\ UNCHANGED <<account, timer, base>>

FinishProvision == stage = "funding" /\ BeginRefresh("provision")
TestRefreshes == stage = "ready" /\ BeginRefresh("test")

(***************************************************************************)
(* The auth server (external).  It rotates the pair once; shown a revoked  *)
(* token it answers 401, on which refresh_access_token raises.  The schema *)
(* lets an answer omit the new refresh token.                              *)
(***************************************************************************)
Rotate ==
    /\ stage = "refreshing" /\ reply = NoReply
    /\ refresh_token = "live"
    /\ refresh_token' = "revoked"
    /\ \E renewed \in BOOLEAN : reply' = [age |-> 0, renewed |-> renewed]
    /\ UNCHANGED <<stage, caller, jwt, trading_client, order_client, attempt, wrapper>>

Unauthorized ==
    /\ stage = "refreshing" /\ reply = NoReply
    /\ refresh_token = "revoked"
    /\ stage' = "failed"
    /\ UNCHANGED <<caller, account, reply, attempt, wrapper>>

(***************************************************************************)
(* The request or its answer is lost, or a 5xx comes back: the client made *)
(* with the default options posts the SAME refresh token again.            *)
(***************************************************************************)
PostLost ==
    /\ stage = "refreshing"
    /\ reply' = NoReply
    /\ IF attempt >= MaxRetries
       THEN stage' = "failed" /\ attempt' = attempt
       ELSE attempt' = attempt + 1 /\ stage' = stage
    /\ UNCHANGED <<caller, account, wrapper>>

\* Mutant: the returned refresh token is forgotten.
KeepOldRefreshToken == refresh_token' = refresh_token

RebuildClients == trading_client' = reply.age /\ order_client' = reply.age
ReplaceRefreshToken == refresh_token' = "live"
RestartTimer == timer' = 0 /\ base' = reply.age

(***************************************************************************)
(* The answer arrives.  account.jwt is assigned first; without a new       *)
(* refresh token the function then raises and leaves the rest as it was.   *)
(* Otherwise the refresh token is replaced and both clients are rebuilt,   *)
(* and a wrapper sets its timer and performs the read it was called for.   *)
(***************************************************************************)
StoreRefreshed ==
    /\ stage = "refreshing" /\ reply # NoReply
    /\ jwt' = reply.age
    /\ IF ~reply.renewed
       THEN /\ stage' = "failed"
            /\ UNCHANGED <<trading_client, order_client, refresh_token, wrapper>>
       ELSE /\ stage' = "ready"
            /\ ReplaceRefreshToken
            /\ RebuildClients
            /\ IF caller = "wrapper"
               THEN RestartTimer /\ lastRead' = [age |-> reply.age, base |-> reply.age]
               ELSE UNCHANGED wrapper
    /\ reply' = NoReply
    /\ UNCHANGED <<caller, attempt>>

-----------------------------------------------------------------------------
\* auto_refreshing(...): state["t"] is set when the callback is wrapped,
\* however long ago the token was issued.
Wrap ==
    /\ stage = "ready"
    /\ timer' = 0
    /\ base' = trading_client
    /\ lastRead' = NoRead
    /\ UNCHANGED <<stage, caller, account, reply, attempt>>

\* Mutant: the comparison lets the token live a whole step longer.
DueLate == timer > EverySecs + 1

\* time.monotonic() - state["t"] > every_s
Due == timer > EverySecs

\* _read(): refresh first when due, else read with the client as it is.
ReadRefreshes == stage = "ready" /\ timer # None /\ Due /\ BeginRefresh("wrapper")
ReadDirectly ==
    /\ stage = "ready" /\ timer # None /\ ~Due
    /\ lastRead' = [age |-> trading_client, base |-> base]
    /\ UNCHANGED <<stage, caller, account, reply, attempt, timer, base>>

TokenNext ==
    \/ Elapse
    \/ FinishProvision \/ TestRefreshes
    \/ Rotate \/ Unauthorized \/ PostLost \/ StoreRefreshed
    \/ Wrap \/ ReadRefreshes \/ ReadDirectly

\* That a post ends is the business of ResilientHttp (ImplementsContract), and nobody
\* promises when a test refreshes: no fairness is assumed.
TokenSpec == TokenInit /\ [][TokenNext]_tokenVars

-----------------------------------------------------------------------------
TokenTypeOK ==
    /\ stage \in {"funding", "ready", "refreshing", "failed"}
    /\ caller \in {"provision", "test", "wrapper"}
    /\ jwt \in Age /\ trading_client \in Age /\ order_client \in Age
    /\ refresh_token \in {"live", "revoked"}
    /\ reply \in [age : Age \cup {None}, renewed : BOOLEAN]
    /\ attempt \in 0..MaxRetries
    /\ timer \in Age \cup {None}
    /\ base \in Age
    /\ lastRead \in [age : Age \cup {None}, base : Age \cup {None}]

(***************************************************************************)
(* An account handed to a test is whole: the refresh token it holds is the *)
(* one the server will take, and jwt, trading_client and order_client      *)
(* carry the same access token -- no refresh, retried or not, leaves a     *)
(* ready account half renewed (refresh_account_token assigns in four       *)
(* places).                                                                *)
(***************************************************************************)
ReadyAccountWhole ==
    stage \in {"funding", "ready"} =>
        /\ refresh_token = "live"
        /\ trading_client = jwt
        /\ order_client = jwt

(***************************************************************************)
(* A wrapped read never uses a token more than every_s older than it was   *)
(* when the wrapper's timer was last set, whatever refreshes the test      *)
(* makes in between.  (So a poll loop wrapped on a token younger than      *)
(* TTL - every_s never presents an expired one.)                           *)
(***************************************************************************)
WrappedReadBounded == lastRead.age <= lastRead.base + EverySecs

(***************************************************************************)
(* auto_refreshing's docstring (fixtures/accounts.py:137-142): the token   *)
(* refreshes when every_s has elapsed "since the last refresh", so reads   *)
(* keep headroom under the TTL.                                            *)
(***************************************************************************)
WrappedReadsAuthorized == lastRead.age < TTL

(***************************************************************************)
(* refresh_access_token's docstring (lib/auth.py:14-16): refresh tokens    *)
(* are "single-use, revoked the moment they're used ... the old one stops  *)
(* working immediately" -- so a token once used is never posted again.     *)
(***************************************************************************)
NeverPostsUsedToken ==
    stage = "refreshing" /\ reply = NoReply => refresh_token = "live"

\* Inductive strengthening used by AccountProofs.
TokenInv ==
    /\ TokenTypeOK
    /\ ReadyAccountWhole
    /\ WrappedReadBounded
    /\ stage = "refreshing" => /\ trading_client = jwt /\ order_client = jwt
                               /\ refresh_token = "live" => reply = NoReply
                               /\ reply = NoReply \/ reply.age \in 0..trading_client
    /\ stage # "failed" /\ timer # None => trading_client <= timer + base
=============================================================================
