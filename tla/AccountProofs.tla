---------------------------- MODULE AccountProofs ----------------------------
(***************************************************************************)
(* Proofs about an account: its tokens (TokenLifecycle) and its money      *)
(* (Provisioning), for every value of their constants.                     *)
(***************************************************************************)
EXTENDS TokenLifecycle, Provisioning, FiniteSetTheorems, TLAPS

-----------------------------------------------------------------------------
(***************************************************************************)
(* The tokens, for every lifetime, refresh period and retry budget with    *)
(* EverySecs < TTL.                                                        *)
(***************************************************************************)

LEMMA OlderAge ==
    ASSUME NEW a \in Age
    PROVE  Older(a) \in Age /\ Older(a) <= a + 1 /\ a <= Older(a)
           /\ (a < TTL => Older(a) = a + 1) /\ (a = TTL => Older(a) = TTL)
  BY TokenAssumption DEF TokenAssumption, Age, Older, None

LEMMA OlderMonotone ==
    ASSUME NEW a \in Age, NEW b \in Age, a <= b
    PROVE  Older(a) <= Older(b)
  BY TokenAssumption DEF TokenAssumption, Age, Older, None

LEMMA OlderNone == Older(None) = None
  BY DEF Older

LEMMA InitInv == TokenInit => TokenInv
  BY TokenAssumption
  DEF TokenAssumption, TokenInit, TokenInv, TokenTypeOK, ReadyAccountWhole, WrappedReadBounded,
      NoReply, NoRead, None, Age

(***************************************************************************)
(* Time: both sides of trading_client <= timer + base saturate together.   *)
(***************************************************************************)
LEMMA ElapseInv == TokenInv /\ Elapse => TokenInv'
<1> SUFFICES ASSUME TokenInv, Elapse PROVE TokenInv'
  OBVIOUS
<1> USE TokenAssumption DEF TokenAssumption
<1>1. /\ jwt' = Older(jwt) /\ trading_client' = Older(trading_client)
      /\ order_client' = Older(order_client) /\ timer' = Older(timer)
      /\ lastRead' = NoRead /\ reply' = [reply EXCEPT !.age = Older(@)]
      /\ stage' = stage /\ caller' = caller /\ refresh_token' = refresh_token
      /\ attempt' = attempt /\ base' = base
  BY DEF Elapse
<1>2. /\ jwt \in Age /\ trading_client \in Age /\ order_client \in Age
      /\ reply \in [age : Age \cup {None}, renewed : BOOLEAN]
      /\ timer \in Age \cup {None} /\ base \in Age
  BY DEF TokenInv, TokenTypeOK
<1>3. /\ jwt' \in Age /\ trading_client' \in Age /\ order_client' \in Age
      /\ timer' \in Age \cup {None}
  BY <1>1, <1>2, OlderAge, OlderNone
<1>4. reply' \in [age : Age \cup {None}, renewed : BOOLEAN]
  BY <1>1, <1>2, OlderAge, OlderNone
<1>5. TokenTypeOK'
  BY <1>1, <1>3, <1>4 DEF TokenInv, TokenTypeOK, NoRead
<1>6. ReadyAccountWhole'
  BY <1>1 DEF TokenInv, ReadyAccountWhole
<1>7. WrappedReadBounded'
  BY <1>1 DEF WrappedReadBounded, NoRead, None
<1>8. (stage = "refreshing" => /\ trading_client = jwt /\ order_client = jwt
                               /\ refresh_token = "live" => reply = NoReply
                               /\ reply = NoReply \/ reply.age \in 0..trading_client)'
  <2>1. CASE reply = NoReply
    <3>1. reply' = NoReply
      BY <1>1, <2>1, OlderNone DEF NoReply
    <3>2. QED
      BY <1>1, <3>1 DEF TokenInv
  <2>2. CASE reply # NoReply
    <3>1. stage = "refreshing" => /\ reply.age \in Age /\ reply.age <= trading_client
                                  /\ refresh_token # "live"
      BY <2>2, <1>2 DEF TokenInv, Age
    <3>2. reply'.age = Older(reply.age)
      BY <1>1, <1>2
    <3>3. stage = "refreshing" => reply'.age \in 0..trading_client'
      BY <1>1, <1>2, <1>3, <3>1, <3>2, OlderAge, OlderMonotone DEF Age
    <3>4. QED
      BY <1>1, <3>1, <3>3 DEF TokenInv
  <2>3. QED
    BY <2>1, <2>2
<1>9. (stage # "failed" /\ timer # None => trading_client <= timer + base)'
  <2> SUFFICES ASSUME stage # "failed", timer' # None
               PROVE  trading_client' <= timer' + base
    BY <1>1
  <2>1. timer \in Age /\ trading_client <= timer + base
    BY <1>1, <1>2, OlderNone DEF TokenInv
  <2>2. timer' \in Age /\ trading_client' <= trading_client + 1 /\ trading_client' \in Age
    BY <1>1, <1>2, <2>1, OlderAge
  <2>3. CASE timer < TTL
    <3>1. timer' = timer + 1
      BY <1>1, <2>1, <2>3, OlderAge
    <3>2. QED
      BY <1>2, <2>1, <2>2, <3>1 DEF Age
  <2>4. CASE timer = TTL
    <3>1. timer' = TTL
      BY <1>1, <2>1, <2>4, OlderAge
    <3>2. QED
      BY <1>2, <2>2, <3>1 DEF Age
  <2>5. QED
    BY <2>1, <2>3, <2>4 DEF Age
<1>10. QED
  BY <1>5, <1>6, <1>7, <1>8, <1>9 DEF TokenInv

LEMMA TokenStepInv == TokenInv /\ [TokenNext]_tokenVars => TokenInv'
<1> SUFFICES ASSUME TokenInv, [TokenNext]_tokenVars PROVE TokenInv'
  OBVIOUS
<1> USE TokenAssumption DEF TokenAssumption, TokenInv, TokenTypeOK, ReadyAccountWhole,
        WrappedReadBounded, NoReply, NoRead, None, Age, account, wrapper
<1>1. CASE Elapse
  BY <1>1, ElapseInv
<1>2. CASE FinishProvision
  BY <1>2 DEF FinishProvision, BeginRefresh
<1>3. CASE TestRefreshes
  BY <1>3 DEF TestRefreshes, BeginRefresh
<1>4. CASE Rotate
  BY <1>4 DEF Rotate
<1>5. CASE Unauthorized
  BY <1>5 DEF Unauthorized
<1>6. CASE PostLost
  BY <1>6 DEF PostLost
<1>7. CASE StoreRefreshed
  <2>1. /\ stage = "refreshing" /\ reply.age \in 0..trading_client
        /\ jwt' = reply.age
        /\ reply' = NoReply /\ caller' = caller /\ attempt' = attempt
    BY <1>7 DEF StoreRefreshed
  <2>2. CASE ~reply.renewed
    BY <1>7, <2>1, <2>2 DEF StoreRefreshed
  <2>3. CASE reply.renewed /\ caller = "wrapper"
    <3>1. /\ stage' = "ready" /\ refresh_token' = "live"
          /\ trading_client' = reply.age /\ order_client' = reply.age
          /\ timer' = 0 /\ base' = reply.age
          /\ lastRead' = [age |-> reply.age, base |-> reply.age]
      BY <1>7, <2>3 DEF StoreRefreshed, ReplaceRefreshToken, RebuildClients, RestartTimer
    <3>2. QED
      BY <2>1, <3>1
  <2>4. CASE reply.renewed /\ caller # "wrapper"
    <3>1. /\ stage' = "ready" /\ refresh_token' = "live"
          /\ trading_client' = reply.age /\ order_client' = reply.age
          /\ timer' = timer /\ base' = base /\ lastRead' = lastRead
      BY <1>7, <2>4 DEF StoreRefreshed, ReplaceRefreshToken, RebuildClients
    <3>2. timer # None => reply.age <= timer + base
      BY <1>7 DEF StoreRefreshed
    <3>3. QED
      BY <2>1, <3>1, <3>2
  <2>5. QED
    BY <2>2, <2>3, <2>4
<1>8. CASE Wrap
  BY <1>8 DEF Wrap
<1>9. CASE ReadRefreshes
  BY <1>9 DEF ReadRefreshes, BeginRefresh
<1>10. CASE ReadDirectly
  BY <1>10 DEF ReadDirectly, Due
<1>11. CASE UNCHANGED tokenVars
  BY <1>11 DEF tokenVars
<1>12. QED
  BY <1>1, <1>2, <1>3, <1>4, <1>5, <1>6, <1>7, <1>8, <1>9, <1>10, <1>11 DEF TokenNext

(***************************************************************************)
(* Type correctness and the inductive invariant.                           *)
(***************************************************************************)
THEOREM TokenInvariant == TokenSpec => []TokenInv
<1>1. QED
  BY InitInv, TokenStepInv, PTL DEF TokenSpec

(***************************************************************************)
(* No wrapped read uses a token more than every_s older than it was when   *)
(* the wrapper's timer was set.                                            *)
(***************************************************************************)
THEOREM WrappedReadsBounded == TokenSpec => []WrappedReadBounded
<1>1. TokenInv => WrappedReadBounded
  BY DEF TokenInv
<1>2. QED
  BY <1>1, TokenInvariant, PTL

(***************************************************************************)
(* An account in a test's hands is never half renewed.                     *)
(***************************************************************************)
THEOREM ReadyAccountsWhole == TokenSpec => []ReadyAccountWhole
<1>1. TokenInv => ReadyAccountWhole
  BY DEF TokenInv
<1>2. QED
  BY <1>1, TokenInvariant, PTL

-----------------------------------------------------------------------------
(***************************************************************************)
(* The money.                                                              *)
(***************************************************************************)

USE ProvisionAssumption DEF ProvisionAssumption

\* Products of naturals, as far as they are needed.
LEMMA Products ==
    ASSUME NEW a \in Nat, NEW m \in Nat
    PROVE  /\ a * m \in Nat /\ a * (m + 1) = a * m + a
           /\ m > 0 => a * m >= a
           /\ a > 0 /\ m > 0 => a * m > 0
           /\ a * m > 0 => m > 0
           /\ a * 0 = 0
  OBVIOUS

\* What was moved is a number, and what the two balances are in its terms.
LEMMA MovedIsNat ==
    ASSUME TypeOK, Money
    PROVE  /\ \A c \in Post : Moved(c) \in Nat /\ Moved(c) <= effects[c]
           /\ Moved("enroll") = effects["enroll"]
  BY DEF TypeOK, Money, Moved, Post

-----------------------------------------------------------------------------
\* What the posts leave alone: a call closes or doubts without an effect, and an
\* effect comes to one call and changes no phase.
LEMMA PostCloses ==
    ASSUME TypeOK, NEW c \in Post, Contract!Close(c) \/ Contract!Doubt(c)
    PROVE  /\ phase[c] = "open" /\ UNCHANGED effects
           /\ \A d \in Post : d # c => phase'[d] = phase[d]
           /\ phase'[c] = "succeeded" => effects[c] > 0
           /\ phase' \in [Post -> {"open", "succeeded", "failed"}]
           /\ doubts' \in [Post -> Nat]
  BY DEF TypeOK, Contract!Close, Contract!Doubt

LEMMA EffectComes ==
    ASSUME TypeOK, NEW c \in Post, Contract!Effect(c)
    PROVE  /\ UNCHANGED <<phase, doubts>>
           /\ effects'[c] = effects[c] + 1
           /\ \A d \in Post : d # c => effects'[d] = effects[d]
           /\ effects' \in [Post -> Nat]
  BY DEF TypeOK, Contract!Effect

-----------------------------------------------------------------------------
LEMMA ProvisionInit == Init => ProvisionInv
<1> SUFFICES ASSUME Init PROVE ProvisionInv
  OBVIOUS
<1> USE DEF Init, Contract!ContractInit
<1>1. TypeOK
  BY DEF TypeOK, Running, Post
<1>2. Money
  <2>1. Moved("faucet") = 0 /\ Moved("transfer") = 0
    BY DEF Moved, Post
  <2>2. SpotAmount * 0 = 0 /\ PerpAmount * 0 = 0
    BY Products
  <2>3. QED
    BY <2>1, <2>2 DEF Money, Post
<1>3. Stages
  BY DEF Stages, Post, AfterDeposit, Handed
<1>4. Awaited
  BY DEF Awaited, AfterDeposit, Handed
<1>5. QED
  BY <1>1, <1>2, <1>3, <1>4 DEF ProvisionInv

-----------------------------------------------------------------------------
\* Steps of the program: they move no money.
LEMMA MoneyStays ==
    ASSUME Money, UNCHANGED <<effects, balances>> PROVE Money'
  BY DEF Money, Moved, balances

LEMMA KeepsMint == ASSUME ProvisionInv, Mint PROVE ProvisionInv'
<1> USE DEF ProvisionInv
<1>1. TypeOK'
  BY DEF Mint, Raise, posts, balances, TypeOK, Running
<1>2. Money'
  BY MoneyStays DEF Mint, posts
<1>3. Stages'
  BY DEF Mint, Raise, posts, Stages, AfterDeposit, Handed
<1>4. Awaited'
  BY DEF Mint, Raise, Awaited, AfterDeposit, Handed
<1>5. QED
  BY <1>1, <1>2, <1>3, <1>4

LEMMA KeepsPostEnds ==
    ASSUME ProvisionInv, NEW c \in Post, PostEnds(c) PROVE ProvisionInv'
<1> USE DEF ProvisionInv
<1>0. /\ pc = c /\ phase[c] = "open" /\ UNCHANGED <<effects, recipe, balances, age>>
      /\ \A d \in Post : d # c => phase'[d] = phase[d]
      /\ phase'[c] = "succeeded" => effects[c] > 0
      /\ phase' \in [Post -> {"open", "succeeded", "failed"}]
      /\ doubts' \in [Post -> Nat]
      /\ \/ phase'[c] = "open" /\ UNCHANGED <<pc, left>>
         \/ pc' = "raised" /\ UNCHANGED left
         \/ phase'[c] = "succeeded" /\ pc' = WaitAfter(c) /\ left' = SettleTimeout
  BY PostCloses DEF PostEnds, Raise, Taken
<1>1. /\ c = "faucet" => WaitAfter(c) = "spotwait"
      /\ c = "transfer" => WaitAfter(c) = "perpwait"
      /\ c = "enroll" => WaitAfter(c) = "ready"
  BY DEF WaitAfter, AfterTransfer
<1>2. TypeOK'
  BY <1>0, <1>1 DEF TypeOK, Post, balances, Running, Handed
<1>3. Money'
  BY <1>0, MoneyStays
<1>4. Stages'
  <2>1. CASE c = "faucet"
    BY <1>0, <1>1, <2>1 DEF Stages, TypeOK, Post, AfterDeposit, Handed, SpotOnly
  <2>2. CASE c = "transfer"
    BY <1>0, <1>1, <2>2 DEF Stages, TypeOK, Post, AfterDeposit, Handed, SpotOnly
  <2>3. CASE c = "enroll"
    BY <1>0, <1>1, <2>3 DEF Stages, TypeOK, Post, AfterDeposit, Handed, SpotOnly
  <2>4. QED
    BY <2>1, <2>2, <2>3 DEF Post
<1>5. Awaited'
  <2>1. UNCHANGED <<effects, crediting, recipe>>
    BY <1>0 DEF balances
  <2>2. pc' \in {pc, "raised", WaitAfter(c)}
    BY <1>0
  <2>3. QED
    BY <1>0, <1>1, <2>1, <2>2 DEF Awaited, Moved, Post, AfterDeposit, Handed
<1>6. QED
  BY <1>2, <1>3, <1>4, <1>5

\* The wait for the deposit: a fixture goes on when something has been credited.
LEMMA KeepsSpotLook == ASSUME ProvisionInv, SpotLook PROVE ProvisionInv'
<1> USE DEF ProvisionInv
<1>0. /\ pc = "spotwait" /\ UNCHANGED <<posts, recipe, balances, left, age>>
      /\ \/ pc' = AfterSpot /\ (spot > 0 \/ recipe \in Tools)
         \/ pc' = "raised"
  BY DEF SpotLook, Look, GoesOn, Credited
<1>1. AfterSpot = IF recipe \in SpotOnly THEN "ready" ELSE "transfer"
  BY DEF AfterSpot
<1>2. TypeOK'
  BY <1>0, <1>1 DEF TypeOK, posts, balances, Running, Handed
<1>3. Money'
  BY <1>0, MoneyStays DEF posts
<1>4. Stages'
  BY <1>0, <1>1 DEF Stages, posts, AfterDeposit, Handed, SpotOnly
<1>5. Awaited'
  <2>1. recipe \in Fixtures => recipe \notin Tools
    BY DEF Fixtures, Tools
  <2>2. spot > 0 => Moved("faucet") > 0
    <3>1. SpotAmount * Moved("faucet") = spot + PerpAmount * effects["transfer"]
      BY Products, MovedIsNat DEF Money, TypeOK, Post
    <3>2. PerpAmount * effects["transfer"] \in Nat
      BY Products DEF TypeOK, Post
    <3>3. spot > 0 => SpotAmount * Moved("faucet") > 0
      BY <3>1, <3>2 DEF TypeOK
    <3>4. QED
      BY <3>3, Products, MovedIsNat DEF Post
  <2>3. UNCHANGED <<effects, crediting, recipe>>
    BY <1>0 DEF posts, balances
  <2>4. QED
    BY <1>0, <1>1, <2>1, <2>2, <2>3 DEF Awaited, Moved, AfterDeposit, Handed, SpotOnly
<1>6. QED
  BY <1>2, <1>3, <1>4, <1>5

\* The wait for the transfer.
LEMMA KeepsPerpLook == ASSUME ProvisionInv, PerpLook PROVE ProvisionInv'
<1> USE DEF ProvisionInv
<1>0. /\ pc = "perpwait" /\ UNCHANGED <<posts, recipe, balances, left, age>>
      /\ \/ pc' = AfterPerp /\ (perp > 0 \/ recipe \in Tools)
         \/ pc' = "raised"
  BY DEF PerpLook, Look, GoesOn, Credited
<1>1. AfterPerp = IF recipe \in {"account", "enrolled"} THEN "refresh" ELSE "ready"
  BY DEF AfterPerp, Refreshed
<1>2. TypeOK'
  BY <1>0, <1>1 DEF TypeOK, posts, balances, Running, Handed
<1>3. Money'
  BY <1>0, MoneyStays DEF posts
<1>4. Stages'
  BY <1>0, <1>1 DEF Stages, posts, AfterDeposit, Handed, SpotOnly
<1>5. Awaited'
  <2>1. recipe \in Fixtures => recipe \notin Tools
    BY DEF Fixtures, Tools
  <2>2. perp > 0 => Moved("transfer") > 0
    BY Products, MovedIsNat DEF Money, Post
  <2>3. UNCHANGED <<effects, crediting, recipe>>
    BY <1>0 DEF posts, balances
  <2>4. QED
    BY <1>0, <1>1, <2>1, <2>2, <2>3 DEF Awaited, Moved, AfterDeposit, Handed
<1>6. QED
  BY <1>2, <1>3, <1>4, <1>5

\* A read that raises, the new token, the file of a tool, and the passing of time.
LEMMA KeepsRest ==
    ASSUME ProvisionInv, LookRaises \/ Refresh \/ WriteFile \/ TimePasses
    PROVE  ProvisionInv'
<1> USE DEF ProvisionInv
<1>0. UNCHANGED <<posts, recipe, balances>>
  BY DEF LookRaises, Refresh, WriteFile, TimePasses
<1>1. \/ pc' = pc \/ pc' = "raised"
      \/ pc = "refresh" /\ pc' = AfterRefresh
      \/ pc = "ready" /\ pc' = "written" /\ recipe \in Tools
  BY DEF LookRaises, Refresh, WriteFile, TimePasses, Raise
<1>2. AfterRefresh = IF recipe = "enrolled" THEN "enroll" ELSE "ready"
  BY DEF AfterRefresh
<1>3. left' \in 0..SettleTimeout /\ age' \in 0..TokenLife
  <2>1. CASE LookRaises \/ WriteFile
    BY <2>1 DEF LookRaises, WriteFile, TypeOK
  <2>2. CASE Refresh
    BY <2>2 DEF Refresh, TypeOK
  <2>3. CASE TimePasses
    BY <2>3 DEF TimePasses, TypeOK
  <2>4. QED
    BY <2>1, <2>2, <2>3
<1>4. TypeOK'
  BY <1>0, <1>1, <1>2, <1>3 DEF TypeOK, posts, balances, Running, Handed
<1>5. Money'
  BY <1>0, MoneyStays DEF posts
<1>6. Stages'
  BY <1>0, <1>1, <1>2 DEF Stages, posts, AfterDeposit, Handed, SpotOnly
<1>7. Awaited'
  BY <1>0, <1>1, <1>2 DEF Awaited, Moved, posts, balances, AfterDeposit, Handed, Fixtures, Tools
<1>8. QED
  BY <1>4, <1>5, <1>6, <1>7

-----------------------------------------------------------------------------
\* Steps of the platform: the stage stays, and the money follows the effects.
LEMMA KeepsAcceptDeposit == ASSUME ProvisionInv, AcceptDeposit PROVE ProvisionInv'
<1> USE DEF ProvisionInv
<1>0. /\ "faucet" \in Post /\ "transfer" \in Post /\ "enroll" \in Post
      /\ UNCHANGED <<phase, doubts, pc, recipe, spot, perp, left, age>>
      /\ effects'["faucet"] = effects["faucet"] + 1
      /\ \A d \in Post : d # "faucet" => effects'[d] = effects[d]
      /\ effects' \in [Post -> Nat]
      /\ crediting' = [crediting EXCEPT !["faucet"] = @ + 1]
  BY EffectComes DEF AcceptDeposit, Post
<1>1. TypeOK'
  BY <1>0 DEF TypeOK
<1>2. \A d \in Post : Moved(d)' = Moved(d)
  BY <1>0 DEF Moved, TypeOK
<1>3. Money'
  BY <1>0, <1>2 DEF Money, TypeOK
<1>4. Stages'
  BY <1>0 DEF Stages, TypeOK
<1>5. Awaited'
  BY <1>0, <1>2 DEF Awaited
<1>6. QED
  BY <1>1, <1>3, <1>4, <1>5

LEMMA KeepsAcceptEnroll == ASSUME ProvisionInv, AcceptEnroll PROVE ProvisionInv'
<1> USE DEF ProvisionInv
<1>0. /\ "faucet" \in Post /\ "transfer" \in Post /\ "enroll" \in Post
      /\ UNCHANGED <<phase, doubts, pc, recipe, balances, left, age>>
      /\ effects'["enroll"] = effects["enroll"] + 1
      /\ \A d \in Post : d # "enroll" => effects'[d] = effects[d]
      /\ effects' \in [Post -> Nat]
  BY EffectComes DEF AcceptEnroll, Post
<1>1. TypeOK'
  BY <1>0 DEF TypeOK, balances
<1>2. Moved("faucet")' = Moved("faucet") /\ Moved("transfer")' = Moved("transfer")
  BY <1>0 DEF Moved, balances
<1>3. Money'
  BY <1>0, <1>2 DEF Money, balances
<1>4. Stages'
  BY <1>0 DEF Stages, TypeOK
<1>5. Awaited'
  BY <1>0, <1>2 DEF Awaited
<1>6. QED
  BY <1>1, <1>3, <1>4, <1>5

LEMMA KeepsAcceptTransfer == ASSUME ProvisionInv, AcceptTransfer PROVE ProvisionInv'
<1> USE DEF ProvisionInv
<1>0. /\ "faucet" \in Post /\ "transfer" \in Post /\ "enroll" \in Post
      /\ UNCHANGED <<phase, doubts, pc, recipe, perp, left, age>>
      /\ effects'["transfer"] = effects["transfer"] + 1
      /\ \A d \in Post : d # "transfer" => effects'[d] = effects[d]
      /\ effects' \in [Post -> Nat]
      /\ crediting' = [crediting EXCEPT !["transfer"] = @ + 1]
      /\ spot' = spot - PerpAmount /\ spot >= PerpAmount
  BY EffectComes DEF AcceptTransfer, Post
<1>1. TypeOK'
  BY <1>0 DEF TypeOK
<1>2. \A d \in Post : Moved(d)' = Moved(d)
  BY <1>0 DEF Moved, TypeOK
<1>3. Money'
  <2>1. PerpAmount * effects'["transfer"] = PerpAmount * effects["transfer"] + PerpAmount
    BY <1>0, Products DEF TypeOK
  <2>2. /\ PerpAmount * effects["transfer"] \in Nat
        /\ SpotAmount * Moved("faucet") \in Nat
    BY <1>0, Products, MovedIsNat DEF TypeOK
  <2>3. spot' = SpotAmount * Moved("faucet")' - PerpAmount * effects'["transfer"]
    BY <1>0, <1>2, <2>1, <2>2 DEF Money, TypeOK
  <2>4. QED
    BY <1>0, <1>2, <2>3 DEF Money, TypeOK
<1>4. Stages'
  <2>1. recipe \notin SpotOnly
    BY DEF AcceptTransfer, Begun, Stages
  <2>2. QED
    BY <1>0, <2>1 DEF Stages, TypeOK
<1>5. Awaited'
  BY <1>0, <1>2 DEF Awaited
<1>6. QED
  BY <1>1, <1>3, <1>4, <1>5

LEMMA KeepsCredit ==
    ASSUME ProvisionInv, NEW c \in Post, Credit(c) PROVE ProvisionInv'
<1> USE DEF ProvisionInv
<1>0. /\ "faucet" \in Post /\ "transfer" \in Post /\ "enroll" \in Post
      /\ UNCHANGED <<posts, pc, recipe, left, age>>
      /\ crediting[c] > 0 /\ crediting' = [crediting EXCEPT ![c] = @ - 1]
      /\ c = "faucet" => spot' = spot + SpotAmount /\ perp' = perp
      /\ c # "faucet" => perp' = perp + PerpAmount /\ spot' = spot
  BY DEF Credit, Post
<1>1. c = "faucet" \/ c = "transfer"
  BY <1>0 DEF Money, Post
<1>2. TypeOK'
  BY <1>0 DEF TypeOK, posts
<1>3. /\ Moved(c) \in Nat /\ Moved(c)' = Moved(c) + 1
      /\ \A d \in Post : d # c => Moved(d)' = Moved(d)
  BY <1>0, MovedIsNat DEF Moved, TypeOK, posts
<1>4. Money'
  <2>1. /\ SpotAmount * (Moved(c) + 1) = SpotAmount * Moved(c) + SpotAmount
        /\ PerpAmount * (Moved(c) + 1) = PerpAmount * Moved(c) + PerpAmount
        /\ SpotAmount * Moved(c) \in Nat /\ PerpAmount * Moved(c) \in Nat
        /\ PerpAmount * effects["transfer"] \in Nat
    BY <1>0, <1>3, Products DEF TypeOK
  <2>2. CASE c = "faucet"
    <3>1. spot' = SpotAmount * Moved("faucet")' - PerpAmount * effects'["transfer"]
      BY <1>0, <1>3, <2>1, <2>2 DEF Money, posts
    <3>2. perp' = PerpAmount * Moved("transfer")'
      BY <1>0, <1>3, <2>2 DEF Money
    <3>3. QED
      BY <1>0, <2>2, <3>1, <3>2 DEF Money, TypeOK, posts
  <2>3. CASE c = "transfer"
    <3>1. spot' = SpotAmount * Moved("faucet")' - PerpAmount * effects'["transfer"]
      BY <1>0, <1>3, <2>3 DEF Money, posts
    <3>2. perp' = PerpAmount * Moved("transfer")'
      BY <1>0, <1>3, <2>1, <2>3 DEF Money
    <3>3. QED
      BY <1>0, <2>3, <3>1, <3>2 DEF Money, TypeOK, posts
  <2>4. QED
    BY <1>1, <2>2, <2>3
<1>5. Stages'
  BY <1>0 DEF Stages, posts
<1>6. Awaited'
  BY <1>0, <1>1, <1>3, MovedIsNat DEF Awaited
<1>7. QED
  BY <1>2, <1>4, <1>5, <1>6

-----------------------------------------------------------------------------
(***************************************************************************)
(* Money is where the posts have put it, the stages come in order, and a   *)
(* fixture goes on only with what was credited, for any amounts and        *)
(* however often the posts are tried (lib/funding.py, lib/poll.py,         *)
(* fixtures/accounts.py and the two tools).                                *)
(***************************************************************************)
THEOREM ProvisionInvariant == Spec => []ProvisionInv
<1>1. Init => ProvisionInv
  BY ProvisionInit
<1>2. ProvisionInv /\ [Next]_vars => ProvisionInv'
  <2>1. SUFFICES ASSUME ProvisionInv, [Next]_vars PROVE ProvisionInv'
    OBVIOUS
  <2>2. CASE Provision
    BY <2>1, <2>2, KeepsMint, KeepsPostEnds, KeepsSpotLook, KeepsPerpLook, KeepsRest
       DEF Provision
  <2>3. CASE Platform
    BY <2>1, <2>3, KeepsAcceptDeposit, KeepsAcceptEnroll, KeepsAcceptTransfer, KeepsCredit
       DEF Platform
  <2>4. CASE LookRaises \/ TimePasses
    BY <2>1, <2>4, KeepsRest
  <2>5. CASE UNCHANGED vars
    BY <2>1, <2>5 DEF vars, posts, balances, ProvisionInv, TypeOK, Money, Stages, Awaited, Moved
  <2>6. QED
    BY <2>1, <2>2, <2>3, <2>4, <2>5 DEF Next
<1>3. QED
  BY <1>1, <1>2, PTL DEF Spec

(***************************************************************************)
(* What a fixture hands back is credited in full: whatever was credited    *)
(* comes in whole amounts, so "more than nothing" is the amount asked for. *)
(***************************************************************************)
THEOREM ReadyAccountsFunded == Spec => []ReadyIsFunded
<1>1. ProvisionInv => ReadyIsFunded
  <2>1. SUFFICES ASSUME ProvisionInv, pc = "ready", recipe \in Fixtures
                 PROVE  /\ recipe \in SpotOnly => spot >= SpotAmount
                        /\ recipe \notin SpotOnly => perp >= PerpAmount
                        /\ recipe = "enrolled" => effects["enroll"] > 0
    BY DEF ReadyIsFunded
  <2> USE DEF ProvisionInv
  <2>2. ASSUME recipe \in SpotOnly PROVE spot >= SpotAmount
    <3>1. Moved("faucet") > 0 /\ Moved("faucet") \in Nat
      BY <2>1, MovedIsNat DEF Awaited, AfterDeposit, Handed, Post
    <3>2. effects["transfer"] = 0
      BY <2>1, <2>2 DEF Stages
    <3>3. PerpAmount * effects["transfer"] = 0
      BY <3>2, Products
    <3>4. SpotAmount * Moved("faucet") >= SpotAmount /\ SpotAmount * Moved("faucet") \in Nat
      BY <3>1, Products
    <3>5. QED
      BY <2>1, <3>3, <3>4 DEF Money
  <2>3. ASSUME recipe \notin SpotOnly PROVE perp >= PerpAmount
    <3>1. Moved("transfer") > 0 /\ Moved("transfer") \in Nat
      BY <2>1, <2>3, MovedIsNat DEF Awaited, Post
    <3>2. QED
      BY <2>1, <3>1, Products DEF Money
  <2>4. recipe = "enrolled" => effects["enroll"] > 0
    BY <2>1 DEF Stages, Post
  <2>5. QED
    BY <2>2, <2>3, <2>4
<1>2. QED
  BY <1>1, ProvisionInvariant, PTL

(***************************************************************************)
(* What a tool calls funded is credited or on its way, although the tool   *)
(* does not look at what its waits returned: the platform takes a transfer *)
(* only from money that the deposit has brought.                           *)
(***************************************************************************)
THEOREM ArrangedAccountsOnTheirWay == Spec => []ArrangedIsOnItsWay
<1>1. ProvisionInv => ArrangedIsOnItsWay
  <2>1. SUFFICES ASSUME ProvisionInv, pc \in Handed, recipe \in Tools
                 PROVE  /\ OnItsWay("faucet")
                        /\ recipe \notin SpotOnly => OnItsWay("transfer") /\ Moved("faucet") > 0
    BY DEF ArrangedIsOnItsWay
  <2> USE DEF ProvisionInv
  <2>2. "faucet" \in Post /\ "transfer" \in Post
    BY DEF Post
  <2>3. \A c \in Post : phase[c] = "succeeded" => effects[c] > 0 /\ OnItsWay(c)
    BY <2>1 DEF Stages, OnItsWay, Moved, TypeOK
  <2>4. phase["faucet"] = "succeeded"
    BY <2>1 DEF Stages, AfterDeposit
  <2>5. ASSUME recipe \notin SpotOnly PROVE OnItsWay("transfer") /\ Moved("faucet") > 0
    <3>1. effects["transfer"] > 0 /\ OnItsWay("transfer")
      BY <2>1, <2>2, <2>3, <2>5 DEF Stages
    <3>2. PerpAmount * effects["transfer"] > 0 /\ PerpAmount * effects["transfer"] \in Nat
      BY <2>1, <2>2, <3>1, Products DEF TypeOK
    <3>3. SpotAmount * Moved("faucet") > 0
      <4>1. SpotAmount * Moved("faucet") \in Nat
        BY <2>1, <2>2, Products, MovedIsNat
      <4>2. QED
        BY <2>1, <3>2, <4>1 DEF Money, TypeOK
    <3>4. QED
      BY <2>1, <2>2, <3>1, <3>3, Products, MovedIsNat
  <2>6. QED
    BY <2>2, <2>3, <2>4, <2>5
<1>2. QED
  BY <1>1, ProvisionInvariant, PTL
=============================================================================
