---------------------------- MODULE Provisioning ----------------------------
(***************************************************************************)
(* How an account is made: mint a wallet, deposit spot funds from the      *)
(* faucet, wait until they are credited, transfer collateral to perps,     *)
(* wait again, and hand the account over.  The fixtures of                 *)
(* fixtures/accounts.py and the two tools tools/arrange_perf_accounts.py   *)
(* and tools/arrange_metamask_e2e.py do this in variations (recipes): some *)
(* stop after the spot deposit, some look at what a wait returned, some    *)
(* take a new token at the end, one enrolls in the competition; the tools  *)
(* make several accounts and then write a file.  All use lib/funding.py    *)
(* and wait_for_value of lib/poll.py; both credits are asynchronous.       *)
(*                                                                         *)
(* The posts go through ResilientClients; what those promise is            *)
(* CallContract (ResilientHttp implements it): a post may take effect more *)
(* than once, or late, or although it raised.  (The perf tool posts        *)
(* without retries, which the contract allows as well.)  Time is in        *)
(* fractions of the token's lifetime.                                      *)
(***************************************************************************)
EXTENDS Integers

CONSTANTS SpotAmount, PerpAmount,   \* spot_usdt, perp_usdt
          SettleTimeout,            \* funding.settle_timeout_s (30 s)
          TokenLife,                      \* lifetime of an access token (60 s)
          Budget                    \* of CallContract: attempts of each post

ASSUME ProvisionAssumption ==
    /\ SpotAmount \in Nat /\ PerpAmount \in Nat \ {0} /\ PerpAmount <= SpotAmount
    /\ SettleTimeout \in Nat /\ TokenLife \in Nat \ {0}
    /\ Budget \in [{"faucet", "transfer", "enroll"} -> Nat]

\* Fixtures account and new_funded_account, enrolled_account, perp_maker, spot_maker;
\* the accounts of the perf tool; subject and maker of the end-to-end tool.
Fixtures == {"account", "enrolled", "perp maker", "spot maker"}
Tools == {"perf", "e2e subject", "e2e maker"}
SpotOnly == {"spot maker", "e2e subject"}
Refreshed == {"account", "enrolled"}

VARIABLES phase, effects, doubts,   \* of CallContract
          pc, recipe,
          spot, perp,               \* available balances on the platform
          crediting,                \* deposits and transfers accepted, not yet credited
          left,                     \* time left for the wait that is running
          age                       \* age of the access token in use; TokenLife: expired

Post == {"faucet", "transfer", "enroll"}
Contract == INSTANCE CallContract WITH Call <- Post

posts == <<phase, effects, doubts>>
balances == <<spot, perp, crediting>>
vars == <<posts, pc, recipe, balances, left, age>>

Init ==
    /\ Contract!ContractInit
    /\ pc = "mint" /\ recipe \in Fixtures \cup Tools
    /\ spot = 0 /\ perp = 0 /\ crediting = [c \in Post |-> 0]
    /\ left = 0 /\ age = 0

-----------------------------------------------------------------------------
\* Mutants: a wait has no deadline; the account is handed over before its transfer
\* has settled; the deposit's wait is passed over; a post's answer is not looked at.
NoDeadline == FALSE
ReadyAtOnce == IF recipe \in Refreshed THEN "refresh" ELSE "ready"
TransferAtOnce(c) ==
    [faucet |-> "transfer", transfer |-> "perpwait", enroll |-> "ready"][c]
Answered(c) == phase[c] # "open"

Raise == pc' = "raised"

\* _mint_account: challenge, sign, verify.
Mint ==
    /\ pc = "mint"
    /\ \/ pc' = "faucet" /\ age' = 0
       \/ Raise /\ UNCHANGED age
    /\ UNCHANGED <<posts, recipe, balances, left>>

\* What follows a post, and what follows the waits.
AfterTransfer == "perpwait"
WaitAfter(c) ==
    [faucet |-> "spotwait", transfer |-> AfterTransfer, enroll |-> "ready"][c]
AfterSpot == IF recipe \in SpotOnly THEN "ready" ELSE "transfer"
AfterPerp == IF recipe \in Refreshed THEN "refresh" ELSE "ready"
AfterRefresh == IF recipe = "enrolled" THEN "enroll" ELSE "ready"

\* _assert_ok, and for the enrolment status 200 or 201.
Taken(c) == phase[c] = "succeeded"

\* The post of `c` is over: ok, or it raises (not ok, no answer, or an answer the
\* caller does not take, such as success = false).
PostEnds(c) ==
    /\ pc = c
    /\ Contract!Close(c) \/ Contract!Doubt(c)
    /\ \/ phase'[c] = "open" /\ UNCHANGED <<pc, left>>
       \/ phase'[c] # "open" /\ Raise /\ UNCHANGED left
       \/ Taken(c)' /\ pc' = WaitAfter(c) /\ left' = SettleTimeout
    /\ UNCHANGED <<recipe, balances, age>>

\* value < minimum, with minimum = 90 % of the amount asked for.
Settled(value, amount) == 10 * value >= 9 * amount
Credited(value) == value > 0
TimeOver == left = 0

\* The tools take what a wait returned as it is.
GoesOn(value) == Credited(value) \/ recipe \in Tools

\* One turn of wait_for_value, and the test of what it returned.
Look(here, value, amount, next) ==
    /\ pc = here
    /\ Settled(value, amount) \/ TimeOver
    /\ pc' = IF GoesOn(value) THEN next ELSE "raised"
    /\ UNCHANGED <<posts, recipe, balances, left, age>>

SpotLook == Look("spotwait", spot, SpotAmount, AfterSpot)
PerpLook == Look("perpwait", perp, PerpAmount, AfterPerp)

\* A read raises: no answer, or a 401 for an expired token.
LookRaises ==
    /\ pc \in {"spotwait", "perpwait"}
    /\ Raise
    /\ UNCHANGED <<posts, recipe, balances, left, age>>

\* refresh_account_token (TokenLifecycle has its insides).
Refresh ==
    /\ pc = "refresh"
    /\ \/ pc' = AfterRefresh /\ age' = 0
       \/ Raise /\ UNCHANGED age
    /\ UNCHANGED <<posts, recipe, balances, left>>

\* A tool makes the other accounts of its arrangement, which takes time or raises,
\* and writes the file at the very end.
WriteFile ==
    /\ pc = "ready" /\ recipe \in Tools
    /\ pc' = "written" \/ Raise
    /\ UNCHANGED <<posts, recipe, balances, left, age>>

-----------------------------------------------------------------------------
(* The platform (external).                                                *)

Begun(c) == pc = c \/ phase[c] # "open"

AcceptDeposit ==
    /\ Begun("faucet")
    /\ Contract!Effect("faucet")
    /\ crediting' = [crediting EXCEPT !["faucet"] = @ + 1]
    /\ UNCHANGED <<pc, recipe, spot, perp, left, age>>

AcceptEnroll ==
    /\ Begun("enroll")
    /\ Contract!Effect("enroll")
    /\ UNCHANGED <<pc, recipe, balances, left, age>>

\* A transfer needs the money.
AcceptTransfer ==
    /\ Begun("transfer")
    /\ spot >= PerpAmount
    /\ Contract!Effect("transfer")
    /\ spot' = spot - PerpAmount
    /\ crediting' = [crediting EXCEPT !["transfer"] = @ + 1]
    /\ UNCHANGED <<pc, recipe, perp, left, age>>

Credit(c) ==
    /\ crediting[c] > 0
    /\ crediting' = [crediting EXCEPT ![c] = @ - 1]
    /\ IF c = "faucet" THEN spot' = spot + SpotAmount /\ perp' = perp
                       ELSE perp' = perp + PerpAmount /\ spot' = spot
    /\ UNCHANGED <<posts, pc, recipe, left, age>>

\* Bound: the last read of a wait follows its deadline at once.
TimePasses ==
    /\ pc \notin {"mint", "written", "raised"} /\ ~(pc = "ready" /\ recipe \in Fixtures)
    /\ IF pc \in {"spotwait", "perpwait"} THEN left > 0 ELSE age < TokenLife
    /\ left' = IF left > 0 THEN left - 1 ELSE 0
    /\ age' = IF age < TokenLife THEN age + 1 ELSE TokenLife
    /\ UNCHANGED <<posts, pc, recipe, balances>>

Provision ==
    \/ Mint \/ (\E c \in Post : PostEnds(c))
    \/ SpotLook \/ PerpLook \/ Refresh \/ WriteFile
Platform == AcceptDeposit \/ AcceptEnroll \/ AcceptTransfer \/ (\E c \in Post : Credit(c))

Next == Provision \/ LookRaises \/ Platform \/ TimePasses

\* Clocks run and calls return; the platform owes nothing.
Spec == Init /\ [][Next]_vars /\ WF_vars(Provision) /\ WF_vars(TimePasses)

-----------------------------------------------------------------------------
Running == {"mint", "faucet", "spotwait", "transfer", "perpwait", "refresh", "enroll"}
Handed == {"ready", "written"}
AfterDeposit == {"spotwait", "transfer", "perpwait", "refresh", "enroll"} \cup Handed

TypeOK ==
    /\ phase \in [Post -> {"open", "succeeded", "failed"}]
    /\ effects \in [Post -> Nat] /\ doubts \in [Post -> Nat]
    /\ pc \in Running \cup Handed \cup {"raised"} /\ recipe \in Fixtures \cup Tools
    /\ spot \in Nat /\ perp \in Nat /\ crediting \in [Post -> Nat]
    /\ left \in 0..SettleTimeout /\ age \in 0..TokenLife

(***************************************************************************)
(* The stages come in order: whatever the platform accepted twice or late, *)
(* money is only where a post that was made has put it (Money), a wait is  *)
(* for a post that succeeded (Stages), and a fixture goes on only with     *)
(* what was credited (Awaited).                                            *)
(***************************************************************************)
Moved(c) == effects[c] - crediting[c]

Money ==
    /\ crediting["faucet"] <= effects["faucet"]
    /\ crediting["transfer"] <= effects["transfer"]
    /\ crediting["enroll"] = 0
    /\ spot = SpotAmount * Moved("faucet") - PerpAmount * effects["transfer"]
    /\ perp = PerpAmount * Moved("transfer")

Stages ==
    /\ \A c \in Post : phase[c] = "succeeded" => effects[c] > 0
    /\ pc \in {"mint", "faucet"} => phase["faucet"] = "open"
    /\ pc \in {"mint", "faucet", "spotwait", "transfer"} => phase["transfer"] = "open"
    /\ pc \in AfterDeposit => phase["faucet"] = "succeeded"
    /\ pc \in {"perpwait", "refresh", "enroll"} => phase["transfer"] = "succeeded"
    /\ pc \in Handed /\ recipe \notin SpotOnly => phase["transfer"] = "succeeded"
    /\ pc = "enroll" => recipe = "enrolled"
    /\ pc = "ready" /\ recipe = "enrolled" => phase["enroll"] = "succeeded"
    /\ recipe \in SpotOnly =>
         /\ pc \notin {"transfer", "perpwait", "refresh", "enroll"}
         /\ phase["transfer"] = "open" /\ effects["transfer"] = 0

Awaited ==
    recipe \in Fixtures =>
        /\ pc \in AfterDeposit \ {"spotwait"} => Moved("faucet") > 0
        /\ pc \in {"refresh", "enroll", "ready"} /\ recipe \notin SpotOnly => Moved("transfer") > 0

ProvisionInv == TypeOK /\ Money /\ Stages /\ Awaited

(***************************************************************************)
(* An account that a fixture hands back has its collateral credited in     *)
(* full (spot_maker: its inventory), whichever of the posts was repeated   *)
(* and however late the credits came; and it is enrolled if the fixture    *)
(* says so.                                                                *)
(***************************************************************************)
ReadyIsFunded ==
    pc = "ready" /\ recipe \in Fixtures =>
        /\ IF recipe \in SpotOnly THEN spot >= SpotAmount ELSE perp >= PerpAmount
        /\ recipe = "enrolled" => effects["enroll"] > 0

(***************************************************************************)
(* The tools print "funded" without looking at what their waits returned.  *)
(* Even so the money is there or on its way: a deposit that was accepted,  *)
(* a transfer that the platform could only accept once it was credited.    *)
(***************************************************************************)
OnItsWay(c) == Moved(c) + crediting[c] > 0

ArrangedIsOnItsWay ==
    pc \in Handed /\ recipe \in Tools =>
        /\ OnItsWay("faucet")
        /\ recipe \notin SpotOnly => OnItsWay("transfer") /\ Moved("faucet") > 0

\* Provisioning ends, whether or not anything is ever credited.
ProvisionEnds == <>(pc \in {"written", "raised"} \/ (pc = "ready" /\ recipe \in Fixtures))

(***************************************************************************)
(* refresh_account_token's docstring, fixtures/accounts.py:117-119: call   *)
(* this "after any wait/step that could plausibly have eaten that budget   *)
(* ... before making further authenticated calls": the reads and the       *)
(* transfer of the funding itself carry a token that has not expired.      *)
(***************************************************************************)
FundingAuthorized == pc \in {"spotwait", "transfer", "perpwait"} => age < TokenLife

(***************************************************************************)
(* "subject funded", "maker funded (spot+perp)", tools/                    *)
(* arrange_metamask_e2e.py:95,108: what the tool prints is so.             *)
(***************************************************************************)
PrintedIsFunded ==
    pc = "ready" /\ recipe \in Tools =>
        IF recipe \in SpotOnly THEN spot >= SpotAmount ELSE perp >= PerpAmount
=============================================================================
