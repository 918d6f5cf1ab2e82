-------------------------- MODULE SettlementCases --------------------------
(***************************************************************************)
(* What executing a transaction of the settlement routes would do, and the *)
(* transactions an outside service might build: a right one with up to two *)
(* of its fields wrong, with a quote that may have up to two wrong as well.*)
(***************************************************************************)
EXTENDS SettlementTx, FiniteSetsExt

Wallet == "wallet"
Other == "other"
Now == 1000

\* good with the fields of other in at most two places.
Variants(good, other) ==
    LET Fields == DOMAIN good
        Wrong == UNION {kSubset(k, Fields) : k \in 0..2}
    IN  {[f \in Fields |-> IF f \in D THEN other[f] ELSE good[f]] : D \in Wrong}

-----------------------------------------------------------------------------
(***************************************************************************)
(* Swaps.  The router takes the input from its payer and pays the output   *)
(* to the recipient, or fails when it is less than the minimum.            *)
(***************************************************************************)
Swap == [address |-> Wallet, amount |-> 20000]

Quotes(token) ==
    Variants([chain |-> Sepolia, swapper |-> Wallet, type |-> "EXACT_INPUT", tokenIn |-> token,
              amountIn |-> 20000, tokenOut |-> Usdc, recipient |-> Wallet,
              minimum |-> 19899, output |-> 20000],
             [chain |-> "mainnet", swapper |-> Other, type |-> "EXACT_OUTPUT", tokenIn |-> Weth,
              amountIn |-> 20001, tokenOut |-> Weth, recipient |-> Other,
              minimum |-> 19898, output |-> 20002])

SwapTxs(token, commands, value, byUser, permit) ==
    Variants([chain |-> Sepolia, to |-> Router, from |-> Wallet, value |-> value,
              commands |-> commands, deadline |-> Now + 3600, wrapped |-> value,
              amountIn |-> 20000, minOut |-> 19899, payerIsUser |-> byUser,
              recipient |-> Self, path |-> <<token, Usdc>>, permit |-> permit],
             [chain |-> "mainnet", to |-> Other, from |-> Other, value |-> value + 1,
              commands |-> <<"swap">>, deadline |-> Now, wrapped |-> value + 1,
              amountIn |-> 20001, minOut |-> 19898, payerIsUser |-> ~byUser,
              recipient |-> Other, path |-> <<token, Weth>>, permit |-> <<>>])

Payee(tx) == IF tx.recipient = Self THEN tx.from ELSE tx.recipient

\* Of the wallet's native tokens and of its bridged tokens, what leaves it.
NativeSpent(tx) == IF tx.from = Wallet THEN tx.value ELSE 0
TokensSpent(tx) == IF tx.payerIsUser /\ tx.from = Wallet THEN tx.amountIn ELSE 0
LeftInRouter(tx) == tx.value - (IF tx.payerIsUser THEN 0 ELSE tx.amountIn)

\* The wallet gets the output, of the token it asked for, at half a percent less at most.
PaysTheWallet(tx, q) ==
    /\ tx.to = Router /\ Payee(tx) = Wallet /\ tx.path[Len(tx.path)] = Usdc
    /\ tx.minOut * 10000 >= q.output * 9950 - 10000
    /\ q.recipient = Wallet /\ q.tokenOut = Usdc

NativeSwapsBounded ==
    \A tx \in SwapTxs(Weth, <<"wrap", "swap">>, 20000, FALSE, <<>>), q \in Quotes(Native) :
        ValidSwap(tx, q, Swap, Now) =>
            /\ NativeSpent(tx) = Swap.amount /\ TokensSpent(tx) = 0 /\ LeftInRouter(tx) = 0
            /\ PaysTheWallet(tx, q)

Permits ==
    Variants([contract |-> Permit2, token |-> Bridged, amount |-> 20000, spender |-> Router,
              expiration |-> Now + 86400, sigDeadline |-> Now + 3600, signer |-> Wallet],
             [contract |-> Other, token |-> Usdc, amount |-> 20001, spender |-> Other,
              expiration |-> Now - 1, sigDeadline |-> Now + 3601, signer |-> Other])

MatchingQuotes == {q \in Quotes(Bridged) : BridgedQuoteMatches(q, Swap)}

PermitsBounded ==
    \A p \in Permits : ValidPermit(p, Swap, Now) =>
        /\ p.spender = Router /\ p.token = Bridged /\ p.amount = Swap.amount
        /\ p.expiration - Now <= 31 * 86400

BridgedSwapsBounded ==
    \A tx \in SwapTxs(Bridged, <<"swap">>, 0, TRUE, <<>>), q \in Quotes(Bridged) :
        ValidBridgedTx(tx, q, Swap, <<>>, Now) =>
            /\ NativeSpent(tx) = 0 /\ TokensSpent(tx) = Swap.amount
            /\ PaysTheWallet(tx, q)

PermittedSwapsBounded ==
    \A p \in Permits : \A tx \in SwapTxs(Bridged, <<"permit", "swap">>, 0, TRUE, <<p>>) :
        \A q \in MatchingQuotes :
            ValidPermit(p, Swap, Now) /\ ValidBridgedTx(tx, q, Swap, <<p>>, Now) =>
                /\ tx.permit[1].signer = Wallet /\ TokensSpent(tx) = Swap.amount
                /\ PaysTheWallet(tx, q)

-----------------------------------------------------------------------------
(***************************************************************************)
(* Positions: mint and increase take up to the desired amounts, decrease   *)
(* turns liquidity into a debt of at least the minimums, and collect pays  *)
(* that debt to its recipient.                                             *)
(***************************************************************************)
LpInputs == {[address |-> Wallet, action |-> a, position |-> "own", amount |-> 20000, percentage |-> 50] :
                a \in {"create", "increase", "collect", "remove"}}

Positions ==
    Variants([owner |-> Wallet, supported |-> TRUE, liquidity |-> 40001, claimable |-> 10],
             [owner |-> Other, supported |-> FALSE, liquidity |-> 0, claimable |-> 0])

Good(name) ==
    [name |-> name, position |-> "own", recipient |-> Wallet, all |-> TRUE,
     deadline |-> Now + 900, pinned |-> TRUE, liquidity |-> 20000,
     amount0 |-> 20000, amount1 |-> 20000, min0 |-> 19900, min1 |-> 19900]

LpCallsOf(name) ==
    Variants(Good(name),
             [name |-> "collect", position |-> "foreign", recipient |-> Other, all |-> FALSE,
              deadline |-> Now + 901, pinned |-> FALSE, liquidity |-> 20001,
              amount0 |-> 20001, amount1 |-> 20001, min0 |-> 19899, min1 |-> 19899])

LpTx(calls) == [chain |-> Sepolia, to |-> Manager, from |-> Wallet, value |-> 0, calls |-> calls]

LpTxs(action) ==
    IF action = "remove"
    THEN {LpTx(<<d, Good("collect")>>) : d \in LpCallsOf("decrease")}
            \cup {LpTx(<<Good("decrease"), c>>) : c \in LpCallsOf("collect")}
    ELSE {LpTx(<<c>>) : c \in LpCallsOf(LpCalls(action)[1])}

\* Everything goes to or from the wallet, at most what was asked, nothing but its own
\* position is touched, and what a removal owes is collected by the wallet.
LpHarmless(tx, input, taken) ==
    /\ \A i \in DOMAIN tx.calls : LET c == tx.calls[i] IN
        /\ c.name = "mint" \/ c.position = "own"
        /\ c.name \in {"mint", "collect"} => c.recipient = Wallet
        /\ c.name \in {"mint", "increase"} =>
            c.amount1 <= input.amount /\ c.amount0 <= 1000000 /\ c.min0 * 1000 >= c.amount0 * 995 - 1000
        /\ c.name = "decrease" => c.liquidity = taken /\ c.min0 * 1000 >= taken * 995 - 1000
        /\ c.name # "collect" => c.deadline <= Now + 900
    /\ tx.calls[Len(tx.calls)].name # "decrease"

LiquidityBounded ==
    \A input \in LpInputs : LpInput(input) =>
        \A position \in Positions : \A tx \in LpTxs(input.action) :
            LET adds == input.action \in {"create", "increase"}
                expected == IF adds THEN AddExpected(input, 20000) ELSE RemoveExpected(input, position)
                sound == /\ adds => AddSound(input, 1, 20000)
                         /\ input.action # "create" => PositionSound(input, position)
            IN  sound /\ ValidLpTx(tx, input, expected, Now) =>
                    LpHarmless(tx, input, position.liquidity \div 2)

-----------------------------------------------------------------------------
(***************************************************************************)
(* The bridge: what is sent is what was asked, its gas paid once and in    *)
(* full, and only the recorded transfer is ever reported as delivered.     *)
(***************************************************************************)
Bridging == [cents |-> 7, recipient |-> Wallet]
Fee == 25

PluginTxs ==
    Variants([to |-> ITS, payable |-> 3, recipient |-> Wallet, amount |-> 70000, gasValue |-> 30],
             [to |-> Other, payable |-> 2, recipient |-> Other, amount |-> 70001, gasValue |-> 25])

Events ==
    Variants([ok |-> TRUE, contract |-> ITS, sender |-> "source", recipient |-> Wallet, amount |-> 70000],
             [ok |-> FALSE, contract |-> Other, sender |-> "stranger", recipient |-> Other, amount |-> 70001])

BridgeBounded ==
    /\ \A tx \in PluginTxs : PluginBridge(tx, Bridging, Fee) =>
        LET sent == Corrected(tx) IN
        /\ sent.recipient = Wallet /\ sent.amount = 70000
        /\ sent.gasValue = sent.payable
        /\ sent.gasValue * WeiPerTinybar \in Fee..(Fee + WeiPerTinybar - 1)
    /\ \A event, arrival \in Events : BridgeSource(event, Bridging) =>
        /\ BridgeStatus(event, <<arrival>>, <<>>, Bridging) = "delivered" =>
            arrival.ok /\ arrival.recipient = Wallet /\ arrival.amount = 70000
                /\ arrival.sender = event.sender
        /\ BridgeStatus(event, <<>>, <<arrival>>, Bridging) = "ready-to-deliver" =>
            arrival.recipient = Wallet /\ arrival.amount = 70000 /\ arrival.sender = event.sender

-----------------------------------------------------------------------------
\* Whatever the outside service builds, what a wallet is handed moves at most what its
\* owner asked for, pays only its owner, within half a percent of the quote, and a
\* bridge transfer is reported delivered only when it arrived as recorded.
HandedOutIsBounded ==
    /\ NativeSwapsBounded /\ PermitsBounded /\ BridgedSwapsBounded /\ PermittedSwapsBounded
    /\ LiquidityBounded /\ BridgeBounded
=============================================================================
