---------------------------- MODULE SettlementTx ----------------------------
(***************************************************************************)
(* The transactions the settlement routes hand to a wallet, and the checks *)
(* they pass first: a swap of native test ETH (src/settlement/             *)
(* testnetSwap.js), a swap of bridged tokens (bridgedSwap.js), a change of *)
(* a liquidity position (liquidity.js) and a bridge transfer (bridge.js,   *)
(* axelarPlugin.js).  An outside service builds each of them; the operators*)
(* below say which ones the code lets through.                             *)
(*                                                                         *)
(* A transaction is the record of what its calldata decodes to: decoding   *)
(* rejects what does not encode back to the same bytes.  Addresses and     *)
(* tokens are values; amounts are integers, an hour 3600.                  *)
(***************************************************************************)
EXTENDS Integers, Sequences, FiniteSets

CONSTANTS
    Sepolia, Router, Manager, Permit2, ITS,     \* the pinned chain and contracts
    Native, Weth, Usdc, Bridged,                \* the tokens
    Self,           \* the router's name for the sender of the transaction
    WeiPerTinybar   \* 10000000000

SettlementAssumption == WeiPerTinybar \in Nat \ {0}

Within(t, from, until) == t >= from /\ t <= until

\* At most half a percent, and a unit for rounding, below the quoted output.
Protected(minimum, output) ==
    /\ minimum > 0 /\ minimum <= output
    /\ minimum * 10000 >= output * 9950 - 10000

-----------------------------------------------------------------------------
(***************************************************************************)
(* Swaps.  input: [address, amount].                                       *)
(***************************************************************************)
SwapQuoteMatches(q, input) ==
    /\ q.chain = Sepolia /\ q.swapper = input.address /\ q.type = "EXACT_INPUT"
    /\ q.tokenIn = Native /\ q.amountIn = input.amount
    /\ q.tokenOut = Usdc /\ q.recipient = input.address
    /\ Protected(q.minimum, q.output)

\* Native ETH is wrapped by the router and swapped from there.
ValidSwap(tx, q, input, now) ==
    /\ tx.chain = Sepolia /\ tx.to = Router /\ tx.from = input.address
    /\ tx.value = input.amount
    /\ SwapQuoteMatches(q, input)
    /\ tx.commands = <<"wrap", "swap">>
    /\ tx.deadline > now + 60 /\ tx.deadline <= now + 3600
    /\ tx.wrapped = input.amount /\ tx.amountIn = input.amount
    /\ tx.minOut = q.minimum /\ ~tx.payerIsUser
    /\ tx.recipient \in {input.address, Self}
    /\ tx.path = <<Weth, Usdc>>

\* Mutant: the quote may pay anyone.
BridgedQuoteLoose(q, input) ==
    /\ q.chain = Sepolia /\ q.swapper = input.address /\ q.type = "EXACT_INPUT"
    /\ q.tokenIn = Bridged /\ q.amountIn = input.amount
    /\ q.tokenOut = Usdc

BridgedQuoteMatches(q, input) ==
    /\ q.chain = Sepolia /\ q.swapper = input.address /\ q.type = "EXACT_INPUT"
    /\ q.tokenIn = Bridged /\ q.amountIn = input.amount
    /\ q.tokenOut = Usdc /\ q.recipient = input.address
    /\ Protected(q.minimum, q.output)

\* The permit the wallet signs lets the router take this amount, once, for a while.
ValidPermit(p, input, now) ==
    /\ p.contract = Permit2 /\ p.token = Bridged /\ p.amount = input.amount
    /\ p.spender = Router
    /\ Within(p.expiration, now, now + 31 * 86400)
    /\ Within(p.sigDeadline, now, now + 3600)

\* permit is <<>> or the one element sequence of the permit the draft holds.
ValidBridgedTx(tx, q, input, permit, now) ==
    /\ tx.chain = Sepolia /\ tx.to = Router /\ tx.from = input.address /\ tx.value = 0
    /\ BridgedQuoteMatches(q, input)
    /\ tx.commands = IF permit = <<>> THEN <<"swap">> ELSE <<"permit", "swap">>
    /\ Within(tx.deadline, now + 30, now + 3600)
    /\ tx.permit = permit
    /\ permit # <<>> => permit[1].signer = input.address
    /\ tx.recipient \in {input.address, Self}
    /\ tx.amountIn = input.amount /\ tx.minOut = q.minimum /\ tx.payerIsUser
    /\ tx.path = <<Bridged, Usdc>>

-----------------------------------------------------------------------------
(***************************************************************************)
(* Liquidity positions.  input: [address, action, position, amount,        *)
(* percentage]; expected: what the code computed from the chain.           *)
(***************************************************************************)
LpInput(input) ==
    CASE input.action \in {"create", "increase"} -> Within(input.amount, 10000, 1000000)
      [] input.action = "remove" -> Within(input.percentage, 1, 100)
      [] OTHER -> input.action = "collect"

LpCalls(action) ==
    CASE action = "create" -> <<"mint">>
      [] action = "increase" -> <<"increase">>
      [] action = "collect" -> <<"collect">>
      [] action = "remove" -> <<"decrease", "collect">>

\* What an addition may take: the other token's amount follows from the live ratio.
AddExpected(input, offered) == [liquidity |-> 0, amount0 |-> offered, amount1 |-> input.amount]

AddSound(input, ratio, offered) ==
    /\ Within(offered, 1, 1000000)
    /\ Within(offered, (input.amount * ratio * 995) \div 1000 - 2,
                       (input.amount * ratio * 1005) \div 1000 + 2)

\* What a removal takes: the exact share, and what the chain pays for it now.
Share(input, position) == (position.liquidity * input.percentage) \div 100

RemoveExpected(input, position) ==
    [liquidity |-> Share(input, position),
     amount0 |-> Share(input, position), amount1 |-> Share(input, position)]

\* An existing position is the wallet's own, of this market, and has what is asked.
PositionSound(input, position) ==
    /\ position.owner = input.address /\ position.supported
    /\ input.action = "remove" => Share(input, position) > 0
    /\ input.action = "collect" => position.claimable > 0

Minimums(call, reference0, reference1) ==
    /\ Within(call.min0, (reference0 * 995) \div 1000, reference0)
    /\ Within(call.min1, (reference1 * 995) \div 1000, reference1)

ValidLpCall(call, input, expected, now) ==
    /\ call.name # "mint" => call.position = input.position
    /\ call.name = "collect" => call.recipient = input.address /\ call.all
    /\ call.name # "collect" => Within(call.deadline, now + 30, now + 900)
    /\ call.name = "mint" => call.pinned /\ call.recipient = input.address
    /\ call.name = "decrease" =>
        /\ call.liquidity = expected.liquidity
        /\ Minimums(call, expected.amount0, expected.amount1)
    /\ call.name \in {"mint", "increase"} =>
        /\ Within(call.amount1, input.amount - 2, input.amount)
        /\ Within(call.amount0, 1, 1000000)
        /\ Within(call.amount0, expected.amount0 - 2, expected.amount0)
        /\ Within(call.amount1, expected.amount1 - 2, expected.amount1)
        /\ Minimums(call, call.amount0, call.amount1)

ValidLpTx(tx, input, expected, now) ==
    /\ tx.chain = Sepolia /\ tx.to = Manager /\ tx.from = input.address /\ tx.value = 0
    /\ [i \in DOMAIN tx.calls |-> tx.calls[i].name] = LpCalls(input.action)
    /\ \A i \in DOMAIN tx.calls : ValidLpCall(tx.calls[i], input, expected, now)

-----------------------------------------------------------------------------
(***************************************************************************)
(* The bridge.  input: [cents, recipient].                                 *)
(***************************************************************************)
BridgeUnits(input) == input.cents * 10000

BridgeInput(input) == Within(input.cents, 1, 1000)

\* The smallest whole number of tinybars that covers a fee in wei.
GasTinybars(feeWei) == (feeWei + WeiPerTinybar - 1) \div WeiPerTinybar

ValidGas(feeWei) == Within(GasTinybars(feeWei), 1, 100000000)

\* What the plugin built is compared with the request; the ledger takes the gas
\* argument in tinybars, the plugin writes it in wei.
PluginBridge(tx, input, feeWei) ==
    /\ BridgeInput(input) /\ ValidGas(feeWei)
    /\ tx.to = ITS /\ tx.payable = GasTinybars(feeWei)
    /\ tx.recipient = input.recipient /\ tx.amount = BridgeUnits(input)
    /\ tx.gasValue = GasTinybars(feeWei) * WeiPerTinybar

Corrected(tx) == [tx EXCEPT !.gasValue = tx.payable]

\* The source event must be the recorded transfer.
BridgeSource(event, input) ==
    /\ event.ok /\ event.contract = ITS
    /\ event.recipient = input.recipient /\ event.amount = BridgeUnits(input)

SameTransfer(arrival, event, input) ==
    /\ arrival.contract = ITS
    /\ arrival.sender = event.sender
    /\ arrival.recipient = input.recipient /\ arrival.amount = event.amount

\* arrived and approved are <<>> or the one element sequence of what the chain shows.
BridgeStatus(event, arrived, approved, input) ==
    LET Shown(row) == row # <<>> /\ row[1].ok /\ SameTransfer(row[1], event, input) IN
    CASE Shown(arrived) -> "delivered"
      [] ~Shown(arrived) /\ Shown(approved) -> "ready-to-deliver"
      [] ~Shown(arrived) /\ approved # <<>> /\ ~SameTransfer(approved[1], event, input) -> "error"
      [] OTHER -> "in-transit"
=============================================================================
