# Verification of the rate limit and of the modules with state in time

The repository is a copy of the Osmosis chain kept for its IBC rate limit. This
directory holds TLA+ models of the code that every ICS-20 transfer passes
through, and of the parts of the chain whose correctness depends on what happens
in which order: locks and superfluid staking, epochs with incentives and
minting, the contract that swaps across chains, and the time weighted average
price. With them come the TLC configurations that check the models, and TLAPS
proofs.

Run a check with `tlc -config X.cfg Module`, a proof with
`tlapm RateLimiterProofs.tla`. `PROJECT.json` lists the runs, the source lines
each definition stands for, the hazards and the findings.

## 1. The system

A token leaves in a `MsgTransfer`. The transfer module escrows it (or burns a
voucher that returns to where it came from) and calls `SendPacket` on a chain of
ICS-4 wrappers:

    transfer keeper -> rate-limit ICS4Wrapper -> ibc-hooks ICS4 -> core channel keeper

A packet that arrives, an acknowledgement or a timeout goes the other way:

    core IBC -> ibc-hooks -> rate-limit IBCModule -> packet-forward -> transfer

(`app/keepers/keepers.go`, `WireICS20PreWasmKeeper`). The rate limit is decided
by a CosmWasm contract, called through `Sudo`, whose address is the middleware's
only parameter. The empty address switches the rate limit off.

### Inventory

| component | state | operations | interacts with |
|---|---|---|---|
| rate-limiter contract (`x/ibc-rate-limit/contracts/rate-limiter`) | `RATE_LIMIT_TRACKERS`: (channel, denom) -> vector of (quota, flow) | sudo `SendPacket`, `RecvPacket`, `UndoSend`; execute `AddPath`, `RemovePath`, `ResetPathQuota` | reads the bank's supply; called by the middleware and by governance |
| packet handling (`packet.rs`) | none | local channel and denom of a packet | must agree with the transfer module |
| rate-limit middleware (`x/ibc-rate-limit/*.go`) | `Params.ContractAddress` | `SendPacket`, `OnRecvPacket`, `OnAcknowledgementPacket`, `OnTimeoutPacket` | contract, transfer module, core IBC |
| ibc-hooks (`x/ibc-hooks`) | callbacks by (channel, sequence) | contract calls by memo on receive, callbacks on ack and timeout | sits above the rate limit; calls arbitrary contracts |
| helpers (`osmoutils/ibc.go`) | none | `IsAckError`, `MustExtractDenomFromPacketOnRecv` | used by both middlewares |
| transfer, packet-forward, core IBC, bank, wasm (libraries) | balances, escrow, supply, commitments | send, receive, refund, roll back | modelled as external |
| lockup (`x/lockup`) | locks, index of references, accumulation by duration, synthetic locks | lock, extend, begin to unlock (in part), force unlock; end of block | called by superfluid; read by incentives |
| superfluid (`x/superfluid`) | connections of locks to intermediary accounts, their delegations, multiplier of the asset | delegate, undelegate, unbond (in part), unpool; epoch, slash, proposals | locks of lockup, staking, pools |
| epochs (`x/epochs`) | one clock for each identifier | begin block | calls the hooks of mint, incentives, twap and others, each undone when it fails |
| incentives (`x/incentives`) | gauges, queues of upcoming, active and finished ones | create, add; distribution at the end of an epoch | locks, bank |
| mint, pool-incentives (`x/mint`, `x/pool-incentives`) | provisions, developers' vesting account, distribution records | mint at the end of an epoch, allocate to gauges; proposals | feeds gauges of incentives |
| crosschain-swaps, swaprouter (`cosmwasm/contracts`) | reply states, packets in flight, recoveries; routes | swap and forward, ack, timeout, recover, governance | called through ibc-hooks and called back by it |
| twap (`x/twap`) | most recent and historical records of each pair | pool hooks, end of block, pruning, export and import; queries | pools, epochs |
| the rest of the chain | | | touches the rate limit only through the bank's supply |

What makes each part correct:

- contract: net flow per period stays within the quota; a period keeps its end
  and its channel value; a failed transfer changes nothing; a limit does not
  outlive its period; sending back and forth uses nothing up;
- packet handling: the key the contract counts under is the denom the bank moves,
  and the same on the way out and back;
- middleware: what the contract has recorded is what really happened, although
  outcomes arrive late, governance reconfigures in between and the contract may
  be missing; refunds never depend on the rate limit;
- ibc-hooks: a listener is told once and truly; a contract call by memo and its
  funds are all or nothing;
- lockup and superfluid: what is locked is held, indexed and counted; what is
  delegated is what the delegated locks are worth; undelegated stake stays locked
  and slashable for the unbonding time; no block panics;
- epochs, incentives, mint: epochs that were missed are made up for; what gauges
  owe is held; an epoch pays every gauge or none; nothing minted is lost;
- crosschain-swaps: a forward that fails can be recovered, once, by the right
  address, and the contract holds what it owes;
- twap: the average over any kept interval is right and reports errors.

What is hard: outcomes of a packet arrive blocks or periods after the send and
meet other state than the send did; several quotas, on a path and on `any`, must
move together; the channel value is read after the tokens moved on a send and
before on a receive; foreign contracts fail, recover and send again from inside a
handler; the text of denoms and acknowledgements comes from other chains. In the other
modules: long sequences of legal messages on one lock, gauge or packet; hooks that
fail and are undone in the middle of a block; blocks that come late; pruning and
slashing between a message and its consequence. There
are no threads: a transaction is atomic, and interleaving is that of
transactions. `PROJECT.json` lists each hazard at its line.

## 2. Modules

| module | models | main state |
|---|---|---|
| `RateLimit` | data and storage operations of the contract, as operators | - |
| `RateLimiter` (with `MCRateLimiter`) | the contract alone, under any messages and any supply | `trackers`, `now` |
| `TransferStack` (with `MCTransferStack`) | middleware, contract, transfer module, packets, governance | `trackers`, `contract`, `supply`, `escrow`, `abroad`, `packets` |
| `PacketDenom` (with `MCPacketDenom`) | the contract's key of a packet and the transfer module's denom, over several hops | `held`, `away`, `came` |
| `PacketCallbacks` | ibc-hooks on send, ack and timeout | `packets`, `callbacks`, `working` |
| `WasmRouting` (with `MCWasmRouting`) | ibc-hooks on receive | `balance`, `received`, `calls` |
| `Lockup` | keeper of x/lockup as operators on its store | - |
| `Superfluid` (with `MCSuperfluid`) | messages of x/lockup and x/superfluid, blocks, slashing, governance | `store`, `connection`, `delegation`, `multiplier` |
| `Epochs`, `Incentives`, `Mint` | clocks, gauges, and mint with pool-incentives, as operators on their stores | - |
| `EpochHooks` (with `MCEpochHooks`) | the three composed: begin blocker with its hooks, messages, proposals | `blockTime`, `epochs`, `st`, `locked`, `receiver` |
| `CrosschainSwaps` (with `MCCrosschainSwaps`) | crosschain-swaps and swaprouter | `s` (stores, holdings, packets) |
| `Twap` (with `MCTwap`) | x/twap with its queries | `recent`, `records`, `changed` |
| `Sums`, `RateLimitProofs`, `RateLimiterProofs`, `TransferStackProofs`, `IbcHooksProofs`, `CrosschainSwapsProofs`, `SuperfluidProofs`, `EpochProofs` | proofs, see section 4 | - |

### Correspondence with the code

Operators of `RateLimit` have the names of the Rust functions. A function that
returns `Result` returns `[ok, store]`; `Err` and an abort on overflow give the
old store, as the chain rolls back. `Uint256` is `0..MaxUint`, `Timestamp` is
bounded by `MaxTimestamp`. Where Rust mutates a vector of trackers in place the
model maps over the sequence. Response attributes are left out.
`management.rs` is not compiled (`lib.rs` does not declare it) and not modelled.

`RateLimiter` has one action per message. Executes carry their sender; only the
authorised ones are enabled. The supply is any member of `Supplies`, since
anything on the chain may mint or burn between messages.

`TransferStack` has one action per IBC callback, each with all it does to the
contract, the balances and the packet: for a send `Take` then the contract
(which sees the supply after the tokens were taken, as `SendPacket` runs inside
`SendTransfer`); for a receive the contract then `Give`; for a failed packet the
undo, whose error is ignored, then the refund. A message that fails is not a
step, an acknowledgement that does not decode (`ibc_module.go:160`) included. `log`
and `opened` are history variables: what the contract was told, and
where in that log each tracker's period began. Properties compare the trackers
with them. Governance messages are switched on per run by `Governance`.

`PacketDenom` represents a denom by its segments between slashes; a base denom of this
chain may have several (`gamm/pool/1`). The text comparison
`starts_with("transfer/channel-1")`, which also matches `channel-17`, is the relation
`TextPrefix`. `Misread` names the tokens for which `packet.rs` finds another key than
the transfer module, and the properties say that it finds the same one for exactly
the others.

`PacketCallbacks` treats the application below as the refund it makes. An ack
whose callback fails is not a step: the transaction is rolled back, commitment
included, and the relayer may retry. A callback that succeeds may send a further
transfer (`reply`) before the store entry is deleted, as `Sudo` dispatches the
contract's messages before it returns.

`WasmRouting` abstracts the memo to what `ValidateAndParseMemo` tells apart. An
error acknowledgement leaves balances as they were. The derived account
(`keeper.go:57`) is the pair of channel and sender, where the code hashes the text
`channel/sender`: only that it belongs to nobody else is used. Whether a sender can be
trusted is not claimed; `x/ibc-hooks/README.md:42` warns that packet-forward may give
a wrong one. A nil acknowledgement from
packet-forward (memo with both `wasm` and `forward`) is dereferenced at
`wasm_hook.go:93`; the transaction panics, which is no step.

`Lockup` keeps the operator names of the keeper. Each operator takes the store and
returns it; a lock has one coin, as `MsgLockTokens.ValidateBasic` demands. Of the
eight index keys of a lock, one by duration and one by end time are kept. In
`Superfluid` a message is an action whose guard is that none of its steps fails,
since a failed transaction changes nothing. A panic in the begin or end blocker,
which stops the chain, sets `halted`. Staking is external: one intermediary
account for each validator, with what it delegates. `unbondedAt` and `settled`
are history variables. An exit from the pool pays one asset, so that unpooling makes one
lock where the code makes one for each coin (`unpool.go:69`). At the start of an epoch
the code first moves the rewards of delegations to gauges and pays those
(`epoch.go:32`, 35); this touches nothing of the model and is left out, with the panic at
`epoch.go:105` that follows if the payment fails.

In `EpochHooks` one step is one begin blocker, with all clocks in the order of the
store's keys and for each the hooks of incentives and mint, or one message. A hook
that fails leaves the store as it was before that hook
(`osmoutils.ApplyFuncIfNoError`). Ratios are decimals in units of `1/Dec`, products
and quotients round as `sdk.Dec` does. As the weights are rounded to the nearest
decimal, the parts of an allocation may be more than there is; the bank then
refuses the last ones and the hook of the mint is undone (`AllocationFits`). Loops
over clocks, locks and records run in the order of their numbers (`InOrder`), the
one over gauges by start time (`LastGauge`). A gauge of a concentrated pool is refused
for a zero coin only; the other refusals of `CreateIncentive` cannot occur for a pool
that exists, with the default uptime authorised. Locks are a fixed list that owners hold or
do not; their life is `Superfluid`'s matter.

In `CrosschainSwaps` a transaction, with the submessages and replies it causes, is
one operator that gives `[ok, s]`, and an action only where all of it is ok.
Packets are answered once, after the refund (ibc-hooks, see `PacketCallbacks`).
A memo or a receiver is whether it is accepted. Governance may configure another swap
contract than the swaprouter, whose answer the code trusts (`execute.rs:138`):
`other_swap_contract` swaps at any price and pays what it says. One that lies would
spend what is kept for others, which the code does not guard against.

`Twap` has an action for each hook of a pool, for the end and the beginning of a
block (with pruning where the prune epoch ends), and for export and import of the
chain. Queries are operators that the properties ask for all intervals; the
division by the duration and the power of two are left out, but not the zero that
the geometric strategy answers for a zero difference (`strategy.go:46`). `past` is a history
variable, the price in effect at each time. Logarithms are a table of constants.

## 3. Runs

Passing runs:

| run | what it shows | states |
|---|---|---|
| `contract` | quota safety (`OutflowWithinCapacity`), `PeriodIsKept`, `RoundTripIsNeutral`, and that inflow passes its quota only through an undo | 202 thousand |
| `stack_native` | two channels share an `any` quota on a native denom: recorded flows match transfers, undo happens once and exactly for refunded packets, escrow backs every refund | 61 thousand |
| `stack_governed` | a voucher on its own channel, with quotas reconfigured, and the contract unset or replaced by an address without one, between send and outcome: flows match, the cached value is the supply at the start of the transaction, `TransferStack` implements `RateLimiter`, and every packet settles | 326 thousand |
| `callbacks` | listeners are told once and truly, no callback is left behind; timeouts settle whatever the listener does, acks unless it fails | 10 thousand |
| `routing` | contract calls are all or nothing, no funds stranded | 160 thousand |
| `denom` | the key agrees with the transfer module, and on the way back with that of the send, for all tokens but those that `Misread` names, and for none of those | 281 thousand |
| `superfluid` | locks are held, indexed and counted exactly; a lock is connected exactly while bonded; delegations match locks after every message if nothing is rounded, and after every refresh anyway; undelegated stake is served out and slashable; no block halts the chain | 290 thousand |
| `epoch_hooks` | gauges are backed, an epoch pays all gauges or none and leaves only dust, minting is accounted and never blocked by a record; missed epochs are made up for | 99 thousand |
| `crosschain_swaps` | exactly the forwards in flight are tracked, recoveries add up to failures, and the contract holds what it owes | 225 thousand |
| `twap` | every answer is the average over its interval (zero for a geometric one of 1), errors are reported, the keep period stays queryable | 113 thousand |

Two runs end in a counterexample, against sentences of the repository's
documentation (quoted in `PROJECT.json`, `findings`). In `late_undo` a packet of an
earlier period times out in the current one and frees quota there, so that more
than the quota leaves in one period. In `unwrap_recovery` a call to crosschain-swaps
names a recovery address, its token has to be unwrapped, and the transfer that
unwraps it fails: it is sent as a plain message (`execute.rs:52`), not tracked as a
forward is, and the refund stays with the contract where the address cannot recover it.
`HeldIsAccounted` counts such refunds as what they are, and `RecoveriesAddUp` speaks of
forwards.

Further disagreements met while modelling, without a run of their own:

- `IsAckError` (`osmoutils/ibc.go:72`) wants a non-empty error text; the transfer
  module refunds on any error acknowledgement. With the empty text among
  `AckErrors`, `UndoneExactlyIfRefunded` fails, and ibc-hooks would report a success to
  the listener. ibc-go itself never writes an empty error.
- `ExportGenesis` of ibc-hooks writes `{}`: the callbacks of packets in flight are
  lost in an export and import. `Restart` models it, and `AcknowledgedIsTold`
  exempts exactly the packets concerned.
- `ValidateAndParseMemo` accepts further entries under `wasm` and refuses a blank
  receiver; `x/ibc-hooks/README.md:88` and `:90` say otherwise.
- `ResetPathQuota` starts a period with the channel value of an older one
  (`execute.rs:96`), against `x/ibc-rate-limit/README.md:248`.
- A voucher sent over another channel than it came by is escrowed, but its amount
  is added to the supply as if it were burned (`state.rs:278`).
- "We always use the the denom as represented on Osmosis"
  (`x/ibc-rate-limit/README.md:204`) is not so for two kinds of token. A native denom with
  slashes (`gamm/pool/1`, `factory/...`) is counted under its name when it leaves and
  under a hash when it returns (`packet.rs:159`; README:228 has "we just remove the
  prefix"). A voucher the counterparty received over a channel whose id continues
  that of its channel to this chain (`channel-17` after `channel-1`) is taken for one
  that returns and counted under the empty denom (`packet.rs:138`, `:152`; README:223 has
  it prefixed and hashed). `denom` has both among its constants, and `Misread` names them.
- After a partial undelegation the accumulation store counts the unbonding part
  twice (`x/superfluid/keeper/stake.go:432`): the synthetic lock of
  the undelegation is counted with the whole lock and taken off with what the split
  has left of it, and the part is counted again with its own synthetic lock.
- With a multiplier that does not divide evenly the last lock of an account may
  undelegate more than is left, since a sum of rounded amounts is not the rounded
  sum (`stake.go:36`). For the same reason the invariant that
  `x/superfluid/keeper/invariants.go:25` registers, which rounds lock by lock, may fail
  after a refresh, which rounds the total. `superfluid` has such a multiplier;
  `DelegationMatchesLocks` speaks of the others (`IsWhole`), `RefreshSettles` of all.
- All rewards of an owner go to the receiver of the first lock that is met
  (`x/incentives/keeper/distribute.go:183`); `x/lockup/keeper/lock.go:461` speaks of
  the receiver of each lock.
- A gauge with one epoch left and no lock to pay is moved to the finished ones
  without having paid (`distribute.go:487`), where the comment at 482 speaks of
  gauges that have finished.
- A gauge of a concentrated pool whose share of an epoch rounds to nothing makes the
  hook fail, and no gauge is paid in that epoch (`distribute.go:446`).
- A pool created without a price that gets one in the same block has a record with an
  error and two positive prices, which `validate` refuses
  (`x/twap/types/genesis.go:63`): the export cannot be imported.
- A geometric average of 1, of a constant price or of a half and then two, is answered
  as 0 (`x/twap/strategy.go:46`, tested at `strategy_test.go:281`), as the sum of the
  logarithms is 0; `x/twap/README.md:27` and `:35` have the power of it, which is 1.
  The prices of `twap` meet the case, and `TwapIsAverage` states the 0.

### Bounds

- `contract`: one channel next to `any`, one denom, quotas of duration 1 and 2
  over four block times, so that one expires while the other runs; amounts that
  fit and that exceed a quota; `MaxUint` and `MaxTimestamp` so small that the
  multiplication and the period end overflow. Denoms never interact in the
  contract (every key of an operation has the same denom); channels interact
  only through `any`, which `stack_native` covers with two.
- stack runs: two packets, enough for one outcome to arrive in a later period than
  a second send (`late_undo` needs three), `MaxNow` 3, one or two receives.
  `stack_governed` has two governance messages, at any points between the sends and
  their outcomes: enough to unset and set the contract, or to remove and add a path.
  `MaxSupply` bounds minting; there it admits a receive only after tokens have left.
- `callbacks`: two packets over two channels, so that two sequences of one channel
  and equal sequences of two channels meet, and a reply can follow its cause; a
  listener, an address without a contract, and a malformed value.
- `routing`: three arrivals over two channels, one memo for each exit of the
  parser.
- `denom`: seven segments, which is two hops and a base denom of three; two transfers
  away at a time; four channel ids, one of which begins another, and is the
  counterparty's id of a channel.
- `superfluid`: one owner with two shares, one validator, three lock identifiers,
  durations up to 3 with an unbonding time of 2, block times up to 4. That is
  enough for a lock to be split, both parts to be undelegated at different times,
  and one of them to mature. Owners and validators share nothing but sums. With half at
  risk the multiplier 2 needs no rounding, and for 1 one share is worth as much as two.
- `epoch_hooks`: two gauges out of three kinds, three locks of two owners, four
  messages, five times with a day of 1 and a week of 2, which leaves room for two
  missed epochs; the vesting account runs out after some epochs.
- `crosschain_swaps`: three packets over two channels, six calls (one for each way
  through the contract), two governance messages.
- `twap`: one pair, as pairs share no record; six block times, a keep period of 2;
  the pool answers one of two prices, a price above the maximum, or an error.

`CHECK_DEADLOCK FALSE` is used where the model stops because its bounds are
used up; the chain itself has no final state.

### Fairness

Only `stack_governed`, `callbacks` and `epoch_hooks` assume any. Blocks are produced (weak fairness of
`NextBlock`), and some relayer submits each acknowledgement and each timeout that
can be submitted (weak fairness per packet): relaying is permissionless and the
submission stays possible until it happens. In `callbacks` a packet is
also answered or expires, which timeouts guarantee. Nothing is assumed of
counterparties in `stack_governed`, of users, of governance or of listeners. In
`epoch_hooks` the chain produces blocks, and a block in which an epoch can end is
not put off for ever (weak fairness of `Tick`).

## 4. Proofs

Theorems hold for every value of the constants that meets the named assumptions of
the modules (TLC evaluates them in the runs): any number of channels, denoms,
quotas, contracts, packets and block times, any `MaxUint`.

| module | theorems |
|---|---|
| `RateLimitProofs` | lemmas on the operators of `RateLimit` |
| `Sums` | lemmas on sums and folds over finite sets and intervals |
| `RateLimiterProofs` | `TypeCorrect`, `OutflowSafety`, `PeriodKept`, `InflowOnlyByUndo`, `RoundTrip`; `DenomSafety` on `PacketDenom` |
| `TransferStackProofs` | `TypeCorrect`, `EscrowSafety`, `UndoSafety`, `FlowMatches`, `QuotaHolds`, `CachedValue`, `Implementation` |
| `IbcHooksProofs` | `TypeCorrect`, `CallbackSafety` on `PacketCallbacks`; `RoutingTypeCorrect`, `RoutingSafety` on `WasmRouting` |
| `CrosschainSwapsProofs` | `TypeCorrect`, `Tracking`, `RecoveriesSafety`, `HoldingsSafety`, `RecoverySucceeds` |
| `SuperfluidProofs` | `SuperfluidSafety`, `UnbondingServed`, `RefreshSafety`, `WholeDelegationSafety` |
| `EpochProofs` | `AverageSafety`, `ErrorSafety`, `KeptSafety`, `UpdatesSucceed` on `Twap`; `HooksTypeCorrect`, `EpochHooksSafety`, `EpochsPayTogether` on `EpochHooks` |

### The contract

`OutflowWithinCapacity` is not inductive: a tracker without a cached value has
capacity 0, and after caching a value its old flow would be compared with a new
capacity. The invariant is `StoreOK`: every tracker is well formed, has recorded
nothing before its value is cached, and is within its outflow capacity. Only a
send can raise the net outflow, and a send that passes leaves it within the
capacity it was checked against (`AllowTransferOK`). A receive raises the inflow,
an undo lowers the outflow (`UndoOK`), a reset or a new path zeroes both
(`ExpireOK`, `NewLimitsOK`). When a receive starts a period or caches a value the
capacity changes, but then the outflow is 0, which is what `UncachedIsUnused`
is needed for. The lemmas lift this from a tracker to a vector and to the store
(`AllowAllOK`, `TryTransferOK`, `UndoSendOK`, `ResetPathQuotaOK`), and `NextOK`
has one case per action.

`PeriodKept` and `InflowOnlyByUndo` are action properties and follow from the same
lemmas. `RoundTrip` states `RoundTripIsNeutral` where no counter is within one
transfer of `MaxUint`: `saturating_add` in `flow.rs` forgets what is above, and a
round trip across that line does not come back to where it was.

### The key of a packet

`DenomSafety` proves `RecvUsesCreditedDenom` and `ReturnUsesKeyOfSend` for any channels,
denoms and number of hops. The invariant (`DenomInv`) says which tokens can exist:
a base denom of this chain, or a voucher whose path begins with one of its
channels; and that a transfer that is away carries the path and the key of such a
token. A hop is put before a path and taken off again (`PrefixHop`), so a token that
comes back arrives with the path it left with (`ReturnKey`).

It has no hypothesis on names: ids may begin one another and native denoms may have
slashes. For a token that `Misread` names the key is shown to be a wrong one, for
every other token the right one (section 3 says what the contract does then). Assumed is
that base denoms are not empty and do not look like vouchers (`BaseAssumption`): none
begins with `transfer`, and no native one has a channel id as its second segment.

### The stack

The inductive invariant of `TransferStack` has three parts: the history (a packet's
event is its send's, no two packets share one, an undo is that of a refunded packet
and happens once), the bank (what an escrow account holds is what is abroad and in
flight, with the supply of a voucher bounding what can be refunded), and `StoreOK`
with a period for each tracker. A lemma for each action says what it does to each.

- `EscrowSafety`: `EscrowBacksPackets`, with no condition on the contract.
- `UndoSafety`: `UndoneExactlyIfRefunded`. It assumes that governance does not
  change the parameter (a send counted by the contract may otherwise end while there
  is none) and that errors have a text (see `IsAckError` above).
- `FlowMatches`: `FlowMatchesTransfers` while `NoSaturation`, that is, while the sum of
  all amounts the contract was told of is within `MaxUint`.
- `QuotaHolds`: under `NoSaturation`, what has left in a period, net, is at most the
  quota's share of the channel value and what was refunded in that period of sends
  from before it. `late_undo` shows that the last term cannot be left out.
- `CachedValue`: `CachedValueIsSupplyAtStart` for behaviours without a `Detour`, a voucher
  that leaves by another channel than it came by; there the code adds an amount
  that was not burned (`state.rs:278`). It assumes that no native denom has the form of a
  voucher's.
- `Implementation`: `Spec => ImplementsRateLimiter`. The contract's time is the block
  time, and the supply it sees is within `0 .. MaxUint`. The results on the
  contract therefore hold of the trackers on the chain.

`FlowMatches` compares counters with sums over the history. `SumFunctionOnSet`
chooses an order of its own; `Sums` proves that the order does not matter and how a
sum changes with its set. The library's induction theorems cannot be used, as they
take an operator; instead a minimal counterexample under set inclusion (`WFMin`)
is shown not to exist.

### ibc-hooks

`CallbackSafety` proves `ToldOnceAndTruly`, `CallbackOnlyInFlight` and
`AcknowledgedIsTold` together. The invariant
says what is kept under the key of each packet: its callback while it is open
(unless a restart lost it), at most one notification once it is settled, and
nothing before it is sent. A callback that sends again (`reply`) takes a new
sequence, so the deletion that follows removes the entry of the packet just told
and not the new one.

`RoutingSafety` proves `SuccessIffExecuted` and `NothingStranded`.
It assumes finitely many addresses, as balances are summed. Derived accounts are
distinct from the accounts of users and contracts, which is what the hash over a prefix
of its own is for.

### crosschain-swaps

The theorems follow from one invariant: every packet has a key of its own; the
entries of `INFLIGHT_PACKETS` are the forwards in flight with a recovery address,
each with its amount (`Tracking`); what was paid to a user and is stored for it is
the sum of its failed forwards (`RecoveriesSafety`; unwraps are `unwrap_recovery`'s matter); what the contract holds is what is stored for users and the
refunds without a claimant (`HoldingsSafety`); and between transactions no reply
is awaited. The last is needed as each reply reads the state its transaction left.
`RecoverySucceeds` follows: `recover` is never refused by the bank for want of
tokens, as what one user is owed is one of the addends of what is held. Assumed
are that a swap gives a positive amount, which the pools see to (`swap.go:60` of
x/gamm), and that no user has the address that stands for "none".

### Lockup and superfluid

None of the properties of `superfluid` is inductive. They follow from one invariant
(`IInv`), of which the largest part is about the store of x/lockup (`StoreOK`):

- locks have identifiers up to the last one given (`Numbered`), so that a new one is
  free in every table;
- the module account holds the sum of the locks (`Backed`), the accumulation
  store counts it by denomination and duration (`Counted`), and counts under a
  validator's bonded denomination what is delegated to it (`BondCounted`). Under
  the unbonding denominations it does not count exactly, see section 3;
- a reference is in the index exactly if it is one of an existing lock (`Indexed`)
  or synthetic lock (`SynthsIndexed`). While a lock is being split the part has no
  references yet, which is why `Indexed` has the exempted locks as a parameter;
- a lock has one synthetic lock at most; it is of shares, is locked for at least the
  unbonding time, does not unlock while the synthetic lock is bonded, and does not
  mature before it (`SynthsOK`). This is why `EndBlock`, which deletes matured
  synthetic locks first, never finds one without its lock;
- no lock that unlocks is overdue at the beginning of a block (`TimesOK`).

Beside the store: connections are the bonded synthetic locks (`ConnectionsOK`); stake that was
undelegated at some time has served the unbonding time, or its lock has a synthetic
lock that lasts, or is an unlocking lock of what the pool paid that lasts (`UnbondingOK`);
and a multiplier that is not zero belongs to a registered asset, which is what keeps
the refresh from panicking.

Each keeper operation has a lemma that it keeps `StoreOK` and says which locks and
synthetic locks it changes (`CreateLockOK`, `SplitLockOK`, `DeleteSynthOK`, ...), each
message one that it keeps `IInv`. Blocks, slashes, `BeginUnlockingAll` and the
exit from the pool are folds over sets of locks. The order of `FoldSet` is not known, so
the invariant of the loop is shown for any order (`FoldInvariant`), from the recursive
function a fold stands for (`FoldExists`, `FoldUnique`).

`RefreshSafety` holds for any multiplier and risk factor, and needs no more than `IInv`: a
refresh sets the delegation to the worth of what the accumulation store counts as bonded
(`RefreshDel`), which is the sum of the connected locks (`BondCounted`, `ConnectionsOK`).

`WholeDelegationSafety`, on what is delegated between two refreshes, needs one more
conjunct (`DelInv`): what is delegated to a validator is the worth of the sum of the
locks connected to it. A message adds or takes off the worth of one lock, and a
refresh computes the worth of a total, so the two agree only if the worth of a
sum is the sum of the worths. `IsWhole` says when that is so: the multiplier is whole
and the risk factor takes a whole part of it. Otherwise the amounts drift apart until the
next refresh (section 3, `stake.go:36`). Adding tokens (`MintDel`), undelegating (`BurnDel`), the
partial undelegation that burns all and mints the rest (`PartUnbondDel`) and the
loop of the exit from the pool (`Undelegates`) each change one term of the sum.

### twap

A query reads two records and the answer is a difference of accumulators, so the
invariant compares records: between any two of one pair the accumulators grow by
the sum of the prices in between (`Accumulates`), the price of a record holds until
the next one (`Covers`), and error times do not decrease. All three speak of records
that are kept only, and stay true when the oldest go. An interpolated record then
agrees with the sum up to its time, as the sum of a constant price is the price
times the duration (`SumConstant`), and sums over adjacent intervals add up
(`SumSplit`). For `KeptSafety` the newest record before the threshold, which
pruning leaves, is the one that is found. For `UpdatesSucceed` a record of the
current block is one of a pool created in it, with accumulators of zero.

It is assumed that a pool answers with a positive price or fails. The pools that
report to x/twap do: x/gamm (`pool_service.go:51`) and x/concentrated-liquidity
(`pool.go:165`) turn zero into an error. The assumption is needed:
`recordWithUpdatedAccumulators` marks a price of zero as an error (`logic.go:233`),
but `updateRecord` overwrites the mark with the error time of the old record
(`logic.go:184`, 189), and the geometric average over that time would be wrong with
no error reported. x/cosmwasmpool may answer zero but has no hooks into x/twap.

### Epochs, incentives and mint

The invariant of the stores is `StoreOK`, which also speaks of a time `t`, since the
hooks of a block see the new time. Beside the properties of the run it says

- that no balance is negative (`NonNegative`), without which no payment of a hook
  could be known to succeed;
- that a gauge has not paid more often than it may, nor before its start
  (`GaugeOK`), and is in exactly one queue, active only once it has started
  (`QueuesOK`): after its last epoch a gauge counts as finished whatever the time, so it
  takes no more coins and what is left in it stays dust;
- that records list perpetual gauges that exist (`DistrRecordsOK`), which never
  finish; this is `RecordsNeverBlockMint`.

A distribution is three loops inside one another, and the coins are sent at its end
only. While it runs, the module account holds what the gauges have yet to pay and
what is owed to receivers (`DistStore`, `Owed`); before a gauge is paid it is the
gauge of the store the loop began with, after it the gauge of that store with one
more epoch paid. The share of a lock is rounded down, so the
shares together are not more than the gauge has, and in the last epoch they are
less than one coin for each lock away from it (`SumOfQuotients`, `SharesOK`). In
the same way the portions of the mint are not more than what is minted
(`PartsFit`), those of developers not more than theirs (`PortionsFit`), and
`AllocationFits` bounds the parts of the gauges. Each loop is a fold; its
invariant relates the store it began with and the elements handled so far to the
store it has reached (`Paid`, `Added`, `DistOK`, `Allocated`, `InBlock`), and
`FoldInvariant` gives it for all elements.

The theorems assume what `ValidateBasic` and the validation of the parameters check
(`MessagesAssumption`, `ProportionsAssumption`, `DeveloperReceiversAssumption`), locks
of positive amounts (`LocksAssumption`), and that no user has the address of a
module account (`AccountsAssumption`).

`EpochsPayTogether` has one hypothesis more: the epoch that pays is not handled
after the one that mints in the same block. By default both are the `week`
(`x/incentives/types/params.go:29`, `x/mint/types/params.go:58`), and incentives come
first among the hooks. With a weekly payment and a daily mint, which comes first in
the order of the keys, an empty gauge may get coins and pay them in one block: the
gauges that are paid are then those that can be paid after the mint, not before
the block.

### Model-checked only

Liveness (`EveryPacketSettles`, `SettlesUnlessCallbackFails`, `CatchesUp`), which is out
of the prover's reach. All invariants and the other action properties are proved.

## 5. Not modelled

Pass-through methods (handshakes, `WriteAcknowledgement`, `GetAppVersion`),
queries of the rate limit, command line, events, JSON encoding, gas.
Packet-forward's own state. Of superfluid the concentrated-liquidity positions and
their migration, of incentives the gauges of synthetic denominations and of
several coins. The downtime detector, the outpost and registry contracts, txfees,
tokenfactory and valset-pref: small tables, or one call passed on.

Most lines of the repository are generated protobuf code, the pools' mathematics
in 18 to 36 decimals (gamm, concentrated-liquidity, poolmanager, protorev), which
is out of TLC's reach, and one-off upgrades; the models cover a small share of the
lines for that reason. Components are listed in `PROJECT.json` with their reasons.

## 6. Plan

In this order:

1. composition: ibc-hooks above `TransferStack`, so that a failing callback
   holds back the undo and the refund, and packet-forward as a component of its
   own, with the nil acknowledgement; `CrosschainSwaps` on top of
   `PacketCallbacks`;
2. an abstract limiter (one counter per tracker and period) that `RateLimiter`
   implements, and a bound on what can leave in any two consecutive periods;
3. the downtime detector and the tokenfactory.
