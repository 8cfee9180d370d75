# A verification model of the Vici minter canister

The repository builds one canister of its own, the **minter**
(`src/minter/`), which is the minting account of an ICRC-1 ledger and keeps a
set of reserve accounts topped up. This directory holds TLA+ modules that model
it, TLC configurations that check small instances, and proofs for every value
of the constants. Paths below are relative to `src/minter/src/` of the
repository unless they say otherwise.

## 1. The system

| Part | State | Operations | Interacts with |
| --- | --- | --- | --- |
| Reserve logic (`services/reserve.rs`, `model.rs`) | none (pure) | `validate_*`, `compute_rebalance`, `available_mint_budget`, `check_rate_limits`, `prune_old_events` | called by rebalance, top-up, preview, add and update |
| Ledger client (`services/ledger.rs`) | none | `get_balance`, `mint_to` | awaits bounded-wait calls to the ledger canister |
| Rebalance (`services/rebalance.rs`) | `reserve_mint_inflight`, counters | `rebalance_one`, `rebalance_all` | two awaits per reserve; started by an administrator or the timer |
| Timer (`services/timer.rs`) | the armed interval | hourly `rebalance_all`, serial | armed by `init` and `post_upgrade` |
| Admin API (`api/admin/`) | reserves, policy, idempotency | add, update, remove, policy, rebalance, top-up, release of stuck state | controllers only |
| State (`state.rs`) | `STATE`, stable memory | `save_state`, `try_restore_state` | upgrade hooks |
| Lifecycle (`lib.rs`) | none | `init`, `pre_upgrade`, `post_upgrade` | state and timer |
| Preview (`api/admin/api.rs`) | none | `preview_rebalance_reserve`, `preview_rebalance_all_reserves` | awaits the ledger like a rebalance, without the lock |
| Query API, guards, result types | none | reads, access checks, conversions | |
| Deployment scripts (`scripts/` of the repository) | the argument file | choose Init or Upgrade from what is installed | `dfx deploy`, which uses the argument later |
| Reserve script (`scripts/init.reserves.sh`) | none | one `add_reserve` per bucket | the minter, through `dfx` |
| Ledger and index canisters | balances, blocks | ICRC-1 | downloaded binaries, not in the repository |

**What is hard.** A canister runs one message at a time, but a handler gives up
control at each `await`, and other messages run before it resumes.
`rebalance_one` copies a reserve's configuration, counters and policy, awaits the
balance, computes, awaits the transfer, and writes back. Whatever changes in
between makes a copy stale, and the only protection is the set
`reserve_mint_inflight`. Bounded-wait calls may fail *after* the ledger executed
them. A continuation may trap, or an upgrade may lose it, after the ledger
minted. Rate limits are sliding windows with inclusive boundaries over a pruned
list. Manual top-ups have idempotency keys that pass from absent to pending to
completed, with rollbacks on each error path. A deployment's argument is chosen in
one step and used in another, and a hook that traps rolls everything back. The
reserve script may stop anywhere, be run again, and be run by two operators at
once.

**What makes each part correct.**

- Reserve logic: amounts never exceed the caps they are computed from; pruning
  loses nothing a window still counts.
- Rebalance and top-up: one mint per reserve at a time; locks and pending keys
  are given back on every path; nothing is computed from stale counters; the
  counters agree with the ledger.
- Top-up: a key mints once, and its stored answer is final and true.
- Admin API: a reserve does not vanish under a mint; updates keep the counters.
- Timer and lifecycle: short reserves are refilled, also after an upgrade, and
  an upgrade releases no lock of a mint the ledger may still execute. (A bounded
  wait that ends too early does give the lock back; see the abstractions.)
- All of these together: mints behave as if each were one step.
- Preview: what it announces is what the next rebalance mints, and when it is
  stale, it is so in one direction and by a bounded amount.
- State and deployment: an upgrade finds the state that was saved, byte by byte;
  one that cannot keep it leaves the old minter running.
- Reserve script: the caps it registers never add up to more than the total.

`PROJECT.json` lists every component and every hazard with its line.

## 2. The modules

| Module | Models | Content |
| --- | --- | --- |
| `Reserve` | `model.rs`, `services/reserve.rs` | pure operators |
| `Ledger` (extends `Reserve`) | `services/ledger.rs`, and the ledger with its faults as environment | one outstanding call per context |
| `Minter` (extends `Ledger`) | `state.rs`, `api/admin/api.rs`, `services/rebalance.rs`, `services/timer.rs`, `lib.rs` | the specification |
| `MinterProperties` (extends `Minter`) | what the minter promises | invariants, action and liveness properties |
| `AtomicMint` | the abstract specification | mints as single steps, without locks, awaits or calls |
| `MinterRefinement` (extends `MinterProperties`) | | the refinement mapping from `Minter` to `AtomicMint` |
| `Preview` (extends `MinterProperties`) | the previews of `api/admin/api.rs` | composed with all steps of the minter |
| `InitReserves` (extends `MinterProperties`) | `scripts/init.reserves.sh` | composed with all steps of the minter |
| `Persistence` | `state.rs`: `save_state`, `try_restore_state` | operators on a stable memory of pages |
| `Lifecycle` (extends `Persistence`) | `lib.rs`, `scripts/build.minter.args.sh`, `scripts/check.canister.installed.sh` | installing and upgrading |
| `ReserveChecks` (extends `Reserve`) | | the pure functions against reference definitions |
| `Minter_proofs` (extends `MinterProperties`) | | types, locks, copies, lifetime ceilings, keys |
| `Refinement_proofs` (extends `Minter_proofs`, `MinterRefinement`) | | the refinement of `AtomicMint` |
| `Reserve_proofs` (extends `Reserve`) | | sums over finite sets; what fits the rate limits |
| `Accounting_proofs` (extends `Refinement_proofs`, `Reserve_proofs`) | | counters and windows against the ledger; balances |
| `ReserveChecks_proofs`, `Preview_proofs`, `InitReserves_proofs`, `Lifecycle_proofs` | | the properties of the module of that name |
| `MCMinter`, `MCPreview`, `MCInitReserves`, `MCLifecycle`, `MCReserveChecks` | | instances for TLC |

`Minter.Upgrade` is the upgrade that keeps the state, seen from the handlers and
locks: every field survives. `Lifecycle` justifies that: there the state is one
value, and the question is whether bytes and arguments carry it over. The two
are not one module because neither needs the other's detail.

### State

| Variable | Code |
| --- | --- |
| `reserves`, `next_reserve_id`, `global_policy`, `idempotency`, `reserve_mint_inflight` | the fields of `State` (`state.rs`) |
| `timer_armed` | whether `start_rebalance_timer` has run since the code was installed |
| `handler[c]` | the suspended future of context `c`: where it waits, and the locals it needs when it resumes |
| `call[c]` | its outstanding ledger call, or the reply that is under way |
| `balance`, `blocks` | the ledger |
| `clock` | `time()`, in hours |
| `loosest` | history: the loosest value each limit of a reserve ever had |

`Timer` is the context of the hourly timer; every other context runs one
administrator's call at a time. `ledger_id` is set once and never read for a
decision, so it is left out.

`loosest` is what the ceilings are stated against. An administrator may lower a
limit below what is already minted, and a handler may hold a copy of the limit
from before; neither is an error, so the promise is that no mint passes the
loosest limit the reserve ever had.

`Preview` adds `preview[p]`, the suspended future of a preview, and the history
`announced[id]`: the last answer for a reserve while nothing it was computed
from has changed. `InitReserves` adds `script[o]`, the bucket the run of operator
`o` has reached, and the history `removed`, the accounts whose reserve was
removed. `Lifecycle` has `module` (what is installed), `state` (the heap), `stable`
(the stable memory: pages, length prefix, payload bytes), `timer_armed`,
`arg[d]` (the argument file of deployer `d`) and `outcome`.

### The abstract specification

`AtomicMint` knows, for each registered reserve, its ceiling, what it has
received and whether its latest mint is confirmed, and for each key what it has
minted. `Mint` is one step: a block appears, is counted within the ceiling and
settles its key, while no other mint of the reserve is unconfirmed. `Confirm` is
the end of the handler. Under the mapping of `MinterRefinement` the mint happens
when the ledger executes the transfer: an executed transfer whose reply is under
way is already counted, and its key answered, although `lifetime_minted` and
`idempotency` are written only by the continuation. Begins, rejections, locks,
balances and time map to stutters.

What faults cost appears as actions of the abstract specification that are only
enabled where the environment has the fault. With losses (`Lossy`) the minter may
`Forget` mints that are not confirmed, the counter and the key together, and the
ledger may execute a mint whose handler is gone (`MintUnseen`). Where two
transfers may be equal in every field (`Ambiguous`), the minter may count a
block again (`Recount`), within the ceiling and under another key of the same
memo.

### Actions

Each action is the code between two awaits.

| Action | Code |
| --- | --- |
| `AddReserve`, `UpdateReserve`, `RemoveReserve`, `SetGlobalPolicy`, `ReleaseStuckMintState` | the method of that name in `api/admin/api.rs` |
| `RebalanceReserve`, `RebalanceAllReserves`, `TimerTick` | the start of a cycle, up to the balance call of the first reserve that can be locked |
| `BalanceFailed` | `rebalance.rs:43`: the balance call failed |
| `NothingToMint` | every outcome of `compute_rebalance` but `Minted`, its error, and the exhausted rate budget (`:51`, `:65`, `:120`) |
| `SendMint` | `:57-85`, up to the await of the transfer |
| `RebalanceMinted`, `RebalanceMintFailed` | the continuation after the transfer |
| `ManualTopup` | `manual_topup_reserve_impl` up to its await: key, lock, validation |
| `TopupMinted`, `TopupMintFailed` | its continuation, `rollback_manual_mint_begin` included |
| `Trap`, `Upgrade`, `DropOrphanReply` | a continuation that traps; `pre_upgrade` and `post_upgrade`; the reply nobody waits for any more |
| `LedgerStep` | the ledger answers, refuses or loses a reply; accounts are paid from and into |
| `Tick` | an hour passes |
| `PreviewReserve`, `PreviewAllReserves`, `PreviewAnswered` | `preview_inner` up to its await, and after it, with the loop of `preview_rebalance_all_reserves` |
| `BuildArgs`, `BuildArgsUnreachable`, `BuildUpgradeArgs` | `build.minter.args.sh` in mode auto, where the status can be read and where not, and in mode upgrade. Mode init is the second |
| `Deploy` | `dfx deploy` with the argument that was built: `init`, or `pre_upgrade` and `post_upgrade` |
| `Reinstall` | `npm run reinstall:minter:prod` |
| `RunScript`, `RegisterBucket`, `DfxFails` | `init.reserves.sh`: its checks; one `add_reserve` call; a call that ends the run |

An iteration of `rebalance_all` ends and the next begins in one message, so the
actions that end an iteration (`FinishWith`) release the lock, skip reserves
that are gone or locked, and lock the next one or finish the handler, all in one
step. `rebalance_reserve` is the same loop over one id. A call that is refused
before it changes anything is a stutter, and so is a replay of a completed key.
A top-up that takes its lock and key and is then refused by the validation gives
both back in the same message, so it too changes nothing.

### Abstractions

- Amounts are natural numbers, as `candid::Nat` is. Time is counted in hours.
- `mint_events` is the amount minted at each instant instead of a list of
  (time, amount) pairs; the code only adds up amounts by time.
- `HOURS` are the window durations; the code has five, the instances one to three.
- The five reasons for `Skipped` are one outcome; `MintingDisabled` is the error.
- A memo is a record of its parts; `KeyPrefix` says what the cut to 32 bytes
  leaves of a key.
- The ledger deduplicates transfers equal in every field. Two transfers of the
  same hour may or may not fall in the same nanosecond, so `RefuseDuplicate`
  competes with `ExecuteTransfer`. The deduplication window of the ledger and
  its checks on `created_at_time` are rejections.
- A bounded wait may end before the answer is there. If the ledger served the
  request by then, as a mint or as a duplicate, it is `LoseReply`; if not, it is
  `Reject`, and the request is **assumed** not to be served later. The system
  drops requests whose deadline has passed, which makes the other order unlikely
  but is no part of the code. A request served after all would be a mint
  without the lock, of which no property here speaks.
- `Environment` names the faults an instance admits: `reject`, `lost_reply`,
  `same_instant`, `trap`, `live_upgrade` (an upgrade of a canister that was not
  stopped), `live_release` (release of a mint that is still running), and the
  moves of users, `spend` and `deposit`.
- Time is the same for all messages of one consensus round, which is how two
  transfers come to have the same nanosecond.
- The Candid encoding of a state is a row of bytes no other state shares, of a
  given length. A page has eight bytes in the instance instead of 65536. The
  cast of the length to 32 bits loses nothing, because the encoding lies in the
  4 GiB heap of a 32-bit canister first.
- Heap or instructions may run out while a lifecycle hook clones, encodes or
  decodes the state (`Exhausted`): nothing in the model says when, so it may
  happen at any upgrade of the minter.
- `ledger_id` and the heap beside `STATE` are left out of `Lifecycle`: `Fresh` is
  the default state with the ledger of the argument.
- Access control is left out: an admin action is a call that was let in.

## 3. The runs

The runs of the minter have a timer context and one administrator context.

| Run | Question | Environment |
| --- | --- | --- |
| `core` | Do counters and keys agree with the ledger, and does every path clean up? | reject, spend, deposit |
| `release` | What survives a release of stuck state while the mint is running? | reject, spend, live_release |
| `faults` | Are mints of a reserve serial and within the ceilings, under faults, and what can a fault undo? | spend, lost_reply, trap, live_upgrade, same_instant |
| `windows` | Are the sliding-window limits kept, and does pruning lose nothing? | reject, spend |
| `progress` | Are locks released and short reserves refilled, also where calls fail? | reject, spend, with fairness |
| `preview` | Is the announced amount what is minted, and how far off is a stale one? | reject |
| `script` | Does the reserve script keep the commitment, however it is run? | reject |
| `lifecycle` | Does an upgrade keep the state, and when is it refused? | all incidents, two deployers |
| `amounts` | Do the pure functions compute what they should? | all small arguments, 81 histories of mints |

- `core`: `NothingLeaks` (a lock and a pending key always have a running
  handler), `LedgerAgreement` (`lifetime_minted` plus the replies under way is
  what the ledger minted), `KeyMintedOnce`, `CompletedPointsAtBlock`, and the
  type invariant. `KeyMintedOnce` is false under lost replies, which is a finding
  below. `ImplementsAtomicMint` holds here with neither `Lossy` nor `Ambiguous`:
  nothing is ever forgotten or counted twice.
- `release`: overlapping mints still add up, because the continuation adds to
  the counter it finds instead of writing back its copy; and no lock is left
  behind.
- `faults`: `MintExclusion`, `HandlerReserveExists`, `SnapshotIsCurrent`,
  `LifetimeCeiling`, `RebalanceWithinMax`, `CompletedIsFinal`,
  `CompletedPointsAtBlock`, and `ImplementsAtomicMint` with both `Lossy` and
  `Ambiguous`: a loss undoes the latest mint of a reserve at most, with its key,
  and never a confirmed one. Both keys have the same memo, so a second top-up may
  be answered with the block of the first. There are no rejections: a lost reply
  fails the same continuations.
- `windows`: `WindowCeiling` measures the ledger, not the minter's list;
  `RateUsageIsExact` says the two agree in every window whenever no mint is
  under way.
- `progress`: `LocksAreReleased`, `ReserveRefilled`. The ledger may refuse every
  call. A reserve must be refilled if the ledger does not refuse *its* calls for
  ever, whatever it does to those of the other one: an iteration that fails goes
  on to the next reserve.
- `preview`, where both contexts rebalance and the administrator tops up:
  `AnnouncedIsMinted` compares `preview_inner` with `rebalance_one`
  across every interleaving: if neither the record, the policy, the balance nor
  the time has changed between the two, the amounts are equal, and a rebalance
  that mints nothing was announced as zero. The announced *action* differs there
  (see below). `OverstatesByMintsOnly` is about the answers this leaves out: a
  preview that copied its counters before a mint and reads the balance or answers
  after it never understates what is due, and overstates it by no more than was
  recorded in between. What is due is the answer the counters of now would give,
  for the balance and the policy the preview has. It says nothing where the
  configuration was changed.
- `script`, where an administrator may also register a bucket by hand:
  `CommitmentKept` (registered caps never exceed the total),
  `DoneMeansRegistered` (errors the script ignores were harmless),
  `MintedWithinCaps` (under no registration, those that were removed included,
  is more than the cap of the bucket minted to its account). A removal and a new
  registration give an account a whole cap anew; that is what the code does, so
  no bound across registrations is claimed.
- `lifecycle`: `UpgradeKeepsState`, `UpgradeFailsOnlyWhenFull` (which also lets a
  hook run out of heap or instructions at any time), and the type invariant
  `LifecycleTypeOK`, by which a running minter never has a state that nobody
  encoded.
- `amounts`: `MintIsLargestAllowed` (the caps applied in turn leave the largest
  mint that all of them allow), `BudgetIsLargestAccepted` (rebalances and top-ups
  have the same rate limits), `LargerWindowsAreStricter` (comparing neighbours is
  enough).

**Findings.** Three runs check a sentence of the documentation, and TLC shows how
the code departs from it.

| Run | Sentence | What happens |
| --- | --- | --- |
| `lost_key` | minter README, line 92: a key that was executed is not minted again | the reply of the first mint is lost, the key is rolled back, the retry mints |
| `master_switch` | `model.rs:169`: all minting is rejected when off | a rebalance in flight decides with its copy of the policy |
| `outage` | `build.minter.args.sh:5-6`: stable state is preserved when the WASM is replaced | the status cannot be read, the script chooses Init, `post_upgrade` restores nothing |

Other places where the text and the code differ, which the modules follow the
code in and no run is spent on:

- `model.rs:79` calls `max_balance` a bound no mint passes; `ManualTopup` has no
  such guard, hence `RebalanceWithinMax` speaks of rebalances only.
- `model.rs:75` calls `min_balance` the trigger of a rebalance; `compute_rebalance`
  does not read it.
- `model.rs:89` calls the lifetime maximum a hard cap on what is ever received; it
  caps what is recorded, and the ledger has more after `MintUnseen` or `Forget`.
- `model.rs:119` calls `lifetime_minted` the total of tokens minted; a `Recount`
  adds a mint that was not executed.
- `results.rs:26` calls `action` the action that would be taken; with the rate
  budget used up a preview answers `Minted` and zero, a rebalance `Skipped`.
- `lib.rs:52` accepts Init for the first upgrade of a placeholder; the script
  chooses Upgrade for it, and `post_upgrade` traps.
- Two deployers may find no canister; the second then upgrades the minter of the
  first with Init. `StateSurvives` breaks in this way too; the run `outage` has
  one deployer and shows the unreadable status only.
- `TOKENOMICS.md:46` takes the sum of the caps for fixed. That holds as long as
  the operators' environments agree (`SamePrincipals`); with the same principals in
  another order, accounts that are not registered yet get caps of other buckets.

**Bounds.** `MaxReserves` (calls of `add_reserve`), `MaxBlocks` (no
administrator starts a mint, and nobody is paid, once the ledger has this many
blocks; the timer is not bounded, and stops minting when the targets are met)
and `MaxTime` are the only bounds. Two contexts are
enough for every interleaving of two mints; the locks are per reserve and know
no third party. Two reserves exercise the loop over ids and the removal of one
while the other is served; with `release` and `faults` the second appears when
the first was removed. Two executed mints reach the lifetime maximum of 3 and
the guarantee of 2; four reach a window limit, let an hour pass, and mint again.
In `script` three registrations are two buckets and one too many, should an
account be registered twice; in the instance the manual bucket reaches its cap
and the refilled one its day limit.
`windows` has five instants, so that mints of the first hour leave both windows,
and on the way sit exactly on their boundaries. One key is enough to use it
again after it failed or completed. `core`, `release`, `faults`,
`progress`, `preview` and `script` have one instant, since time matters to the
windows only. In `lifecycle` the five states are half a page, exactly a page with
its prefix, a byte more, all pages, and a byte more than that. In `amounts` four
amounts let any of the two deficits, three caps and two rooms be the binding one,
and three windows let one be left out between two; mints of 0, 1 and 3 at the
instants 0, 1, 2 and 4 lie before, on and after the boundary of each window.

**Deadlock** is checked in every run but `amounts`, where a call ends with its
answer: an administrator can always change the
policy, even if to the same value, so the check is of little value here and
progress is checked by the liveness properties instead.

**Fairness** (`FairSpec`): weak fairness of a continuation (the system schedules
a callback whose reply has arrived), of the ledger's answer to a call (a
bounded-wait call is always answered, at the latest by its timeout) and of the
timer (the interval fires forever while armed and idle). No fairness for
administrators, users, faults or upgrades. An answer may be a rejection, and every
one may be; `ReserveRefilled` therefore supposes for each reserve by itself that its
calls are not refused for ever (`LedgerServes`: strong fairness of the ledger
serving the balance and the transfer of that reserve), and nothing for the others. A reserve that is *short* for ever is
thus refilled by the timer alone; in the instance no ceiling below the target is
configured, since with one the code rightly stops.

### Faulty variants

An operator `F_Variant` beside `F` is a plausible mistake in `F`. No action uses
it. Putting it in place of `F` makes TLC find the property violated:

| Variant | Mistake | Run and property |
| --- | --- | --- |
| `ReserveKey_Default` | a top-up without a key is stored under a default one | `core`, `TypeOK` |
| `DropPending_Forgotten` | the rollback keeps the pending key | `core`, `NothingLeaks` |
| `WithConfig_Fresh` | an update resets the counters | `core`, `LedgerAgreement`; `preview`, `OverstatesByMintsOnly` |
| `Unused_Completed` | a completed key is minted again | `core`, `KeyMintedOnce` and `ImplementsAtomicMint` |
| `CompleteKey_LastBlock` | the last block is stored instead of the one answered | `core`, `CompletedPointsAtBlock` |
| `mint_to_NoKey` | the memo leaves out the key | `faults`, `CompletedPointsAtBlock` |
| `Removable_Locked` | removal ignores the lock | `faults`, `HandlerReserveExists` |
| `WithMint_LastOnly` | the counter is overwritten instead of increased | `release`, `LedgerAgreement` |
| `Upgrade_Unlocks` | locks are not saved | `faults`, `MintExclusion` |
| `Lockable_Twice` | a locked reserve is locked again | `faults`, `SnapshotIsCurrent` |
| `Room_Whole` | the ceiling instead of what is left under it | `faults`, `LifetimeCeiling`; `amounts`, `MintIsLargestAllowed` |
| `AccountTaken_Never` | two reserves share an account | `faults`, `RebalanceWithinMax`; `script`, `CommitmentKept` |
| `DropPending_Completed` | a release drops a completed key | `faults`, `CompletedIsFinal` and `ImplementsAtomicMint` |
| `check_rate_limits_Before` | the usage is checked without the new amount | `windows`, `WindowCeiling`; `amounts`, `BudgetIsLargestAccepted` |
| `prune_old_events_Early` | the boundary instant is pruned | `windows`, `RateUsageIsExact` |
| `FinishWith_KeepsLock` | a finished iteration keeps its lock | `progress`, `LocksAreReleased`; `release`, `NothingLeaks` |
| `BalanceFailed_EndsCycle` | a failed balance call ends the whole cycle | `progress`, `ReserveRefilled` |
| `Upgrade_NoTimer` | the timer is not armed after an upgrade | `progress`, `ReserveRefilled` |
| `WouldMint_PerOperation` | a preview ignores the rate budget | `preview`, `AnnouncedIsMinted` |
| `WouldMint_Budget` | a preview answers the budget, which may be none | `preview`, `PreviewTypeOK` |
| `GoOn_UnlessRefused` | the script ends as done at the first refusal | `script`, `DoneMeansRegistered` |
| `ManualReserve_BalanceOnly` | the script caps the balance, not the total | `script`, `MintedWithinCaps` |
| `PostUpgrade_Unchecked` | a failed restore is not a trap | `lifecycle`, `LifecycleTypeOK` |
| `save_state_OnGrowth` | a state that needs no new page is not written | `lifecycle`, `UpgradeKeepsState` |
| `needed_pages_Payload` | the pages are computed without the prefix | `lifecycle`, `UpgradeFailsOnlyWhenFull` |
| `Adjacent_Next` | only windows next to each other in the list are compared | `amounts`, `LargerWindowsAreStricter` |

## 4. The proofs

Every property of a passing run is stated by a theorem, but for the two of
liveness; the theorems hold for all accounts, contexts, keys, configurations,
windows and amounts. Each assumes of the environment only what its property needs, and
all that concern mints assume what section 2 says of a request whose wait has ended:

| Theorem (module) | Property | Assumes of the environment |
| --- | --- | --- |
| `TypeCorrect` (`Minter_proofs`) | `TypeOK` | nothing |
| `NoDoubleMint`, `NoMissingReserve`, `NoStaleCounters`, `LifetimeBound` (`Minter_proofs`) | `MintExclusion`, `HandlerReserveExists`, `SnapshotIsCurrent`, `LifetimeCeiling` | no `live_release` |
| `CompletedKeysNameTheirBlock` (`Minter_proofs`) | `CompletedPointsAtBlock` | nothing |
| `CompletedKeysAreFinal` (`Minter_proofs`) | `CompletedIsFinal` | no `live_release` |
| `LocksAndKeysAreGivenBack` (`Minter_proofs`) | `NothingLeaks` | no `trap`, no `live_upgrade` |
| `KeysMintAtMostOnce` (`Minter_proofs`) | `KeyMintedOnce` | nothing lost, no `live_release`, keys that memos tell apart |
| `MintsAreAtomic` (`Refinement_proofs`) | `ImplementsAtomicMint` | no `live_release` |
| `NothingIsInvented` (`Accounting_proofs`) | `CountedWasMinted`, in no run | no `same_instant` |
| `LifetimeIsMinted` (`Accounting_proofs`) | `LedgerAgreement` | `Answered`: nothing lost, no duplicates |
| `PruningLosesNothing`, `WindowLimits` (`Accounting_proofs`) | `RateUsageIsExact`, `WindowCeiling` | `Faultless`: that, and no `live_release` |
| `RebalancesFit` (`Accounting_proofs`) | `RebalanceWithinMax` | no `live_release`, no `deposit` |
| `PreviewTypeCorrect`, `StalePreviewsOverstateMintsOnly` (`Preview_proofs`) | `PreviewTypeOK`, `OverstatesByMintsOnly` | nothing |
| `PreviewsTellTheTruth` (`Preview_proofs`) | `AnnouncedIsMinted` | no `live_release` |
| `TotalIsKept`, `DoneMeansDone`, `CapsAreKept` (`InitReserves_proofs`) | `CommitmentKept`, `DoneMeansRegistered`, `MintedWithinCaps` | see **The script** |
| `BudgetIsWhatFits` (`Reserve_proofs`) | the pure fact behind `BudgetIsLargestAccepted` | |
| `MintsTheLargestAllowed`, `BudgetIsTheLargestAccepted`, `LimitsGetStricter` (`ReserveChecks_proofs`) | `MintIsLargestAllowed`, `BudgetIsLargestAccepted`, `LargerWindowsAreStricter` | |
| `LifecycleTypeCorrect`, `UpgradesKeepState`, `UpgradesFailOnlyWhenFull` (`Lifecycle_proofs`) | `LifecycleTypeOK`, `UpgradeKeepsState`, `UpgradeFailsOnlyWhenFull` | nothing |

**Locks.** The four properties of the second row follow from one inductive
invariant, `MintInv` (`MintSafety`); none of them is inductive alone. That the
copies of a handler are current needs that nobody else mints to its reserve
(`MintExclusion`). That the reserve exists needs that a claimed reserve is
locked, because removal refuses locked ones. That a recorded amount stays below
the ceiling needs that the amount a handler sends was computed from current
counters and from a maximum the ceiling covers (`CeilingCovers`, which adds the
maximum in a handler's copy). `MintInv` is their conjunction. `Claims(c)` counts
a transfer that is under way although its handler was lost, which is what makes
exclusion inductive across traps and upgrades. The lemmas follow the actions:
`AdminInv`, `BeginInv`, `ResumeInv`, `EnvironmentInv`; behind them `ContinueInv`
(a step of the loop), `SendInv` (a mint is sent) and `NoNewClaims` (everything
else), and on the operators `ComputeBounds` (the computed amount stays within
the lifetime maximum) with `CapBounds` and `RoomBounds`.

**Keys.** From here on the proofs do not go through the actions again. Four
lemmas say once what a step does: `ContextSteps` (a context rests, ends, asks for
a balance, sends a transfer, or is served by the ledger), `HandlerSteps` (whose
step it was), `KeySteps` (a key is dropped, taken or settled) and `ReserveSteps`.
`CallMatches` ties a handler to its transfer and to the block that answers it,
without any assumption, so `CompletedPointsAtBlock` needs none either. That a
completed key is final needs `KeyHeld`: a top-up's key stays pending for it while
it waits, which a release under it would break. `KeyOnce` says where the one mint of
a key is: nowhere yet, answered and under way, or settled by the key. It is
false as soon as a reply is lost or two keys share a memo; the run `lost_key`
shows the first.

**The refinement.** `RefinementInv` adds to the invariants above that a transfer
under way has its reserve and, where nothing is lost, its handler, and that the
blocks belong to ids that were assigned. `MapFacts` states the abstract state
point by point. Most steps leave it alone (`HandlersUnseen`, `EnvironmentUnseen`);
the others map one to one: `RegisterStep`, `LoosenStep` and `RemoveStep` to the
administration, `MintStep`, `RecountStep` and `UnseenMintStep` to the three ways in which the ledger
answers a transfer, `ConfirmStep` and `ForgetStep` to the ends of a handler. The
configurations `core` and `faults` check both instances of the mapping, with
nothing and with everything admitted.

**Sums.** The induction theorems of the library cannot be instantiated by the
provers at hand, so `Reserve_proofs` proves facts about sums over finite sets
(`SumAdds`, `SumTakes`, `SumSame`, `SumOfPart`, `SumOfImage`) from a smallest
subset for which they fail (`SmallestSubset`).

**The counters.** `TotalInv` is what the lifetime counters need: no locks at all,
only that no call is answered with the block of another one (`NoDuplicates`). A
step executes a mint, whose amount becomes outstanding unless its handler is lost
already (`MintingBooks`), records one, which moves its amount into the counter
(`RecordingBooks`), or does neither and may lose replies (`QuietBooks`).
`NothingIsInvented` is the direction that survives every loss: counter and
replies under way never exceed the log. `LifetimeIsMinted` is the equality, where
nothing is lost. The continuation adds to the counter it finds, so mints
that overlap after a release still add up. `FewHandlers` says that finitely
many handlers run, since the instance may have infinitely many contexts and sums
are over finite sets.

The windows do need the locks. Per reserve a step keeps the account, opens it,
mints, or records (`AccountSteps`). `EventsAgree` compares the list of the
minter with the ledger from every instant on that the largest window still
reaches; pruning takes nothing away from those (`WithMintEvents`). `WindowsFit`
bounds what the ledger has in a window together with the mint that was sent,
while time moves the window (`WindowsMove`), an administrator loosens or lowers
limits (`LimitsLoosen`), and a new mint is sent only if it fits the copy of the
limits (`SentIsAllowed`). With a lost reply, a duplicate or a trap these equalities are
false: the ledger has a mint that the minter does not record.

**Balances.** `RebalancesFit` needs that no two reserves share an account
(`AccountsDiffer`), that a handler pays the account of its reserve
(`PaysReserve`), that the balance it was told is not below the present one
(`BalanceKnown`, false once users may deposit), and that the amount it sends was
computed to fit (`RoomLeft`). Replies and handlers may be lost.

**Previews.** `AnnouncedIsCurrent`: an announcement that stands is the answer
the present state would give. `DecidesByResponse`: so is the decision of a
rebalance whose copies are current. Every step of `Preview` is one of the minter or
a stutter of it (`PreviewRefinesSpec`), which lends it `MintInv`. For stale answers `CopiesLag` relates the copy of a
preview to the record of now as long as the configuration is the same: the
counter has grown, and what a window counts has grown by no more than the counter,
although events were pruned (`LagGrows`). The functions of the chain then move by at most
the growth of the counter (`CapClose`, `ComputeClose`, `BudgetClose`). This needs
no locks, so the theorem holds under every fault.

**The script.** `ScriptIsAdministration`: `ScriptSpec => Spec`, if the
configurations of the script are among those an administrator may register; so
all theorems of the minter hold beside the script. The sums of registered caps
are compared with those of the buckets through a map that takes a registered
reserve to its bucket and is one-to-one (`CapsAddUp`). The hypotheses:
`OneEnvironment` (the operators have the same principals, different for each
bucket), `OnlyScripted` (nobody registers or updates anything else, though an
administrator may register a bucket by hand), for `DoneMeansDone` also that the
minter accepts the configurations (`BucketsAreValid`, which `ScriptIsValid`
derives from the arithmetic of the script's own numbers), and for `CapsAreKept`
that the environment is `Faultless`.

**The pure functions.** Each cap of the chain of `compute_rebalance` is
characterised by what fits below it (`CapTakesTheSmaller`, `RoomIsWhatFits`,
`DeficitIsWhatIsAskedFor`), so the chain by what fits below all of them
(`CappedIsWhatIsAllowed`), and its result is the maximum of that set; in the same
way the budget is what fits all windows: `BudgetIsWhatFits`, for every history of
mints, by `BudgetIsLeast`. `BudgetIsTheLargestAccepted` applies it to the histories
of an instance. `LimitsAreProgressive`: among the pairs
of windows that are not progressive, take one with the smallest gap
(`LeastElement`). It is not adjacent, since adjacent pairs are compared, so a
configured window lies between, both halves are progressive, and progress is
transitive (`StricterIsTransitive`).

**Upgrades.** `SavedStateIsRestored`: `try_restore_state` inverts `save_state`,
over any previous content of the memory, for all states, lengths and page sizes.
The invariant adds to the type that the memory has no more pages than the system
grants; without it a memory could be large enough for a state the system does not
grant the pages for. `NeededPagesSuffice` is the arithmetic of the rounding: the
pages hold prefix and payload, and one page less would not. From it follow that
a write is never out of bounds (`SaveWrites`) and that a save traps exactly if
the pages are not granted (`SaveTrapsWhenFull`).

**Assumptions.** The named ASSUMEs of the modules, which say that the constants
have their types, that `None` is no value of the data it stands beside
(`NoneAssumption`, `KeysAssumption`, `NoEntryAssumption`, `NoMintAssumption`),
that the bounds are numbers, that windows grow, that an encoding is not empty and
that a page is larger than the prefix. TLC evaluates them in every run. The
hypotheses of the theorems are those of the table; each admits the environment
of the run that checks the property.

**Only model-checked.** Liveness (`LocksAreReleased`, `ReserveRefilled`), which
is beyond the prover. The properties of the three runs that expect a violation
are no theorems, of course: `NoMintWhileDisabled`, `StateSurvives`, and
`KeyMintedOnce` where replies are lost.

## 5. Not modelled

- The query API, guards and result types: reads, access checks and conversions
  keep no state, and a query sees the state between two messages, of which every
  invariant speaks already. The conversion of a preview's answer is part of
  `Preview`.
- The ledger and the index canister are downloaded binaries. What the minter
  relies on is modelled from its calls and marked external: transfers,
  deduplication, balances.
- What Candid does inside an encoding, and that a newer version can decode an
  older one: the types of one commit show one version only.
- The deployment scripts beside the choice of the argument (printing, usage,
  building, recording of metadata, network selection), and the arithmetic of
  `init.reserves.sh` on decimals: the caps of its buckets are constants.
- Build, lint and continuous integration.

The reasons are listed per component in `PROJECT.json`, and a hazard without a
property says why.

## 6. Plan

Done: the modules of section 2, and a theorem for every safety property of a
passing run; beyond those, that the counters invent nothing where replies are
lost.

Left, in this order:

1. What of the guarantees survives a release under a running mint, beside the
   counters and the locks: which ceilings overlapping mints can pass, and by how
   much.
2. Requests that are served after the wait of their caller ended, within what
   the ledger's deduplication and the deadlines of the system still rule out.
