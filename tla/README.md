# Stream-Scholar contracts: TLA+ models, model checking and proofs

Stream-Scholar is a set of Soroban (Stellar) contracts through which sponsors
fund students. The main contract, `contracts/scholar_contracts/src/lib.rs`,
escrows scholarships, pays them out under a number of rules, and carries many
further features (course access, bounties, quadratic funding, governance).
This directory holds TLA+ models of the contract, the TLC configurations that
check them on small instances, and proofs of the most important theorems for
all values of the constants, checked by TLAPS.

Line numbers without a file are those of
`contracts/scholar_contracts/src/lib.rs`.

## How the contract executes, and what follows for the models

* **Atomic calls.** Every entry point of a Soroban contract is one transaction
  on one ledger. A `panic!`, an overflow in `safe_math` or a failed token
  transfer undoes the whole call. So each entry point is one action, its panics
  and early returns are the action's guards, and there is no state between two
  lines of a call. Concurrency is the order of the calls of many parties.
* **No re-entry.** The host refuses a call of a contract that is running. A
  referendum on the contract's own settings therefore cannot be executed
  (`referendum_lifecycle`).
* **Shared custody.** All pools of the contract (scholarships, accrued fees,
  university shares, gas treasury, bounties, matching pools) live in *one*
  balance per token, held in the token contract. Which part belongs to whom is
  bookkeeping only. The hard properties are those that relate books and custody.
* **Time** is the ledger's timestamp. It never runs backwards; several calls may
  share one timestamp.
* **Fairness.** The contract acts only when called, and no party is obliged to
  call. Fairness is stated in one place, `Governance`, for the clock (ledgers
  close without anybody's call) and for queueing and executing a referendum,
  which anyone may call and whose proposer gets the bond back by calling. Under
  it, liveness says something about the contract: that its guards let the calls
  through in time. Everywhere else nothing would justify it, and what can never
  happen, whoever calls, is stated as safety (`TimeElapsedInert`, `FirstLeaderStays`).
* **Authorisation.** `require_auth` and the administrator check identify the
  caller; an action is taken on behalf of the party named in its parameters.
* **Amounts** are `i128`, and few entry points test the sign of one. The models take
  an amount with the signs that can come through the call:
  - The token contract refuses the transfer of a *negative* amount. Where the amount
    itself is transferred (fundings, purchases, bounties, bonds) the models therefore
    take naturals, **zero included**: a transfer of zero succeeds.
  - Where what is transferred is computed from the amount, it may be negative and the
    transfer not. A *withdrawal* transfers the amount less its tax: below zero it is
    refused at every tax below 100%; at 100%, which `set_tax_rate` accepts, nothing is
    left to transfer, and the call succeeds, raises the balance, and books no fee. The
    model has it so, and what depends on it assumes `TaxBelowFull` (see *Assumptions*).
    A *deposit with match* transfers the sum of the two.
  - Where nothing is transferred (a reinvested yield, a stream's rate) any integer
    goes: a sponsor's booked capital may fall below zero, and a stream of a negative
    rate comes to nothing. The course token tests no sign at all.
  - Amounts that the code tests (`> 0`, a minimum, a percentage) are tested in the
    actions' guards.

  An `i128` overflow panics, which undoes the call; the models use unbounded integers
  and bound them by named constants in guards (`MaxGrant`, `MaxCustody`, ...). Where
  the width matters it is kept: `I128_MAX` in `Token`, `U64_MAX` in `ExpiryMath`,
  `HALT_FOREVER` in `CourseAccess`, where the seconds that a payment buys are cut to
  it (`as u64`, 6539) before the expiry saturates at it.

## Inventory

State is the contract's storage (`DataKey`); operations are entry points.

| Component | State | Operations | What is hard, and what makes it correct |
|---|---|---|---|
| Scholarship escrow | `Scholarship(student)`, `ScholarshipIndex`, token balance | `fund_scholarship` 1795, `withdraw_scholarship` 1899, `verify_academic_progress` 5020 | Locked tenth recomputed while fundings and withdrawals interleave; 70/30 rounding; conservation of every unit; custody covers books |
| Tax and protocol fees | `TaxRate`, `ProtocolFeesAccrued(token)`, `ProtocolFeeRecipient` | `set_tax_rate` 2022, `set_protocol_fee_recipient` 2033, `claim_protocol_fees` 2050 | Fees are a number over the common balance; claims race withdrawals and issuer clawbacks |
| Community vote, final release, graduation | `CommunityVote(student)`, `final_release_claimed`, `GraduationRegistry` | `initiate_final_release_vote` 2360, `cast_community_vote` 2455, `claim_final_release` 2524, `mark_as_graduated` 2595 | Quorum of distinct voters; released once; fundings between vote and release; gas reserve of native grants |
| University holds | `UniversityAdmin`, `StudentUniversity`, `SecurityHold` | 2664, 2708, 2765, 2844 | Expiry by the clock, renewal, lifting, moving a student to another university |
| Sponsor clawback | `ClawbackCondition`, `ClawbackEventLog` | register 3394, check 3451, execute 3511, revoke 3620 | Trigger and execution are different calls; window; keys are timestamps |
| Issuer clawback reconciliation | `ClawbackEvidence`, `ClawbackTerminated`, `TrackedTVL` | `reconcile_balances` 5859 | Pro-rata rounding; deficit measured against part of the custody; terminated students |
| Course access, heartbeat, subscriptions | `Access`, `Subscription`, `ReputationBonus` | `heartbeat` 1455, `has_access` 1533, `buy_access` 6517, `buy_subscription` 6571 | Watch time across lapses; expiry arithmetic; rates read from the wrong storage |
| Proof of attendance | `PoAConfig`, `AttendanceCheckpoint`, `StudentPoAState` | 1118-1450 | Checkpoints keep old bounds after a new configuration; proofs and halts write one record |
| Slashing and refunds | `SlashedStudent`, `PendingRefund`, `Access` | 5052-5438 | A slash sets the expiry anew; payloads are good for a day; refund all or nothing |
| Deposits, matching, tracked value, gas subsidy, sponsors' yield | `TrackedTVL`, `InstitutionalPeriodicCap`, `HasReceivedSubsidy`, `SponsorProfile` | 2212-2330, 4842, 5466-5505, 5714-5850; issue_batch 311 | Match caps moved between deposits; several claimants of one balance |
| Quadratic funding | rounds, projects, contributions | 3752-4191 | Integer square roots, clamp at zero, payouts against the pool |
| Milestone bounties, committees, dependency graph | `BountyReserve`, committee, masks | 4196-4392; issue_batch 251-568; issue_features | Signatures racing the timeout; acyclicity; revocation closure |
| Payout whitelist and claims | `AuthorizedPayout`, `UnlockTime` | 3036-3168 | 48 hour delay against announcements that replace each other; storage that nobody writes |
| Streams, royalties, alumni tax | `Stream`, `DustSweeper`, `AlumniPledge` | 4741-4781, 4919-5000 | Remainder carried over many payments; streams replaced |
| Governance | pause, council, rotation, referendum | 5508-5691, 6069-6196 | Time locks, boundaries of the vote, veto racing execution |
| Voting power, alumni, yield | `AlumniYieldVote`, `YieldAllocation` | 2879, 6282-6483 | One tally only |
| Oracle, GPA, standing | `OracleRegistry`, `Enrollment`, `GpaMultiplier`, `AcademicStanding` | 3172-3386, 4439-4736 | Nonces, epochs, staleness; the proof verification is a placeholder |
| Reputation export | nonces, sequence, audit, fee sink | issue_batch 1-250 | Replay, one sequence for all, holds |
| Course token | balances, allowances, supply | contracts/token | Transfers to oneself, allowances, width |
| Arithmetic crates | none | claim_math, expiry_math, safe_math | Copies of the contract's rules that must agree with it |
| Renewal schedule | contract, history | src/renew_schedule.rs | Renewal before and long after the end |
| Front end, SDK, JavaScript profile, scripts, mock oracle, harnesses, copies | | | outside the contract; see `PROJECT.json` |

Interactions: `fund_scholarship`, `withdraw_scholarship`, `claim_final_release`,
`execute_clawback` and `reconcile_balances` all rewrite the same `Scholarship`
record; these, `claim_protocol_fees`, `claim_gas_subsidy` and `harvest_yield`
share the token balance; `claim_final_release` calls `mark_as_graduated`;
withdrawals read the hold of the student's university; clawback conditions read
the GPA and the profile that oracles write; a slash rewrites access and
attendance and puts the student's exports on hold; `reconcile_balances` shuts a
student out of `has_access`; the pause refuses deposits; the issuer acts in the
token contract behind the contract's back.

## Modules

| Module | Content |
|---|---|
| `GrantAccount` | Abstract specification: what one student's grant promises |
| `Scholarship` | The escrow, taxes and fees, vote and release, holds (the core) |
| `SponsorClawback` | Composes the core with the sponsor's clawback conditions |
| `Reconciliation` | Composes the core with issuer clawbacks and their reconciliation |
| `ClaimMath`, `ExpiryMath` | The arithmetic crates as operators |
| `ClaimMirror` | The core beside the functions that repeat its rules |
| `DocumentedClaims` | What comments and tests say and the code does not do |
| `CourseAccess` | Access, subscriptions, watch time, attendance proofs, slashes, refunds |
| `Governance` | Council, rotation, pause, referenda; the fairness |
| `MilestoneGraph` | The two algorithms on the prerequisite graph and what they are for |
| `Milestones` | Milestone bounties, committees, revocation |
| `Treasury` | Deposits, matches, tracked value, gas subsidy, sponsors' yield over one balance |
| `QuadraticFunding` | Rounds, projects, contributions, matching |
| `Streams` | Token streams and the alumni tax |
| `YieldVote` | The alumni's vote on the yield's destination |
| `PayoutWhitelist` | Time-locked payout addresses |
| `Attestations` | Enrollment, GPA multiplier, proofs of a threshold, standing |
| `ReputationExport` | Exports for a fee, numbered in one sequence |
| `Token` | The course token |
| `RenewSchedule` | Renewals of a donor's contract |
| `Services` | The nine modules before this one beside each other |
| `SumLemmas` | Sums over finite sets: what adding, removing, changing an element does |
| `ScholarshipProofs` | The core: inductive invariant, safety, custody, refinement of `GrantAccount`, the mirrored crate |
| `ClawbackProofs` | The core's invariant, books and refinement through sponsors' clawbacks |
| `ReconciliationProofs` | The same through issuers' clawbacks; terminations and haircuts |
| `MilestoneProofs` | What the two graph algorithms compute; the theorems of `Milestones` |
| `GovernanceProofs` | Inductive invariant and safety theorems of `Governance` |
| `AccessProofs` | Inductive invariant and safety theorems of `CourseAccess` |
| `ServiceProofs` | An invariant for each of the services and the theorems of `Services` |
| `MC...` | Instances for TLC |

Every module: variables are the storage entries under their names in the code
(see the declarations), a missing entry is `None`, there is one action per entry
point with the entry point's name, and `Tick` for the clock. *History variables*
are read by no action.

### `Scholarship`

`custody` is the token contracts' balance of this contract; the history variables
(`withdrawn`, `released`, `reduced`, `tuitionHeld`) record where money went.

* The university's 70% is computed and dropped by the code: `tuitionHeld`
  records what therefore stays in custody.
* `process_tutoring_payment` (1600) returns its argument and is left out.
* `last_verif`, `dispute_reason`, `final_ruling`, the names of holds and the
  graduation's date and GPA are left out: nothing modelled reads them.
* `is_paused` and `is_disputed` are set by the reconciliation only, as in the
  code. `withdraw_scholarship` reads them, `claim_final_release` does not.
* A withdrawal of zero is granted to whoever may withdraw at all (1956); `Tax` rounds
  towards zero, and only a positive one is booked (`Fee`).
* Requests that return without effect (a fee claim of zero) are stutters.

### `GrantAccount` and the refinement

An account knows what was granted, held, paid and forfeited, whether the release
was approved, whether it happened (`open`), and whether the account is frozen.
It promises: credits are held in full; a payment never touches the locked tenth
before the account is open and never happens while it is frozen; the release
happens once, after approval, from the locked share; nothing is lost except
through `Forfeit`. The escrow, and both compositions, refine the account of each
student under the mapping at `Account(s)` in `Scholarship`: for instance
`frozen` is "the student's current university has an active hold that has not
expired". TLC checks it as the property `AccountsKept`, which is the conjunction
of `Account(s)!Spec` over the students with the quantifier moved inside.

### `SponsorClawback`

A condition's key is (sponsor, student, timestamp), as in the code, so that two
registrations in one ledger collide. The tests for GPA, courses and activity
read data that other components write; the model keeps the set of tests each
student fails *now* (`standing`), which changes at any time. A test with one
threshold per student and type is modelled; two conditions of a type with
different thresholds behave like two types. `lastFailed` is a history variable.

### `Reconciliation`

`IssuerClawback` is external: the asset's issuer takes tokens at any moment.
`ReconcileBalances` is the whole entry point including the targeted termination,
the second computation of the liability and the haircut. `cutOffAt` is a history
variable: what had been granted to a student at the last termination.

### `ClaimMath`, `ClaimMirror`, `ExpiryMath`

The crates repeat the contract's rules as pure functions. They are operators
here. Where the contract calls the same arithmetic (square root, matching,
alumni tax, tuition split) the modules use them; where it has a copy of its own
the copy is modelled too, and the two are compared in every state that calls
lead to: `ClaimMathMirrors` for withdrawals and `simulate_claim`,
`ExpiryMirrors` for purchases. Contract and crate differ in one answer, to a request
of zero, and `ClaimMathMirrors` says so.

### `CourseAccess`

Purchases are compiled for tests only (`#[cfg(test)]` at 6516 and 6570): in a release
build nothing but a slash writes an expiry. The model is of the build with them. A
purchase must come to the minimum of `MinDeposit` and may buy nothing, namely a payment
whose seconds the conversion cuts to zero; a subscription has no price, and a payment of
zero opens its courses for 30 days (6571-6594). The vetoes that `has_access` reads are
written by no entry point. `shutOut` stands for the termination or dispute that
`reconcile_balances` leaves. A halt for ever is `HALT_FOREVER`, the greatest `u64`.
`firstBeat` is a history variable.

### `Governance`

`lib.rs` defines `set_security_council` and `upgrade_contract` twice (5593,
5672; 5610, 5691), with the same effect; the text is modelled. Queueing a
rotation and dissolving the council ask for the contract's own authority (5629),
which a referendum was to give and cannot; the two are actions nonetheless, for
whoever may sign for the contract. `voting_power` is what the caller says it is.
`dissolved` is a history variable. Votes, bonds and delays are per referendum.

### `MilestoneGraph` and `Milestones`

A parent mask is the set of its bits and the graph a function from the milestones
to masks; the remaining-parents counters of `milestone_graph_has_cycle` become
"all bits processed", and the worklist of `descendant_mask` becomes passes over
the milestones. `Orderable` and `DependentsOf` say without an algorithm what the
two are for. The approval bitmap is the set of its bits.

`Milestones` has one action per entry point. Access to the course is a flag that
changes at any time (`has_access` depends on subscriptions, vetoes, disputes and
the clock). One token holds every reserve; a reserve that nobody funded is none, which
is not the same as one of zero. The student names the amount of a claim, as in the
code, and one of zero uses up the milestone. A signature is one of three, which is
what the code tells apart: empty, refused always; of the length that is asked for
without a committee; or another. Its content is not verified by the code.
The mark that a revocation leaves on the revoked milestone itself is read by
nothing and left out, as are the `MilestoneReady` events. History variables
record what was funded and paid, what was claimed when the graph was set, what a
revocation should have shut, who signed and how often a member was registered.

### The services

* `Treasury`: the one balance that deposits fill and subsidies and harvests empty. A
  match below zero is asked for as zero (`Wanted`), a deposit below zero passes if the
  match covers it. A reinvested yield, of any sign, moves no tokens.
  What the streams take from it is in `Streams`. `SetYieldPreference` keeps the
  capital; a harvest for the DAO always panics (nothing writes its pool).
* `QuadraticFunding`: the project's and the round's totals, one record per
  contributor, which a second contribution replaces while the totals add up.
* `Streams`: `earned` and `drawn` are history variables, second by second; a rate may
  be negative, and then nothing can be drawn.
* `YieldVote`: every vote weighs 1, because the only call that raises a reputation
  always panics.
* `Attestations`: a GPA proof is the lengths of its parts, all the code looks at.
* `ReputationExport`: payloads and messages are hashes over nonce and sequence, so
  that the check of the message never adds to that of the nonce.
* `Token`: moves values before it uses them again (`approve`, 93-106), which the
  compiler refuses; modelled as the text says. Neither sign nor balance is
  tested, only the width: a balance may be overdrawn although the error text is
  "Insufficient balance", and `initialize` may be called again and sets the
  supply to zero while the balances stay.
* `RenewSchedule`: the file declares neither the opening of a contract nor its
  disbursement; the model opens one with a first year and draws any part of it.

`Services` puts them beside each other. No two share storage; their common
resources are the clock and the token balances, and each service is taken to
work in a token of its own. The variable `service`, chosen initially and never
changed, says which one moves, so that the run explores each state space by
itself, the sum instead of the product. It is one run so that nine small
instances do not stand for nine questions.

## Runs

Amounts are chosen so that rounding shows: 34 funds 23 for the university and 11
for the student, the tenth of 11 is 1 (of 22 it is 2), and 25% tax of 5 is 1.
Withdrawals of 5 and 6 exhaust 11 exactly, or stop at the lock, in different
orders; requests of 0 and -5 are made beside them (`Requests` in `MCScholarship`).
Votes need two of two voters, so that a vote can stand open. Gas reserve
1 is at most the lock, so that native releases can happen.

| Run | Instance | Shows |
|---|---|---|
| `escrow` | 1 token, 2 voters, up to 22 credited to a student, tax 0 or 25%; two students at one time without verification, or one student with verification, 2 universities, clock 1..3, holds of 2 | Types, conservation, lock, quorum, unlocked covers balance, custody equals the books, the mirrors agree; every step is a step of the abstract account |
| `sponsor_clawback` | 1 student, clock 1..3, cooldown and window 1, a GPA condition at 50%, a verification after a withdrawal, so that unlocked exceeds balance | Clawback composed with the escrow |
| `reconciliation` | 2 students, 1 voter, tax 0 or 25%, issuer clawbacks of 29, two evidence hashes, final releases | Reconciliation composed with the escrow |
| `milestones` | 1 grant, milestones 0..2, the graphs of two milestones with a bit out of range (up to their order), a chain, a join and a cycle of three, amounts 0 and 1, 2 members, 2 slots, threshold 2, clock 1..2 with timeout 1 | Prerequisites, revocations, approvals, reserve |
| `course_access` | 1 student, 1 course, clock 1..3 of times up to 6, payments of 0 and 16 (at rate 2 eight seconds, of which the width leaves one), checkpoints every 2 ticks, minor pause 2 | Purchases, heartbeats, proofs and slashes over the same records |
| `governance` | 2 referenda, 2 voters, 1 council, clock 1..4 and on while a delay runs, every period 1 tick | Boundaries, veto, rotation; liveness under the fairness |
| `services` | each of the nine services, small (`MCServices.cfg`), amounts of either sign where the code takes either | What makes each of them correct |

Two students suffice for what students share (custody, fees, the haircut's
proportion); a single student with two universities shows a hold that the
student is moved away from. Both are in `escrow`, whose `CONSTRAINT` (`Small` in
`MCScholarship`) leaves out only their product: the properties speak of one student
at a time but for the custody, which neither holds nor the clock move. A clock of three
ticks with periods of one or two gives before, at and after each deadline. Two evidence
hashes allow a second reconciliation after the first. A student can be funded twice, so
a lock computed before the second funding matters. One student and one course suffice
for the access: records of different students and courses share nothing but the refund
booked for the administrator and the custody; that no call of *another* student opens a
course is therefore left to the theorem `AccessAlwaysBought`, for any number of them.
Two referenda share the bonds' custody. A rotation can be queued up to tick 3 and
executed at 4, so that a second one can meet the year between them.

For the services: two projects, with contributions of 1 and 3 whose roots round,
against a pool that a second contribution overruns; a cap of 1 and matches of 1
and -1, so that the second match finds no room and a deposit of -1 passes with a match of
1; yields of 2 and -1; two students at 50% of rates 1 and -1, so that halves carry over
from one to the other; two AMMs and two alumni with up to three
votes; two addresses and a delay of 2 in a clock of 4; two nonces per student,
where the wallet pays for two exports; transfers of 2 and -1 with a greatest value
of 2, so that overdrafts and overflows occur; two renewals of a year of 2 ticks.

`CHECK_DEADLOCK` is left on but in `services`: there the clock, the nonces and the
tallies are bounded and a service does stop at its bounds. `governance` never
stops because settings can always be made again.

`CustodyAccounted` is checked with a single token, because fundings of one
student in two tokens break it (see below), and no run has a tax of 100%.

What the properties say:

* `UnlockedCoversBalance`: balance never exceeds the unlocked part, on any path.
* `GrantConserved`: credited = held + withdrawn + released + taken back.
* `WithdrawalsRespectLock`: until the release, everything withdrawn leaves a
  tenth of everything granted.
* `ReleaseNeedsQuorum`: votes count distinct voters, pass exactly at the
  threshold, and released money, the final flag and the graduation registry go
  together.
* `CustodyAccounted`: token balance = student balances + fees + university shares.
* `ClaimMathMirrors`: the contract's conditions on a withdrawal
  (`WithdrawalAccepted`) hold exactly when `execute_partial_claim` accepts it, with the
  same result, or when it is one of zero that the lock leaves room for, and
  `simulate_claim` agrees with its copy.
* `AccountsKept`: the refinement.
* `BooksKept` (in four modules): the type invariant together with the module's
  account of the money. With `SponsorClawback`: custody and unlocked part follow
  the clawbacks. With `Reconciliation`: unlocked parts cover the balances that
  terminations and haircuts leave. With `Governance`: the bonds held are those of the
  referenda not executed. With `Services`: the token's balances add up to what was
  minted and allowances to what was approved.
* `ExecutedIsFinal`, `ClawbackGrounded`: a condition pays once; it pays only if its
  test fails or failed within the window.
* `CutFair`: a reconciliation takes from the others than its target either nothing or,
  in proportion and to a unit each, exactly what is missing *after* the termination
  (5938). `LossPassedOnOnce`: a haircut takes from a student only while all that
  reconciliations ever took comes to no more than what issuers took beyond the fees and
  university shares, to a unit per student: however losses, haircuts, payments and fee
  claims alternate, no loss is passed on twice.
* `TerminatedStaysShut`: what a terminated student had is never paid. No withdrawal
  passes; the final release reads neither flag (2524), so that a terminated student who
  is funded and voted for again *is* paid by it, but no more than was granted since.
* `GraphOrderable`: no set of milestones of a graph in force waits for itself, none
  waits for a milestone that does not exist. `PrerequisitesKept`: what is claimed
  under a graph has its prerequisites claimed. `CutOffStaysShut`: what depended on
  a milestone when it was revoked is never paid, whatever graph comes later.
* `ReviewGrounded`: a review ends with enough approvals or by the council after the
  full time since the first signature, whatever changed meanwhile; a member counts
  as often as registered, because each registration gives a new slot (366-371) and
  the earlier bit stays. `ReviewWindowFixed`: later signatures do not postpone it.
* `ReserveConserved`: funded = reserved + paid, and where nobody funded nothing is
  claimed, not even zero.
* `RecordsKept`: types, and the expiries that `buy_access` and `buy_subscription`
  set are those of the crate, for the seconds that the conversion leaves of a payment.
  `WatchTimeElapsed`: watch time fits between the first
  and the last heartbeat, so that no time counts twice. `HaltAgrees`: the slash on
  record is the halt in force. `AccessIsBought`: nobody gains access but by a
  purchase of his own that pays for a second at least, or by a subscription of his own,
  which may be had for nothing; so that a slash, which writes an expiry in the future,
  opens no course.
* `ExecutionGrounded`: what is executed had its majority at the end of the vote,
  waited the full delay in the queue and was never vetoed. `RotationGrounded`: a
  year and a timelock between rotations, and a dissolution strikes what is queued.
  `PassedIsExecuted` (liveness): a referendum that passed is executed or vetoed in
  the end, if its target answers.
* `MatchingFits`: matching owed and claimed is what was announced, and fits the
  round's pool and the custody, whatever the floors and clamps do.
* `CapRespected`: a match never takes an institution beyond the cap in force, and
  the tracked value rises only by what comes in.
* `StreamsExact`: over all withdrawals and pledges, 100 x taxes + dust = what was
  due; a pair of funder and student draws at most what its rates came to.
* `PayoutTimelocked`: an address comes into force the full delay after it was
  announced, with no later announcement. `ExportsCounted`: nonces, audits, sequence and
  fees agree. `YearsFollow`: the years of a history do not overlap.

For the milestones one grant and one committee suffice: grants share nothing but
the custody and the members. Two slots let a committee fill up and a member take
both; a chain of three is the least in which a transitive dependent is not a
direct one, a join the least in which one parent of two is claimed. Amounts of 0 and 1
make a funded reserve of zero, which pays a claim of zero, differ from none. The third
milestone is the one that committees review, so that a review meets prerequisites.

### Where the code departs from its documents

Each of these runs ends in a counterexample. The first three are stated over
`Reconciliation` in `DocumentedClaims`, `WinnerRouted` in `YieldVote`.

* `reserve_withdrawn`: a native grant of 11 is withdrawn down to the lock of 1 and
  the vote passes; the release keeps the reserve of 1 back, and the next withdrawal
  takes it (comment at 1873-1874).
* `release_under_hold`: vote passed, university admin triggers a hold, student
  claims the final release (comment at 2745).
* `clawback_unseen`: after a funding of 34 the issuer takes 10; 24 remain, the
  liability is 11, and `reconcile_balances` refuses (5893). `test.rs:2343` expects
  a shortfall in this situation.
* `referendum_lifecycle`: a referendum on the contract's own `set_tax_rate` passes
  and is queued; its execution is a call of the running contract, so that every
  attempt is undone and the bond stays. `test.rs:1852-1874` expects the execution.
  The counterexample is under the fairness of `Governance`: callers do all that
  they can. The test also executes without queueing, which `execute_referendum`
  refuses.
* `winner_routed`: an alumnus votes for one AMM and then for another, which replaces
  the vote on record (6411); the capital still goes to the first. Two more votes for the
  second would change nothing: `allocate_yield` compares the leader's whole tally
  with the weight of one vote (6432), although the comments speak of an AMM that "has
  overtaken the current leader" (6433) and that "won the alumni vote" (6454). The
  weights are all 1, in spite of the "Academic_Reputation score" of 6379, because nothing
  that can be called writes one. `FirstLeaderAlwaysStays` proves that the first AMM
  voted for stays for ever.

Further departures met on the way, which no run shows:

* A `TimeElapsed` condition is never met: its test counts from the condition's own
  trigger (3711), which only a met condition sets. The comments count it among the
  "conditions that can trigger a scholarship clawback" (385), with a threshold in days
  (401). `TimeElapsedAlwaysInert` proves it for every threshold.
* A withdrawal of zero is granted (1956), where `execute_partial_claim` answers
  `InvalidAmount` (`claim_math` 172, test `partial_claim_rejects_zero_amount`) and says
  that its answers mirror the contract's (`claim_math` 25-27).
* At a tax of 100% a withdrawal below zero transfers nothing and raises the balance
  (1964-1990), so that more is owed than is held.
* A subscription is opened for a payment of zero (6571-6594); a payment to
  `buy_access` of more seconds than a `u64` holds buys what is left of them modulo 2^64
  (6539).
* A negative yield can be reinvested, which leaves a sponsor's booked capital below
  zero (4854-4860).
* A terminated student who is funded and voted for again is paid by the final release,
  which reads neither the pause nor the dispute that the termination set (2524-2592).
* A fee claim after a haircut takes from what the haircut left for the students, so
  that a next reconciliation cuts them again.
* A funding in a second token is credited to the record of the first (1834), so
  that more may be owed in a token than is held (against SECURITY.md:165).
* Fees are paid from the common balance also after an issuer's clawback took what
  is not owed to students, against the comment at 1983.
* A minor slash *extends* an access that had less than the pause left (5133).
* An institution's cap does not reduce what is matched already; the bond of a
  referendum that fails or is vetoed never returns.
* The course token's balances may be overdrawn (see above).

## Proofs

Every property of the passing runs is also a theorem, for every value of the constants
that the modules' assumptions allow (and, where its statement says so, one token and a
tax below 100%), except the liveness property `PassedIsExecuted`. `PROJECT.json` lists
the theorems with the properties they state.

### Sums

The books are sums over students, tokens, projects or signers. `SumFunctionOnSet`
of the community modules folds a recursive function over the set's subsets, and the
library's induction theorems cannot be instantiated by the installed provers. So
`SumLemmas` states induction on *sets*: a set of numbers that holds 0 and all
successors is `Nat` (`NatSetInduction`), a set of subsets that holds each `T` whose
strict subsets it holds is the power set (`SubsetInduction`), both by a minimal
counterexample (`WFMin` of the library). From these it shows that the fold's
recursion has a solution and that the sum behaves as one expects. Every recursive
*function* of the models is treated in the same way: first that its recursion has a
solution (one that is right up to k exists for every k), then a property of it by
`NatSetInduction`.

### The escrow (`ScholarshipProofs`)

*Inductive invariant* (`IInv`). None of the properties but the type invariant is
inductive alone. The lock is preserved by a withdrawal only because withdrawn =
granted - held (conservation, with nothing released before the release flag,
which is part of `ReleaseNeedsQuorum`) and because the withdrawal leaves at
least the locked tenth. It is preserved by a funding because the locked tenth of
a larger total grows by at most the growth of the total (lemma on the rounded
percentage). A native release keeps unlocked >= balance only because unlocked
>= balance held before. So the conjunction of the five is proved inductive,
action by action: `TypeCorrect`, `UnlockedNeverBinds`, `Conservation`,
`LockRespected`, `QuorumNeeded`.

*Custody.* `Surplus` is what is in custody over all tokens less all balances, fees
and university shares. `NothingUnbooked` proves it 0 for any number of tokens: every
step moves as much of the books as of the tokens, below full tax (see *Assumptions*).
`CustodyBacked` is
`CustodyAccounted`, token by token, under the hypothesis that there is one token.
The hypothesis is needed: a funding in a second token is credited to the record of
the first (1834), and then the custody of each token differs from what is owed in
it; only their sum is right.

*Refinement.* Every action is mapped to an abstract step for the student it
concerns and a stutter, or `Freeze`, for the others; the invariant supplies what
the abstract guards ask for (for instance that the balance left by a withdrawal
is at least the locked share). `Tick` may end a hold: that is `Freeze`.

*The mirrored crate.* `ClaimMathAlwaysMirrors`: the crate knows neither custody nor
the flags of a pause. That it accepts what the contract accepts therefore needs that
the custody covers every balance (`CustodyBacked` and a term of a sum of naturals is
at most the sum; hence one token again), and that `simulate_claim` agrees needs that
the escrow's own entry points pause nothing (`NothingStopped`). A request of zero passes
the contract's comparisons whenever the lock leaves anything, which is the exception
that the property states; one below zero fails in both, in the contract by the transfer.

### Sponsors' and issuers' clawbacks

`ClawbackProofs` carries `IInv` through executions: what leaves the balance is
booked as taken back, and when it exceeds the unlocked part it is the whole balance.
So all theorems of the core hold with clawbacks (`ClawbackInvariance`), an execution
is `Forfeit` in the account (`ClawbackRefinement`), and the surplus stays 0
(`ClawbackBooked`; with one token, `ClawbackBooksKept`). The invariant adds that
every trigger lies in the past, is of a type that can be triggered, and that since
then the student failed the test now or was seen passing it again later than the
trigger; with the window's guard that gives `ClawbackAlwaysGrounded`, and
`TimeElapsedAlwaysInert` at once. `ExecutedAlwaysFinal` is by cases on the calls.

`ReconciliationProofs` extends `IInv` by "a terminated student's scholarship is
paused" and "what a terminated student holds was granted since the termination"
(`RInv`). `TerminatedShut` needs both: withdrawals read the pause, the final release
does not and pays at most what is held. `ReconciliationKeepsBooks` and
`ReconciliationRefinement` follow from `RInv`, too. `LossPassedOn` adds "the surplus is
what was taken from the students less what the issuers took" (`LossBooked`): after a
haircut the custody covers what the students hold and exceeds it by less than a unit
each, so that all that was taken is, to these units, the issuers' loss beyond
fees and university shares. `HaircutFair` computes with the rounded shares: each student
keeps balance x available / liability rounded down, so that two students'
shares are in the proportion of their balances to a unit, and all shares together are
at most what is available and short of it by less than one unit per student;
the sums are bounded term by term.

### Milestones (`MilestoneProofs`)

*The algorithms.* `CycleDecided`: the cycle test rejects exactly the graphs that are
not `Orderable`. A set that waits for itself is reached by no pass; and where there
is no such set every pass processes one milestone more, so that as many passes as
milestones suffice. `MaskExact`: in an orderable graph a revocation's mask is exactly
`DependentsOf`, the least set closed under waiting. The passes stay within every
closed set, and the last one is closed, because each pass before it added a milestone
or the passes had come to an end; the revoked milestone is left out of the mask, and
would be in the closed set only if it waited for itself.

*The states.* `Inv` has the types, the prerequisites, the reserves and the windows:
claims only grow, and a new graph records what was claimed before, so the
prerequisites follow from the claim's own guard and from the graph in force being
the one it was claimed under. `GraphInv` adds that graphs in force are orderable
(`GraphAlwaysOrderable`), that what a revocation had to cut off is frozen, which
with the claim's guard gives `CutOffAlwaysShut`, and that *there are* sets of slots,
one per member and no larger than the number of his registrations, that explain all
slots in use and all bits of all approvals (`SlotsExplained`). The state does not
keep these sets, since a new registration forgets the member's earlier slot, so the
invariant asserts that they exist. The bits of an approval are within the union of
the signers' sets, whose size is at most the sum that `ReviewAlwaysGrounded` names.

### Governance (`GovernanceProofs`)

A vote could still turn a referendum that is queued, were it not that queueing needs
the vote's end to have passed and voting that it has not: the invariant keeps for
every record "what is queued had its majority, at a time between its vote's end and
now", and "what is executed came out of the queue after the delay, unvetoed". Both
are kept by the clock, which only runs forward (`ExecutionAlwaysGrounded`). A queued
rotation keeps the distance of an interval and a timelock from the last one, and none
survives a dissolution (`RotationAlwaysGrounded`). `BondsAlwaysBacked`: a creation
adds a referendum's bond to both sides, an execution removes it from both, and a vote
or a veto changes no term of the sum.

### Course access (`AccessProofs`)

The invariant orders the heartbeats of a record between the first one and now, and
bounds its watch time by their distance; without a record there was no heartbeat
(`WatchTimeAlwaysElapsed`, `HaltAlwaysAgrees`). That a slash opens no course, although
it may set an expiry in the future, follows from its refund: it is more than nothing
only while the old access lasts (`AccessAlwaysBought`); a purchase that opens one
bought a second at least, hence paid for it (`SecondsNat`). `RecordsAlwaysKept` compares
the two copies of the expiry arithmetic, the saturating one and the crate's, as
functions.

### The services (`ServiceProofs`)

Each service has an invariant that its own steps keep; the steps of the others write
none of its records (`StepOfOne`) and only move the clock.

* *Quadratic funding* (`MatchingAlwaysFits`). The pool is compared with the square of
  the sum of all roots less everything raised, while each match is clamped at 0 by
  itself. `IsqrtExact` shows that Newton's iteration, which starts at n and stops when
  it no longer falls, ends in the integer square root. So what was raised exceeds the
  square of its roots by at most twice the roots. Over any set of projects, with A the
  sum of the roots, T raised and M the sum of the matches, M > 0 implies M <= A^2 - T,
  and M = 0 implies T <= A^2 + 2A; adding a project keeps both (`OneMoreFits`,
  `MatchesFit`). The rest is bookkeeping between totals, projects and custody.
* *Streams* (`StreamsAlwaysExact`): the two roundings of a tax (of the amount, and of
  the dust) lose nothing between them, and "drawn and drawable is at most earned" holds
  for each pair because a second adds the rate to both sides and a new stream starts
  with nothing drawable.
* *Payout addresses* (`PayoutAlwaysTimelocked`): the pending address is always the one
  announced last, and the unlock time is that announcement plus the delay, because an
  announcement replaces both and a confirmation clears both.
* *Exports* (`ExportsAlwaysCounted`): the sequence is the sum of the students' counts,
  each count the number of nonces used, and no number is used twice.
* *Renewals* (`YearsAlwaysFollow`): the last year of the history is the contract's
  own; appending one year keeps the others.
* *Votes, matches, token* (`FirstLeaderAlwaysStays`, `CapAlwaysRespected`,
  `BooksAlwaysKept`): the leader's tally is positive; the room below the cap is
  computed from the cap in force and a match is never negative, whatever the deposit
  beside it; a transfer changes two entries of one sum, or one entry twice.

### Assumptions

Bounds and periods are naturals, and so are amounts that are transferred as they are,
because the token refuses others; amounts that are computed with first, or booked
without a transfer, are integers (see *Amounts* at the top). Percentages and tax rates
are within their range, thresholds positive where the code's constants are; `None` is
not a record, number or address it stands beside. Students, tokens, members, projects,
referenda and holders are finitely many (they are addresses and identifiers). A
milestone graph has at most 64 milestones and bits, as the code checks. The clock of
`CourseAccess` lies within `u64`. Each module names its assumptions, and TLC evaluates
them on every run.

Two hypotheses are stronger than what the code ensures, and the theorems that need
them have them in their statements:

* *One token* (`CustodyBacked`, `ClaimMathAlwaysMirrors`, `ClawbackBooksKept`,
  `LossPassedOn`), for the reason given under *Custody*. The sums over all tokens
  (`NothingUnbooked`, `ClawbackBooked`) do without.
* *A tax below 100%* (`TaxBelowFull`: those, and the three refinements of
  `GrantAccount`). `set_tax_rate` accepts 10000 basis points (2027), and at that rate a
  request of -x has tax -x, nothing to transfer, and ends with balance and unlocked part
  raised by x, no fee and no token moved: the books exceed the custody, and an account
  is credited without a funding. So the statements are false of the code without the
  hypothesis. At every lower rate the transfer of what is left refuses such a request,
  and that is proved, not assumed: requests range over all integers. The other theorems
  of the escrow (types, conservation, lock, quorum) hold at full tax as well, where
  `withdrawn` counts such a request as a negative withdrawal.

### Only model-checked

`PassedIsExecuted` is liveness under fairness, which is out of the prover's reach. So
are the five runs that end in a counterexample, and which actions can happen at all
(deadlock, `ENABLED`): the theorems say what no step may do, TLC that the steps occur.
The clock's bound and the bounds on totals (`MaxGrant` and so on) are parameters of
the theorems, too; they hold for every bound.

## Plan

1. (done) `GrantAccount`, `Scholarship`, `ScholarshipProofs`.
2. (done) `SponsorClawback` with `ClawbackProofs`, `Reconciliation` with
   `ReconciliationProofs`, `DocumentedClaims`.
3. (done) `CourseAccess` and `AccessProofs`.
4. (done) `MilestoneGraph`, `Milestones` and `MilestoneProofs`.
5. (done) `Governance` with its fairness and `GovernanceProofs`.
6. (done) `Treasury`, `QuadraticFunding`, `Streams`, `YieldVote`, `PayoutWhitelist`,
   `Attestations`, `ReputationExport`, `Token`, `RenewSchedule`, `Services` with
   `ServiceProofs`.
7. (done) Amounts of zero and below wherever the code accepts them; the width of a
   purchase's seconds; terminated students in vote and final release; losses passed on
   once.
8. To do: the books with several tokens, per token (what a mixed funding moves from one
   token to the other), as an invariant that replaces the hypothesis of one token.

## Not modelled

* The front end, JavaScript classes, SDK, scripts and mock oracle hold no state
  of the contract. `Bounty.rs`, `dark_pool.rs`, `Timelock` and
  `student_profile_nft.rs` are compiled by no crate; `solved-issues` is archived.
* Entry points that always panic, because they read what no entry point writes:
  `claim_scholarship` and `claim_scholarship_private` (the scholarship in instance
  storage), `accrue_treasury_yield`, `distribute_surprise_bonus`, `route_to_yield`
  and the donation branch of `harvest_yield` (the pools), `record_milestone_voting`
  (`OracleStatus`). `batch_verify_gpa_proofs` asks one student for authorization
  twice in one call, and `receive_cross_chain_sponsorship` asks for the
  contract's own authorization, as the funder: both fail.
* Settings that nothing modelled reads: `set_teacher`, `set_mega_donor_threshold`,
  `set_settling_period`, `set_protocol_fee_recipient`, `set_course_duration`,
  `create_study_group`, `register_surprise_recipient`, `store_claim_commitment`.
* `distribute_royalty`, which nothing calls; `process_missed_checkpoints` and
  `extend_all_access_periods`, which do nothing; `upgrade_contract`, which replaces
  the code itself.
* Storage time-to-live, events and gas are left out everywhere. Read-only entry
  points other than those modelled change nothing.
