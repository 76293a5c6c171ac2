--------------------------- MODULE VestingWallet ---------------------------
(***************************************************************************)
(* The vesting wallet of the DAO                                           *)
(* (src/contracts/src/dao/VestingWallet.sol): schedules that vest an       *)
(* amount of one token between a cliff and an end, made by the owner out   *)
(* of what the wallet holds. A transaction is one step. The lists of       *)
(* schedules by beneficiary, and the recovery of other tokens and of       *)
(* Ether, which touch none of this, are left out.                          *)
(***************************************************************************)
EXTENDS Naturals, FiniteSets, Functions

CONSTANTS
    Schedules,          \* schedules ever created
    Beneficiaries,
    VestAmounts,        \* amounts of schedules and deposits
    VestDelays,         \* from now to the start of a schedule
    VestDurations,      \* cliffs and durations
    VestHorizon,        \* bound: the last block time
    MaxDeposited        \* bound: tokens ever deposited

ASSUME VestingAssumption ==
    /\ IsFiniteSet(Schedules)
    /\ VestAmounts \subseteq Nat \ {0}
    /\ VestDelays \subseteq Nat /\ VestDurations \subseteq Nat
    /\ VestHorizon \in Nat /\ MaxDeposited \in Nat

VARIABLES
    vestTime,       \* block.timestamp
    schedule,       \* schedules; NoSchedule for one not created yet
    totalReleased,  \* totalReleased, by beneficiary
    vestBalance,    \* token.balanceOf(address(this))
    deposited       \* history: tokens ever deposited

vestingVars == <<vestTime, schedule, totalReleased, vestBalance, deposited>>

NoSchedule == [exists |-> FALSE]

ScheduleRecords ==
    [exists : {TRUE}, beneficiary : Beneficiaries, total : VestAmounts, start : Nat,
     cliff : VestDurations, duration : VestDurations \ {0}, released : Nat,
     revocable : BOOLEAN, revoked : BOOLEAN]

VestingTypeOK ==
    /\ vestTime \in 0 .. VestHorizon
    /\ schedule \in [Schedules -> ScheduleRecords \cup {NoSchedule}]
    /\ totalReleased \in [Beneficiaries -> Nat]
    /\ vestBalance \in 0 .. MaxDeposited
    /\ deposited \in 0 .. MaxDeposited

VestingInit ==
    /\ vestTime = 0
    /\ schedule = [i \in Schedules |-> NoSchedule]
    /\ totalReleased = [b \in Beneficiaries |-> 0]
    /\ vestBalance = 0 /\ deposited = 0

Scheduled == {i \in Schedules : schedule[i].exists}

(***************************************************************************)
(* Amounts                                                                 *)
(***************************************************************************)
\* _vestedAmount: nothing before the cliff, all at the end, and from the
\* cliff on in proportion to the time since the cliff, rounded down.
Vested(i) ==
    LET x == schedule[i]
        cliffEnd == x.start + x.cliff
    IN  CASE x.revoked -> x.released
          [] ~x.revoked /\ vestTime < cliffEnd -> 0
          [] ~x.revoked /\ vestTime >= cliffEnd /\ vestTime >= x.start + x.duration -> x.total
          [] OTHER -> (x.total * (vestTime - cliffEnd)) \div (x.duration - x.cliff)

Releasable(i) == Vested(i) - schedule[i].released

TotalVestedTokens ==
    SumFunctionOnSet([i \in Scheduled |-> schedule[i].total - schedule[i].released],
                     {i \in Scheduled : ~schedule[i].revoked})

(***************************************************************************)
(* Transactions                                                            *)
(***************************************************************************)
VestTick ==
    /\ vestTime < VestHorizon
    /\ vestTime' = vestTime + 1
    /\ UNCHANGED <<schedule, totalReleased, vestBalance, deposited>>

Deposit(n) ==
    /\ deposited + n <= MaxDeposited
    /\ deposited' = deposited + n
    /\ vestBalance' = vestBalance + n
    /\ UNCHANGED <<vestTime, schedule, totalReleased>>

\* A mutant of Covers: what the other schedules need is forgotten.
CoversAlone(n) == vestBalance >= n

\* createVestingSchedule: the balance covers what is promised and this too.
Covers(n) == vestBalance >= TotalVestedTokens + n

CreateVestingSchedule(i, b, n, delay, cliff, duration, revocable) ==
    /\ ~schedule[i].exists
    /\ cliff <= duration /\ duration > 0
    /\ Covers(n)
    /\ schedule' = [schedule EXCEPT ![i] =
            [exists |-> TRUE, beneficiary |-> b, total |-> n, start |-> vestTime + delay,
             cliff |-> cliff, duration |-> duration, released |-> 0,
             revocable |-> revocable, revoked |-> FALSE]]
    /\ UNCHANGED <<vestTime, totalReleased, vestBalance, deposited>>

\* What is releasable of some schedules of one beneficiary is sent.
PayOut(b, ids, revoked) ==
    LET sum == SumFunctionOnSet([i \in ids |-> Releasable(i)], ids) IN
    /\ vestBalance >= sum
    /\ vestBalance' = vestBalance - sum
    /\ totalReleased' = [totalReleased EXCEPT ![b] = @ + sum]
    /\ schedule' = [i \in Schedules |->
            IF i \in ids
            THEN [schedule[i] EXCEPT !.released = Vested(i), !.revoked = revoked]
            ELSE schedule[i]]
    /\ UNCHANGED <<vestTime, deposited>>

Release(i) ==
    /\ i \in Scheduled /\ ~schedule[i].revoked
    /\ Releasable(i) > 0
    /\ PayOut(schedule[i].beneficiary, {i}, FALSE)

ReleaseAll(b) ==
    LET ids == {i \in Scheduled : schedule[i].beneficiary = b /\ ~schedule[i].revoked} IN
    /\ \E i \in ids : Releasable(i) > 0
    /\ PayOut(b, ids, FALSE)

\* revoke: what has vested is paid out, the rest is free for new schedules.
Revoke(i) ==
    /\ i \in Scheduled /\ schedule[i].revocable /\ ~schedule[i].revoked
    /\ PayOut(schedule[i].beneficiary, {i}, TRUE)

VestingNext ==
    \/ VestTick
    \/ \E n \in VestAmounts : Deposit(n)
    \/ \E i \in Schedules :
          \/ \E b \in Beneficiaries, n \in VestAmounts, delay \in VestDelays,
                cliff, duration \in VestDurations, revocable \in BOOLEAN :
                CreateVestingSchedule(i, b, n, delay, cliff, duration, revocable)
          \/ Release(i) \/ Revoke(i)
    \/ \E b \in Beneficiaries : ReleaseAll(b)

VestingSpec == VestingInit /\ [][VestingNext]_vestingVars

(***************************************************************************)
(* Properties                                                              *)
(***************************************************************************)
ReleasedOf(ids) == SumFunctionOnSet([i \in ids |-> schedule[i].released], ids)

\* The wallet can always pay everything its schedules have still to release,
\* however schedules, releases, revocations and the clock come one after the
\* other (VestingWallet.sol:116-119, 201-260, 356-364); no schedule has
\* released more than has vested, so no releasable amount underflows; and the
\* totals by beneficiary, and of the wallet, are those of the schedules.
SchedulesCovered ==
    /\ vestBalance >= TotalVestedTokens
    /\ \A i \in Scheduled : schedule[i].released <= Vested(i) /\ Vested(i) <= schedule[i].total
    /\ \A b \in Beneficiaries :
          totalReleased[b] = ReleasedOf({i \in Scheduled : schedule[i].beneficiary = b})
    /\ vestBalance + ReleasedOf(Scheduled) = deposited
=============================================================================
