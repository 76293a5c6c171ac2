----------------------------- MODULE MCServices -----------------------------
(***************************************************************************)
(* The session pool, the plans of an agent, the in-memory transport, the   *)
(* state store, the contracts and the agents of the gateway share no       *)
(* state. One run checks them:                                             *)
(* each behaviour picks one at the start and leaves the others alone, so   *)
(* the state counts add up instead of multiplying.                         *)
(***************************************************************************)
EXTENDS SessionPool, AgentPlans, MemoryTransport, StateStore, PaymentStreams,
        VestingWallet, DealEscrow, GatewayAgents, TLC

VARIABLE running    \* the part this behaviour is about

\* The topic a/b, and the patterns a/b and a/#.
MCTopics == {<<"a", "b">>}
MCPatterns == {<<"a", "b">>, <<"a", "#">>}

\* Plans a caller builds: two steps that wait for each other; three independent
\* ones in sequence, in sequence whatever fails, and with a permit less than
\* steps; four, which is one too many; and a chain that goes on after failures.
MCPlan(steps, deps) ==
    [steps |-> steps, deps |-> deps, parallel |-> FALSE, permits |-> 3, goOn |-> FALSE]
MCFork == MCPlan(<<1, 2, 3>>, <<{}, {}, {}>>)
MCCustomPlans ==
    {MCPlan(<<1, 2>>, <<{2}, {1}>>),
     MCFork, [MCFork EXCEPT !.goOn = TRUE], [MCFork EXCEPT !.parallel = TRUE, !.permits = 2],
     [MCPlan(<<1, 2, 3, 4>>, <<{}, {}, {}, {}>>) EXCEPT !.parallel = TRUE],
     [MCPlan(<<1, 2>>, <<{}, {1}>>) EXCEPT !.goOn = TRUE]}

\* The tasks of the pool, the callers of plans, the clients of the bus and of
\* the store, the streams, the schedules, the deals and the clients of the
\* gateway are the same two.
MCSymmetry ==
    Permutations(Sessions) \cup Permutations(BusClients)

\* Every pattern and topic of up to four segments over two names.
ASSUME TopicMatchesAgrees({"a", "b"}, 4)

servicesVars == <<running, poolVars, plansVars, busVars, storeVars, paymentVars, vestingVars,
                  escrowVars, gatewayVars>>

ServicesInit ==
    /\ running \in {"pool", "plans", "bus", "store", "payment", "vesting", "escrow",
                   "gateway"}
    /\ PoolInit /\ PlansInit /\ BusInit /\ StoreInit /\ PaymentInit /\ VestingInit
    /\ EscrowInit /\ GatewayInit
    /\ running # "gateway" => gRow = "unborn"

ServicesNext ==
    /\ UNCHANGED running
    /\ \/ running = "pool" /\ PoolNext
          /\ UNCHANGED <<plansVars, busVars, storeVars, paymentVars,
                         vestingVars, escrowVars, gatewayVars>>
       \/ running = "plans" /\ PlansNext
          /\ UNCHANGED <<poolVars, busVars, storeVars, paymentVars,
                         vestingVars, escrowVars, gatewayVars>>
       \/ running = "bus" /\ BusNext
          /\ UNCHANGED <<poolVars, plansVars, storeVars, paymentVars,
                         vestingVars, escrowVars, gatewayVars>>
       \/ running = "store" /\ StoreNext
          /\ UNCHANGED <<poolVars, plansVars, busVars, paymentVars,
                         vestingVars, escrowVars, gatewayVars>>
       \/ running = "payment" /\ PaymentNext
          /\ UNCHANGED <<poolVars, plansVars, busVars, storeVars,
                         vestingVars, escrowVars, gatewayVars>>
       \/ running = "vesting" /\ VestingNext
          /\ UNCHANGED <<poolVars, plansVars, busVars, storeVars,
                         paymentVars, escrowVars, gatewayVars>>
       \/ running = "escrow" /\ EscrowNext
          /\ UNCHANGED <<poolVars, plansVars, busVars, storeVars,
                         paymentVars, vestingVars, gatewayVars>>
       \/ running = "gateway" /\ GatewayNext
          /\ UNCHANGED <<poolVars, plansVars, busVars, storeVars,
                         paymentVars, vestingVars, escrowVars>>

ServicesSpec == ServicesInit /\ [][ServicesNext]_servicesVars

\* Type correctness of the eight.
TypeOK ==
    /\ PoolTypeOK /\ PlansTypeOK /\ BusTypeOK /\ StoreTypeOK
    /\ PaymentTypeOK /\ VestingTypeOK /\ EscrowTypeOK /\ GatewayTypeOK
=============================================================================
