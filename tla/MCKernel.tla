------------------------------ MODULE MCKernel ------------------------------
(***************************************************************************)
(* The kernel's scheduler, channel and pipe share no state, and none with  *)
(* the agents of the gateway. One run checks all four: each behaviour      *)
(* picks one of them at the start and leaves the others alone, so the      *)
(* state counts add up instead of multiplying.                             *)
(***************************************************************************)
EXTENDS KernelExecutor, IpcChannel, Pipe, GatewayAgents, TLC

CONSTANTS t1, t2, w1, w2

VARIABLE running    \* the part this behaviour is about

MCKPriority == (t1 :> 1) @@ (t2 :> 0)
MCKHome == (t1 :> w1) @@ (t2 :> w1)

kernelVars == <<running, executorVars, channelVars, pipeVars, gatewayVars>>

KernelInit ==
    /\ running \in {"executor", "channel", "pipe", "gateway"}
    /\ ExecutorInit /\ ChannelInit /\ PipeInit
    /\ GatewayInit /\ (running # "gateway" => gRow = "unborn")

KernelNext ==
    /\ UNCHANGED running
    /\ \/ running = "executor" /\ ExecutorNext
          /\ UNCHANGED <<channelVars, pipeVars, gatewayVars>>
       \/ running = "channel" /\ ChannelNext
          /\ UNCHANGED <<executorVars, pipeVars, gatewayVars>>
       \/ running = "pipe" /\ PipeNext
          /\ UNCHANGED <<executorVars, channelVars, gatewayVars>>
       \/ running = "gateway" /\ GatewayNext
          /\ UNCHANGED <<executorVars, channelVars, pipeVars>>

\* The fairness of ExecutorSpec and of GatewaySpec.
KernelSpec ==
    /\ KernelInit /\ [][KernelNext]_kernelVars
    /\ \A w \in Workers : WF_executorVars(running = "executor" /\ WorkerStep(w))
    /\ \A t \in KTasks, w \in Workers : WF_executorVars(running = "executor" /\ KPush(t, w))
    /\ \A k \in GatewayTasks : WF_gatewayVars(running = "gateway" /\ TaskStep(k))

\* Type correctness of the four.
TypeOK == ExecutorTypeOK /\ ChannelTypeOK /\ PipeTypeOK /\ GatewayTypeOK
=============================================================================
