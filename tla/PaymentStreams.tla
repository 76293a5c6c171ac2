--------------------------- MODULE PaymentStreams ---------------------------
(***************************************************************************)
(* The payment contract (src/contracts/src/payment/AgentPayment.sol):      *)
(* streams that release an amount in proportion to the time that has       *)
(* passed, mandates that let a payee collect up to a limit, and one        *)
(* balance per token for all of them. A transaction is one step; one whose *)
(* transfer fails is reverted and changes nothing. Who may call what is    *)
(* left out where several parties may; so are the identifiers' hashes and  *)
(* the lists of identifiers.                                               *)
(***************************************************************************)
EXTENDS Naturals, FiniteSets, FiniteSetsExt, Functions

CONSTANTS
    Streams,            \* streams ever created
    Mandates,           \* mandates ever created
    Tokens,             \* ERC20 tokens and Ether
    Ether,              \* address(0)
    StreamAmounts,      \* totals of streams
    MandateLimits,      \* limits of mandates
    PayAmounts,         \* amounts of payments, withdrawals and strays
    StreamDurations,    \* durations allowed for a stream, in time units
    MandateValidities,  \* how long a mandate may be valid
    PayHorizon,         \* bound: the last block time
    MaxStrayed          \* bound: what receive takes in, and what the owner takes out

ASSUME PaymentAssumption ==
    /\ IsFiniteSet(Streams) /\ IsFiniteSet(Mandates) /\ IsFiniteSet(Tokens)
    /\ Ether \in Tokens
    /\ StreamAmounts \cup MandateLimits \cup PayAmounts \subseteq Nat \ {0}
    /\ StreamDurations \subseteq Nat \ {0}
    /\ MandateValidities \subseteq Nat \ {0}
    /\ PayHorizon \in Nat /\ MaxStrayed \in Nat

VARIABLES
    payTime,        \* block.timestamp
    payPaused,      \* Pausable
    stream,         \* _streams; NoStream for one not created yet
    mandate,        \* _mandates; NoMandate for one not created yet
    payBalance,     \* what the contract owns of each token
    paid,           \* history: what the recipient of each stream was sent
    refunded,       \* history: what the sender of each stream was sent back
    donated,        \* history: what came in outside streams, by token
    withdrawn       \* history: what emergencyWithdraw took, by token

paymentVars == <<payTime, payPaused, stream, mandate, payBalance, paid, refunded,
                 donated, withdrawn>>

NoStream == [exists |-> FALSE]
NoMandate == [exists |-> FALSE]

StreamRecords ==
    [exists : {TRUE}, token : Tokens, total : StreamAmounts, released : Nat,
     start : 0 .. PayHorizon, end : Nat, active : BOOLEAN, cancelled : BOOLEAN]
MandateRecords ==
    [exists : {TRUE}, token : Tokens, max : MandateLimits, used : Nat,
     until : Nat, active : BOOLEAN]

PaymentTypeOK ==
    /\ payTime \in 0 .. PayHorizon
    /\ payPaused \in BOOLEAN
    /\ stream \in [Streams -> StreamRecords \cup {NoStream}]
    /\ mandate \in [Mandates -> MandateRecords \cup {NoMandate}]
    /\ payBalance \in [Tokens -> Nat]
    /\ paid \in [Streams -> Nat] /\ refunded \in [Streams -> Nat]
    /\ donated \in [Tokens -> 0 .. MaxStrayed]
    /\ withdrawn \in [Tokens -> 0 .. MaxStrayed]

PaymentInit ==
    /\ payTime = 0
    /\ payPaused = FALSE
    /\ stream = [s \in Streams |-> NoStream]
    /\ mandate = [m \in Mandates |-> NoMandate]
    /\ payBalance = [k \in Tokens |-> 0]
    /\ paid = [s \in Streams |-> 0] /\ refunded = [s \in Streams |-> 0]
    /\ donated = [k \in Tokens |-> 0] /\ withdrawn = [k \in Tokens |-> 0]

payHistory == <<paid, refunded, donated, withdrawn>>

Made == {s \in Streams : stream[s].exists}
MandatesMade == {m \in Mandates : mandate[m].exists}

PayTick ==
    /\ payTime < PayHorizon
    /\ payTime' = payTime + 1
    /\ UNCHANGED <<payPaused, stream, mandate, payBalance, payHistory>>

(***************************************************************************)
(* Money                                                                   *)
(***************************************************************************)
\* The contract sends n of token k: the transaction is reverted if it has
\* less, and an amount of 0 is not sent at all.
Sends(k, n) ==
    /\ payBalance[k] >= n
    /\ payBalance' = [payBalance EXCEPT ![k] = @ - n]

\* What the recipient of stream x has earned by now, rounded down.
Entitled(x) ==
    (x.total * (Min({payTime, x.end}) - x.start)) \div (x.end - x.start)

\* A mutant of Pending: the clock is not clamped to the end.
PendingUnclamped(x) ==
    IF ~x.active \/ x.cancelled THEN 0
    ELSE (x.total * (payTime - x.start)) \div (x.end - x.start) - x.released

\* _calculatePendingAmount
Pending(x) == IF ~x.active \/ x.cancelled THEN 0 ELSE Entitled(x) - x.released

(***************************************************************************)
(* Streams                                                                 *)
(***************************************************************************)
\* createStream and createERC20Stream: the amount comes in with the call;
\* what Ether the sender sent too much goes back.
CreateStream(s, k, amount, duration) ==
    /\ ~payPaused
    /\ ~stream[s].exists
    /\ stream' = [stream EXCEPT ![s] =
            [exists |-> TRUE, token |-> k, total |-> amount, released |-> 0,
             start |-> payTime, end |-> payTime + duration,
             active |-> TRUE, cancelled |-> FALSE]]
    /\ payBalance' = [payBalance EXCEPT ![k] = @ + amount]
    /\ UNCHANGED <<payTime, payPaused, mandate, payHistory>>

WithdrawFromStream(s) ==
    LET pending == Pending(stream[s])
        released == stream[s].released + pending
    IN  /\ ~payPaused
        /\ s \in Made /\ stream[s].active /\ ~stream[s].cancelled
        /\ pending > 0
        /\ stream' = [stream EXCEPT
                ![s].released = released,
                ![s].active = released < stream[s].total /\ payTime < stream[s].end]
        /\ Sends(stream[s].token, pending)
        /\ paid' = [paid EXCEPT ![s] = @ + pending]
        /\ UNCHANGED <<payTime, payPaused, mandate, refunded, donated, withdrawn>>

\* cancelStream, by sender, recipient or owner. The pending amount is that of
\* a stream already marked as ended.
CancelStream(s) ==
    LET ended == [stream[s] EXCEPT !.active = FALSE, !.cancelled = TRUE]
        recipientAmount == Pending(ended)
        senderAmount == ended.total - ended.released - recipientAmount
    IN  /\ ~payPaused
        /\ s \in Made /\ stream[s].active /\ ~stream[s].cancelled
        /\ stream' = [stream EXCEPT ![s] = [ended EXCEPT !.released = ended.total]]
        /\ Sends(ended.token, recipientAmount + senderAmount)
        /\ paid' = [paid EXCEPT ![s] = @ + recipientAmount]
        /\ refunded' = [refunded EXCEPT ![s] = @ + senderAmount]
        /\ UNCHANGED <<payTime, payPaused, mandate, donated, withdrawn>>

(***************************************************************************)
(* Mandates                                                                *)
(***************************************************************************)
CreateMandate(m, k, max, validity) ==
    /\ ~payPaused
    /\ ~mandate[m].exists
    /\ mandate' = [mandate EXCEPT ![m] =
            [exists |-> TRUE, token |-> k, max |-> max, used |-> 0,
             until |-> payTime + validity, active |-> TRUE]]
    /\ UNCHANGED <<payTime, payPaused, stream, payBalance, payHistory>>

RevokeMandate(m) ==
    /\ ~payPaused
    /\ m \in MandatesMade /\ mandate[m].active
    /\ mandate' = [mandate EXCEPT ![m].active = FALSE]
    /\ UNCHANGED <<payTime, payPaused, stream, payBalance, payHistory>>

\* executeFromMandate: a token comes from the payer, Ether from the contract.
ExecuteFromMandate(m, amount) ==
    /\ ~payPaused
    /\ m \in MandatesMade /\ mandate[m].active
    /\ payTime <= mandate[m].until
    /\ mandate[m].used + amount <= mandate[m].max
    /\ mandate' = [mandate EXCEPT ![m].used = @ + amount,
                                  ![m].active = mandate[m].used + amount < mandate[m].max]
    /\ IF mandate[m].token = Ether THEN Sends(Ether, amount) ELSE UNCHANGED payBalance
    /\ UNCHANGED <<payTime, payPaused, stream, payHistory>>

(***************************************************************************)
(* The owner, and Ether that just arrives                                  *)
(***************************************************************************)
PauseOrUnpause ==
    /\ payPaused' = ~payPaused
    /\ UNCHANGED <<payTime, stream, mandate, payBalance, payHistory>>

OverTokens(f) == SumFunctionOnSet(f, Tokens)

EmergencyWithdraw(k, amount) ==
    /\ OverTokens(withdrawn) + amount <= MaxStrayed
    /\ Sends(k, amount)
    /\ withdrawn' = [withdrawn EXCEPT ![k] = @ + amount]
    /\ UNCHANGED <<payTime, payPaused, stream, mandate, paid, refunded, donated>>

\* receive, and tokens transferred to the contract's address.
ReceiveFunds(k, amount) ==
    /\ OverTokens(donated) + amount <= MaxStrayed
    /\ payBalance' = [payBalance EXCEPT ![k] = @ + amount]
    /\ donated' = [donated EXCEPT ![k] = @ + amount]
    /\ UNCHANGED <<payTime, payPaused, stream, mandate, paid, refunded, withdrawn>>

PaymentNext ==
    \/ PayTick \/ PauseOrUnpause
    \/ \E s \in Streams :
          \/ \E k \in Tokens, n \in StreamAmounts, d \in StreamDurations : CreateStream(s, k, n, d)
          \/ WithdrawFromStream(s) \/ CancelStream(s)
    \/ \E m \in Mandates :
          \/ \E k \in Tokens, n \in MandateLimits, d \in MandateValidities : CreateMandate(m, k, n, d)
          \/ RevokeMandate(m)
          \/ \E n \in PayAmounts : ExecuteFromMandate(m, n)
    \/ \E k \in Tokens, n \in PayAmounts : EmergencyWithdraw(k, n) \/ ReceiveFunds(k, n)

PaymentSpec == PaymentInit /\ [][PaymentNext]_paymentVars

(***************************************************************************)
(* Properties                                                              *)
(***************************************************************************)
\* What the contract still owes its streams of a token.
Owed(k) ==
    SumFunctionOnSet([s \in Made |-> stream[s].total - stream[s].released],
                     {s \in Made : stream[s].token = k})

MandatesDrew(k) ==
    IF k # Ether THEN 0
    ELSE SumFunctionOnSet([m \in MandatesMade |-> mandate[m].used],
                          {m \in MandatesMade : mandate[m].token = k})

\* The books of AgentPayment.sol:176-438. Of every token the contract owns
\* exactly what it owes, plus what strayed in, less what left for other
\* reasons: the owner's withdrawals and, in Ether, the mandates, which are
\* paid out of the streams' money. A recipient is never ahead of the clock (so
\* the subtraction that gives the pending amount never underflows), and a
\* stream that has ended has paid out its whole amount to the two parties,
\* whatever the roundings on the way.
StreamsAccounted ==
    /\ \A k \in Tokens :
          payBalance[k] + withdrawn[k] + MandatesDrew(k) = Owed(k) + donated[k]
    /\ \A s \in Made :
          /\ paid[s] <= Entitled(stream[s])
          /\ paid[s] + refunded[s] = stream[s].released
          /\ ~stream[s].active => stream[s].released = stream[s].total
=============================================================================
