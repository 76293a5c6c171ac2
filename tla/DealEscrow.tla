---------------------------- MODULE DealEscrow ----------------------------
(***************************************************************************)
(* Deals between agents: the marketplace (src/contracts/src/a2a/           *)
(* A2ACommerce.sol) and the escrow that holds the money of its deals       *)
(* (DealEscrow.sol). A transaction is one step, across both contracts; one *)
(* that a requirement or a transfer reverts changes nothing. Listings are  *)
(* reduced to the prices deals are made at; the timelocked setters do what *)
(* the direct ones do, later. completeDeal is not here: it asks for a      *)
(* status, InProgress or Delivered, that nothing ever sets.                *)
(***************************************************************************)
EXTENDS Naturals, FiniteSets, Functions

CONSTANTS
    Deals,          \* deal ids, of the marketplace and of others
    DealTokens,     \* ERC20 tokens and Ether
    Native,         \* address(0): Ether
    DealPrices,     \* prices of listings; updateService accepts 0 too
    EscrowFees,     \* platformFeeBps of the escrow,
    InitialFee,     \* and what initialize sets it to
    SellerAmounts,  \* what releaseEscrow may be told to pay
    DealLifetimes,  \* from the making of a deal to expiresAt
    DealHorizon     \* bound: the last block time

ASSUME EscrowAssumption ==
    /\ IsFiniteSet(Deals)
    /\ Native \in DealTokens
    /\ DealPrices \subseteq Nat /\ SellerAmounts \subseteq Nat
    /\ EscrowFees \subseteq 0 .. 500        \* MAX_PLATFORM_FEE
    /\ InitialFee \in EscrowFees
    /\ DealLifetimes \subseteq Nat \ {0} /\ DealHorizon \in Nat

VARIABLES
    dealTime,       \* block.timestamp
    dealPaused,     \* Pausable, of the marketplace
    deal,           \* deals of the marketplace
    escrow,         \* escrows, by the deal each belongs to: processedDeals allows one
    commerceSet,    \* a2aCommerce is the marketplace, not another address
    escrowFee,      \* platformFeeBps
    escrowHas,      \* what the escrow owns of each token
    commerceHas,    \* what the marketplace owns of each token
    paidOut         \* history: what left the escrow on account of each deal

escrowVars == <<dealTime, dealPaused, deal, escrow, commerceSet, escrowFee, escrowHas,
                commerceHas, paidOut>>

NoDeal == [status |-> "none"]
NoEscrow == [token |-> "none"]

DealRecords ==
    [status : {"Pending", "Funded", "Cancelled"}, price : DealPrices, token : DealTokens,
     expires : Nat]
EscrowRecords ==
    [token : DealTokens, amount : Nat, fee : Nat, released : BOOLEAN, refunded : BOOLEAN]

EscrowTypeOK ==
    /\ dealTime \in 0 .. DealHorizon
    /\ dealPaused \in BOOLEAN /\ commerceSet \in BOOLEAN
    /\ deal \in [Deals -> DealRecords \cup {NoDeal}]
    /\ escrow \in [Deals -> EscrowRecords \cup {NoEscrow}]
    /\ escrowFee \in EscrowFees
    /\ escrowHas \in [DealTokens -> Nat] /\ commerceHas \in [DealTokens -> Nat]
    /\ paidOut \in [Deals -> Nat]

EscrowInit ==
    /\ dealTime = 0
    /\ dealPaused = FALSE /\ commerceSet = TRUE
    /\ deal = [d \in Deals |-> NoDeal]
    /\ escrow = [d \in Deals |-> NoEscrow]
    /\ escrowFee = InitialFee
    /\ escrowHas = [k \in DealTokens |-> 0] /\ commerceHas = [k \in DealTokens |-> 0]
    /\ paidOut = [d \in Deals |-> 0]

(***************************************************************************)
(* What the escrow does when it is called                                  *)
(***************************************************************************)
Escrowed == {d \in Deals : escrow[d] # NoEscrow}

\* A mutant of Open: one of the two flags is not looked at.
OpenUnlessRefunded(d) == d \in Escrowed /\ ~escrow[d].refunded

Open(d) == d \in Escrowed /\ ~escrow[d].released /\ ~escrow[d].refunded

\* createEscrow: in Ether the call brings the money, of a token the escrow
\* takes it from the buyer. The fee is set aside, rounded down.
CreateEscrow(d, k, n) ==
    LET fee == (n * escrowFee) \div 10000 IN
    /\ d \notin Escrowed
    /\ n > 0
    /\ escrow' = [escrow EXCEPT ![d] =
            [token |-> k, amount |-> n - fee, fee |-> fee, released |-> FALSE, refunded |-> FALSE]]
    /\ escrowHas' = [escrowHas EXCEPT ![k] = @ + n]

\* The transfers of a release or a refund.
EscrowPays(d, n) ==
    /\ escrowHas[escrow[d].token] >= n
    /\ escrowHas' = [escrowHas EXCEPT ![escrow[d].token] = @ - n]
    /\ paidOut' = [paidOut EXCEPT ![d] = @ + n]

\* refundEscrow and emergencyRefund: the buyer gets the amount and the fee.
RefundEscrow(d) ==
    /\ Open(d)
    /\ escrow' = [escrow EXCEPT ![d].refunded = TRUE]
    /\ EscrowPays(d, escrow[d].amount + escrow[d].fee)

\* What a release pays the seller: nothing asked for means all but the fee,
\* which the amount no longer contains.
ForSeller(d, n) == IF n > 0 THEN n ELSE escrow[d].amount - escrow[d].fee

(***************************************************************************)
(* Transactions                                                            *)
(***************************************************************************)
DealTick ==
    /\ dealTime < DealHorizon
    /\ dealTime' = dealTime + 1
    /\ UNCHANGED <<dealPaused, deal, escrow, commerceSet, escrowFee, escrowHas, commerceHas, paidOut>>

CreateDeal(d, price, k, lifetime) ==
    /\ ~dealPaused
    /\ deal[d] = NoDeal /\ d \notin Escrowed    \* ids are hashes nobody else has used
    /\ deal' = [deal EXCEPT ![d] = [status |-> "Pending", price |-> price, token |-> k,
                                    expires |-> dealTime + lifetime]]
    /\ UNCHANGED <<dealTime, dealPaused, escrow, commerceSet, escrowFee, escrowHas, commerceHas, paidOut>>

\* Whoever funds a deal in a token pays its price to the marketplace, and then
\* the escrow takes it from the buyer.
FundDeal(d) ==
    /\ ~dealPaused
    /\ deal[d].status = "Pending" /\ dealTime < deal[d].expires
    /\ commerceSet
    /\ CreateEscrow(d, deal[d].token, deal[d].price)
    /\ commerceHas' = IF deal[d].token = Native THEN commerceHas
                      ELSE [commerceHas EXCEPT ![deal[d].token] = @ + deal[d].price]
    /\ deal' = [deal EXCEPT ![d].status = "Funded"]
    /\ UNCHANGED <<dealTime, dealPaused, commerceSet, escrowFee, paidOut>>

CancelPending(d) ==
    /\ deal[d].status = "Pending"
    /\ deal' = [deal EXCEPT ![d].status = "Cancelled"]
    /\ UNCHANGED <<dealTime, dealPaused, escrow, commerceSet, escrowFee, escrowHas, commerceHas, paidOut>>

\* By the buyer, the seller or the owner; the marketplace asks the escrow.
CancelFunded(d) ==
    /\ deal[d].status = "Funded"
    /\ commerceSet
    /\ RefundEscrow(d)
    /\ deal' = [deal EXCEPT ![d].status = "Cancelled"]
    /\ UNCHANGED <<dealTime, dealPaused, commerceSet, escrowFee, commerceHas>>

\* The seller refunds at any time and the owner with emergencyRefund: nobody
\* tells the marketplace.
RefundDirectly(d) ==
    /\ RefundEscrow(d)
    /\ UNCHANGED <<dealTime, dealPaused, deal, commerceSet, escrowFee, commerceHas>>

\* Another address in the place of the marketplace makes escrows of its own,
OtherCreates(d, k, n) ==
    /\ ~commerceSet
    /\ deal[d] = NoDeal
    /\ CreateEscrow(d, k, n)
    /\ UNCHANGED <<dealTime, dealPaused, deal, commerceSet, escrowFee, commerceHas, paidOut>>

\* and releases any. The rest of the amount stays where it is.
OtherReleases(d, n) ==
    /\ ~commerceSet
    /\ Open(d)
    /\ n <= escrow[d].amount
    /\ escrow' = [escrow EXCEPT ![d].released = TRUE]
    /\ EscrowPays(d, ForSeller(d, n) + escrow[d].fee)
    /\ UNCHANGED <<dealTime, dealPaused, deal, commerceSet, escrowFee, commerceHas>>

SetA2ACommerce ==
    /\ commerceSet' = ~commerceSet
    /\ UNCHANGED <<dealTime, dealPaused, deal, escrow, escrowFee, escrowHas, commerceHas, paidOut>>

SetPlatformFee(f) ==
    /\ escrowFee' = f
    /\ UNCHANGED <<dealTime, dealPaused, deal, escrow, commerceSet, escrowHas, commerceHas, paidOut>>

PauseOrUnpauseDeals ==
    /\ dealPaused' = ~dealPaused
    /\ UNCHANGED <<dealTime, deal, escrow, commerceSet, escrowFee, escrowHas, commerceHas, paidOut>>

\* emergencyWithdraw of the marketplace; the escrow has none.
WithdrawCommerce(k) ==
    /\ \E n \in {m \in DealPrices : 0 < m /\ m <= commerceHas[k]} :
          commerceHas' = [commerceHas EXCEPT ![k] = @ - n]
    /\ UNCHANGED <<dealTime, dealPaused, deal, escrow, commerceSet, escrowFee, escrowHas, paidOut>>

EscrowNext ==
    \/ DealTick \/ SetA2ACommerce \/ PauseOrUnpauseDeals
    \/ \E f \in EscrowFees : SetPlatformFee(f)
    \/ \E k \in DealTokens : WithdrawCommerce(k)
    \/ \E d \in Deals :
          \/ \E k \in DealTokens, p \in DealPrices :
                \/ \E l \in DealLifetimes : CreateDeal(d, p, k, l)
                \/ OtherCreates(d, k, p)
          \/ FundDeal(d) \/ CancelPending(d) \/ CancelFunded(d) \/ RefundDirectly(d)
          \/ \E n \in SellerAmounts : OtherReleases(d, n)

EscrowSpec == EscrowInit /\ [][EscrowNext]_escrowVars

(***************************************************************************)
(* Properties                                                              *)
(***************************************************************************)
Held(d) == escrow[d].amount + escrow[d].fee

\* The escrow owns what it took in for each deal less what it paid out for it,
\* and that is exactly the whole of an open one, nothing of a refunded one, and
\* of a released one what the caller did not ask for: no order of releases,
\* cancellations, direct refunds and changes of fee or of marketplace pays a
\* deal out of another's money (DealEscrow.sol:133-325; the invariants that
\* contracts/test/invariant/Invariant.t.sol:119-140 leave to review).
EscrowCovered ==
    /\ \A k \in DealTokens :
          escrowHas[k] = SumFunctionOnSet([d \in Escrowed |-> Held(d) - paidOut[d]],
                                          {d \in Escrowed : escrow[d].token = k})
    /\ \A d \in Escrowed :
          /\ Open(d) => paidOut[d] = 0
          /\ escrow[d].refunded => paidOut[d] = Held(d) /\ ~escrow[d].released
          /\ paidOut[d] <= Held(d)

\* A deal is worth its price in the escrow from its funding on, whatever the
\* fee became since; cancelled, it has been repaid. The marketplace itself never
\* owns Ether, and of a token no more than was paid to it by those who funded
\* deals (A2ACommerce.sol:155-230).
DealsBacked ==
    /\ \A d \in Deals :
          /\ deal[d].status = "Pending" => d \notin Escrowed
          /\ deal[d].status = "Funded" =>
                d \in Escrowed /\ Held(d) = deal[d].price /\ escrow[d].token = deal[d].token
          /\ deal[d].status = "Cancelled" /\ d \in Escrowed => escrow[d].refunded
    /\ commerceHas[Native] = 0
    /\ \A k \in DealTokens :
          commerceHas[k] <= SumFunctionOnSet([d \in Escrowed |-> Held(d)],
                              {d \in Escrowed : deal[d] # NoDeal /\ deal[d].token = k})

\* Every deal's money is where the deal says it is.
DealsCovered == EscrowCovered /\ DealsBacked
=============================================================================
