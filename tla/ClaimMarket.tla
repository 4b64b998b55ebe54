---------------------------- MODULE ClaimMarket ----------------------------
(***************************************************************************)
(* The receivable market: contracts/src/ClaimMarket.sol.  The provider of  *)
(* a submitted job sells its future payout; the buyer becomes the payee.   *)
(* The sale price moves straight from buyer to seller, so the market holds *)
(* no tokens.  PolicyRegistry's buyer list is here because only this       *)
(* market reads it.                                                        *)
(***************************************************************************)
EXTENDS KeeperEvaluator

CONSTANTS
    Buyers,        \* accounts that may try to buy
    BuyerLists,    \* the sets a client may approve as buyers
    Prices,
    MarketHooks    \* the hooks whose payoutMarket() is this market

ASSUME MarketAssumption ==
    /\ Buyers \subseteq Accounts
    /\ BuyerLists \subseteq SUBSET Buyers
    /\ Prices \subseteq Nat
    /\ MarketHooks \subseteq ResolvingHooks

VARIABLES
    listings,      \* _listings
    buyerRoots     \* PolicyRegistry._buyerRoot, as the set it commits to

marketVars == <<listings, buyerRoots>>

NoListing == [status |-> "None", seller |-> NoAccount, buyer |-> NoAccount, price |-> 0, faceValue |-> 0]

MarketInit ==
    /\ listings = [j \in Jobs |-> NoListing]
    /\ buyerRoots = [c \in Clients |-> {}]

LiveJob(j) ==
    /\ jobs[j].status = "Submitted"
    /\ jobs[j].evaluator = KE
    /\ ~IsDisputed(j)
    /\ jobs[j].hookResolvesPayout
    /\ jobs[j].hook \in MarketHooks

PayeeOf(j) == IF listings[j].status = "Sold" THEN listings[j].buyer ELSE jobs[j].provider

List(j, caller, price) ==
    /\ LiveJob(j)
    /\ caller = jobs[j].provider
    /\ listings[j].status \notin {"Listed", "Sold"}
    /\ 0 < price /\ price < NetPayout(j)
    /\ listings' = [listings EXCEPT ![j] = [status |-> "Listed", seller |-> caller,
                      buyer |-> NoAccount, price |-> price, faceValue |-> NetPayout(j)]]
    /\ UNCHANGED <<vars, keeperVars, buyerRoots>>

(* Faulty: a listing can be bought after its job is settled.                *)
BuyAnytime(j, caller, expectedPrice) ==
    /\ listings[j].status = "Listed"
    /\ listings[j].price = expectedPrice
    /\ caller \notin {listings[j].seller, jobs[j].provider, jobs[j].client}
    /\ caller \in buyerRoots[jobs[j].client]
    /\ listings' = [listings EXCEPT ![j].status = "Sold", ![j].buyer = caller]
    /\ UNCHANGED <<vars, keeperVars, buyerRoots>>

Buy(j, caller, expectedPrice) ==
    /\ listings[j].status = "Listed"
    /\ listings[j].price = expectedPrice
    /\ LiveJob(j)
    /\ caller \notin {listings[j].seller, jobs[j].provider, jobs[j].client}
    /\ caller \in buyerRoots[jobs[j].client]
    /\ listings' = [listings EXCEPT ![j].status = "Sold", ![j].buyer = caller]
    /\ UNCHANGED <<vars, keeperVars, buyerRoots>>

Cancel(j, caller) ==
    /\ listings[j].status = "Listed"
    /\ caller = listings[j].seller
    /\ listings' = [listings EXCEPT ![j].status = "Cancelled"]
    /\ UNCHANGED <<vars, keeperVars, buyerRoots>>

SetBuyerRoot(client, approved) ==
    /\ buyerRoots' = [buyerRoots EXCEPT ![client] = approved]
    /\ UNCHANGED <<vars, keeperVars, listings>>
=============================================================================
