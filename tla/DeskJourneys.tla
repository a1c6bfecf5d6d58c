---------------------------- MODULE DeskJourneys ----------------------------
(***************************************************************************)
(* The acceptance journeys that trade and follow what others commit         *)
(* (tools/openapi/e2e_market.mjs, e2e_market_reconnect.mjs and              *)
(* e2e_catalog_scouting.mjs), run against the pages of module TradeDesk.    *)
(***************************************************************************)
EXTENDS TradeDesk

ASSUME DeskJourneyAssumption == Pages = {"page", "portfolio"} /\ Stock = 3

Act(do, p, of) == <<[do |-> do, page |-> p, of |-> of]>>

\* page.goto, reload or a link to another destination, until it is connected.
Visit(p, dest) == Act("visit", p, dest) \o Act("await", p, [life |-> "live"])
Order(p, side, n, clicks) == Act("click", p, [side |-> side, n |-> n, clicks |-> clicks])
SeeView(p, fields) == Act("see", p, fields)
AwaitView(p, fields) == Act("await", p, fields)
AwaitError(p) == Act("error", p, NoKey)

\* e2e_market.mjs: a rejected purchase, a double click, a rejected sale, a
\* reload, and a sale.
RejectedThenCorrected ==
    Visit("page", "card")
    \o Order("page", "buy", 101, 1) \o AwaitError("page")
    \o Order("page", "buy", 1, 2) \o AwaitView("page", [complete |-> TRUE])
    \o SeeView("page", [shows |-> 1])
    \o Act("new", "page", NoKey)
    \o Order("page", "sell", 2, 1) \o AwaitError("page")
    \o Order("page", "sell", 1, 1) \o AwaitView("page", [complete |-> TRUE])
    \o Visit("page", "card")

\* An order is created on one page and seen executed on two.
CreatedOrder == Visit("page", "orders") \o Act("create", "page", NoKey)

OrderExecuted ==
    CreatedOrder \o Visit("portfolio", "portfolio") \o SeeView("portfolio", [shows |-> 0])
    \o Act("execute", "page", NoKey)
    \o AwaitView("portfolio", [shows |-> 3]) \o AwaitView("page", [shows |-> "executed"])

\* A sale on one page reaches the portfolio on the other.
SaleFollowed ==
    Visit("portfolio", "card") \o Visit("portfolio", "portfolio")
    \o Visit("page", "card")
    \o Order("page", "sell", 1, 1) \o AwaitView("page", [complete |-> TRUE])
    \o SeeView("page", [shows |-> 2])
    \o AwaitView("portfolio", [shows |-> 2])

\* e2e_market_reconnect.mjs: the order is executed while the page is offline.
Reconnected ==
    Visit("page", "card") \o CreatedOrder
    \o Act("offline", "page", NoKey) \o Act("execute", "page", NoKey)
    \o Visit("page", "orders") \o SeeView("page", [shows |-> "executed"])
    \o Visit("page", "orders") \o SeeView("page", [shows |-> "executed"])
    \o Visit("page", "portfolio") \o SeeView("page", [shows |-> 3])
    \o Visit("page", "portfolio") \o SeeView("page", [shows |-> 3])

\* e2e_catalog_scouting.mjs: the search waits for the publication.
Scouted ==
    Visit("page", "players") \o SeeView("page", [shows |-> "unlisted"])
    \o Act("publish", "page", NoKey) \o AwaitView("page", [shows |-> "listed"])

DeskScript ==
    [market |-> RejectedThenCorrected \o OrderExecuted \o SaleFollowed,
     reconnect |-> Reconnected,
     scouting |-> Scouted]

-----------------------------------------------------------------------------

Agrees(p, fields) == \A f \in DOMAIN fields : view[p][f] = fields[f]

Looking == UNCHANGED <<store, recorded, page, view, hints, lost, serial>>

DeskJourneyStep ==
    /\ journey \in DOMAIN DeskScript /\ stage \in DOMAIN DeskScript[journey]
    /\ LET s == DeskScript[journey][stage] IN
       /\ \/ s.do = "visit" /\ Open(s.page, s.of)
          \/ s.do = "click" /\ Click(s.page, s.of.side, s.of.n, s.of.clicks)
          \/ s.do = "new" /\ ClickNew(s.page)
          \/ s.do = "create" /\ CreateOrder(s.page)
          \/ s.do = "offline" /\ Leave(s.page)
          \/ s.do = "execute" /\ ExecuteOrder
          \/ s.do = "publish" /\ Publish
          \/ s.do = "await" /\ Agrees(s.page, s.of) /\ Looking
          \/ s.do = "error" /\ view[s.page].error # NoKey /\ Looking
          \/ s.do = "see" /\ Looking
       /\ journey' = IF s.do = "see" /\ ~Agrees(s.page, s.of) THEN "failed" ELSE journey
    /\ stage' = stage + 1
    /\ UNCHANGED deskActs

StartDeskJourney ==
    /\ journey = "none" /\ journey' \in DOMAIN DeskScript /\ stage' = 1
    /\ UNCHANGED <<store, recorded, page, view, hints, lost, serial, deskActs>>

DeskJourneyDone == journey \in DOMAIN DeskScript /\ stage > Len(DeskScript[journey])

\* Every journey gets to its end: a double click buys once, a corrected trade
\* goes through, and each page comes to show what was committed elsewhere.
DeskJourneysEnd == stage = 1 ~> DeskJourneyDone

=============================================================================
