----------------------------- MODULE TradeDesk ------------------------------
(***************************************************************************)
(* The workspace's pages of one account at work (live/workspace_live.ex):   *)
(* the trade form, whose operation may be retried under one request key,    *)
(* and the pages that follow what is committed by each other, by order      *)
(* evaluation and by catalog scouting.  A page is a LiveView process with   *)
(* an inbox, and the view the browser has of it.                            *)
(***************************************************************************)
EXTENDS Naturals, Sequences

CONSTANTS
    Pages,      \* the pages the account may have open
    Stock,      \* tokens offered before the first purchase
    NoKey,      \* no request key, attempt, intent, event or error
    MaxDeskActs \* bound on what a person and the evaluation do

ASSUME DeskAssumption ==
    /\ Stock \in Nat /\ MaxDeskActs \in Nat
    /\ NoKey \notin Pages \X Nat /\ NoKey \notin [op : Pages \X Nat, losses : Nat]
    /\ NoKey \notin {"confirmed", "unconfirmed", "rejected", "refused"}

VARIABLES
    store,      \* what is committed: tokens held, the order's state, players found
    recorded,   \* the trades: their request key and terms, and the attempt they came of
    page,       \* the process of each page
    view,       \* what its browser shows
    hints,      \* notifications of a commit that are yet to be broadcast
    lost,       \* a notification was lost, or a recorded trade never had one
    serial,     \* the number of request keys and operations each page has drawn
    journey,    \* who uses the pages: a person or a journey
    stage,      \* the next step of the journey
    deskActs    \* what was done so far, up to MaxDeskActs

deskVars == <<store, recorded, page, view, hints, lost, serial, journey, stage, deskActs>>
usage == <<journey, stage, deskActs>>

Destinations == {"card", "portfolio", "orders", "players"}

\* The part of the store a page shows.
Shown(dest) ==
    CASE dest \in {"card", "portfolio"} -> store.held
      [] dest = "orders" -> store.order
      [] dest = "players" -> store.found

Closed == [life |-> "closed", dest |-> "portfolio", key |-> NoKey, intent |-> NoKey,
           busy |-> NoKey, complete |-> FALSE, error |-> NoKey, shows |-> NoKey, inbox |-> <<>>]

\* attempt is what the person means by a click at this page: an operation, and how
\* often the page was lost since it was first asked for.  The operation is a new one
\* only after a definitive rejection was shown, with "Nueva operación", or when the
\* person has nothing unanswered or gives it up; asked: it was clicked.
NoView == [life |-> "closed", key |-> NoKey, complete |-> FALSE, error |-> NoKey,
           shows |-> NoKey, attempt |-> NoKey, asked |-> FALSE]

DeskInit ==
    /\ store = [held |-> 0, order |-> "none", found |-> "unlisted"]
    /\ recorded = {} /\ hints = {} /\ lost = FALSE /\ serial = [p \in Pages |-> 0]
    /\ page = [p \in Pages |-> Closed] /\ view = [p \in Pages |-> NoView]
    /\ journey = "none" /\ stage = 0 /\ deskActs = 0

\* Request keys and operations: those of a page are its own.
Fresh(p) == <<p, serial[p] + 1>>
Draw(p) == serial' = [serial EXCEPT ![p] = @ + 1]
Anew(p) == [op |-> Fresh(p), losses |-> 0]

-----------------------------------------------------------------------------
(* Notifications *)

Subscribed(p) == page[p].life \in {"joined", "live"}

\* A broadcast of kind k to the subscribed pages among ps.
Told(pages, ps, k) ==
    [p \in Pages |-> IF p \in ps /\ Subscribed(p)
                     THEN [pages[p] EXCEPT !.inbox = Append(@, [kind |-> k])] ELSE pages[p]]

\* OrderNotifications.changed and the broadcast of a finished scout, after the
\* commit: best effort, they may be lost.
Broadcast(k) ==
    /\ k \in hints /\ hints' = hints \ {k}
    /\ page' = Told(page, Pages, k)
    /\ UNCHANGED <<store, recorded, view, lost, serial, usage>>

\* handle_info reloads what the page shows, if the notification concerns it.
Concerns(k, dest) ==
    CASE k = "portfolio" -> dest \in {"card", "portfolio"}
      [] k = "order" -> dest # "players"
      [] k = "found" -> dest = "players"

Hear(p) ==
    /\ page[p].life = "live" /\ page[p].busy = NoKey /\ page[p].inbox # <<>>
    /\ Head(page[p].inbox).kind \in {"portfolio", "order", "found"}
    /\ page' = [page EXCEPT ![p].inbox = Tail(@),
                    ![p].shows = IF Concerns(Head(page[p].inbox).kind, page[p].dest)
                                 THEN Shown(page[p].dest) ELSE @]
    /\ UNCHANGED <<store, recorded, view, hints, lost, serial, usage>>

-----------------------------------------------------------------------------
(* A page's life *)

\* The view is gone.  A person who saw no answer may go on with the operation or
\* give it up; the page does not remember its key for either.
Remembered(p) ==
    IF view[p].life = "live"
    THEN [NoView EXCEPT !.asked = TRUE, !.attempt = [op |-> view[p].attempt.op,
                                                      losses |-> view[p].attempt.losses + 1]]
    ELSE view[p]

Unanswered(p) == view[p].asked /\ ~view[p].complete

LoseView(p) ==
    \/ view' = [view EXCEPT ![p] = NoView]
    \/ Unanswered(p) /\ view' = [view EXCEPT ![p] = Remembered(p)]

\* A page is opened, or takes the place of another outside of a callback.  The
\* first, dead render reads what it shows before anything subscribes.
Open(p, dest) ==
    /\ page[p].life \in {"closed", "live"} /\ page[p].busy = NoKey
    /\ page' = [page EXCEPT ![p] = [Closed EXCEPT !.life = "rendered", !.dest = dest,
                                        !.shows = Shown(dest)]]
    /\ LoseView(p)
    /\ UNCHANGED <<store, recorded, hints, lost, serial>>

\* mount of the connected page: it subscribes, with a key for its first trade.
Join(p) ==
    /\ page[p].life = "rendered"
    /\ page' = [page EXCEPT ![p].life = "joined", ![p].key = Fresh(p)]
    /\ Draw(p)
    /\ UNCHANGED <<store, recorded, view, hints, lost, usage>>

\* A page that keeps what the dead render read.
LoadRendered(p) ==
    /\ page[p].life = "joined"
    /\ page' = [page EXCEPT ![p].life = "live"]
    /\ UNCHANGED <<store, recorded, view, hints, lost, serial, usage>>

\* handle_params reads again, after the subscription.
Load(p) ==
    /\ page[p].life = "joined"
    /\ page' = [page EXCEPT ![p].life = "live", ![p].shows = Shown(page[p].dest)]
    /\ UNCHANGED <<store, recorded, view, hints, lost, serial, usage>>

\* The browser closes the page or loses its connection, outside of a callback.
Leave(p) ==
    /\ page[p].life = "live" /\ page[p].busy = NoKey
    /\ page' = [page EXCEPT ![p] = Closed] /\ LoseView(p)
    /\ UNCHANGED <<store, recorded, hints, lost, serial>>

\* The page's changes reach the browser.
Patch(p) ==
    LET now == page[p]
        rejected == now.error = "rejected" /\ now.key # view[p].key
        new == view[p].attempt = NoKey \/ rejected
    IN  /\ now.life = "live"
        /\ view' = [view EXCEPT ![p] =
               [life |-> "live", key |-> now.key, complete |-> now.complete,
                error |-> now.error, shows |-> now.shows,
                attempt |-> IF new THEN Anew(p) ELSE @.attempt,
                asked |-> IF new THEN FALSE ELSE @.asked]]
        /\ view' # view
        /\ IF new THEN Draw(p) ELSE UNCHANGED serial
        /\ UNCHANGED <<store, recorded, page, hints, lost, usage>>

-----------------------------------------------------------------------------
(* The trade form *)

\* Market.purchase and Market.sale: a request key that has its trade answers
\* with it, whatever changed since.
Recorded(key) == {r \in recorded : r.key = key}

\* A market that checks what is offered, and not what is held.
AffordableToBuy(e) == e.side = "buy" => e.n <= Stock - store.held

Affordable(e) == e.n <= IF e.side = "buy" THEN Stock - store.held ELSE store.held
Held(e) == IF e.side = "buy" THEN store.held + e.n ELSE store.held - e.n
Trade(e) == [key |-> e.key, side |-> e.side, n |-> e.n, attempt |-> e.attempt]

\* What the handler refuses itself: another key, or other terms for the same.
Refusal(p, e) ==
    IF e.key # page[p].key THEN "refused"
    ELSE IF page[p].intent \notin {NoKey, <<e.side, e.n>>} THEN "conflict"
    ELSE NoKey

\* handle_event "trade" up to the answer of the market.  A person's trade may
\* go unconfirmed, whether or not it was recorded, and nobody is told then; a
\* journey's does not.
Begin(p) ==
    LET e == Head(page[p].inbox)
        Handled(error) ==
            page' = [page EXCEPT ![p].inbox = Tail(@), ![p].error = error]
        Answered(outcome) ==
            page' = [page EXCEPT ![p].inbox = Tail(@), ![p].intent = <<e.side, e.n>>,
                         ![p].busy = outcome]
    IN  /\ page[p].life = "live" /\ page[p].busy = NoKey
        /\ page[p].inbox # <<>> /\ e.kind = "trade"
        /\ \/ /\ Refusal(p, e) # NoKey
              /\ Handled(Refusal(p, e)) /\ UNCHANGED <<store, recorded, lost>>
           \/ /\ Refusal(p, e) = NoKey /\ Recorded(e.key) # {}
              /\ Answered("confirmed") /\ UNCHANGED <<store, recorded, lost>>
           \/ /\ Refusal(p, e) = NoKey /\ Recorded(e.key) = {} /\ ~Affordable(e)
              /\ Answered("rejected") /\ UNCHANGED <<store, recorded, lost>>
           \/ /\ Refusal(p, e) = NoKey /\ Recorded(e.key) = {} /\ Affordable(e)
              /\ \/ /\ recorded' = recorded \cup {Trade(e)}
                    /\ store' = [store EXCEPT !.held = Held(e)]
                    /\ \/ Answered("confirmed") /\ UNCHANGED lost
                       \/ journey = "person" /\ Answered("unconfirmed") /\ lost' = TRUE
                 \/ /\ journey = "person" /\ Answered("unconfirmed")
                    /\ UNCHANGED <<store, recorded, lost>>
        /\ UNCHANGED <<view, hints, serial, usage>>

\* A page that takes every error for a rejection.
DefinitiveAny(outcome) == outcome # "confirmed"

\* definitive_rejection?
Definitive(outcome) == outcome = "rejected"

\* trade_result: a confirmation is broadcast to the account's other pages and
\* the page reloads; a definitive rejection ends the operation and its key.
Finish(p) ==
    LET outcome == page[p].busy IN
    /\ outcome # NoKey
    /\ IF outcome = "confirmed" THEN
           /\ page' = [Told(page, Pages \ {p}, "portfolio") EXCEPT
                          ![p].busy = NoKey, ![p].complete = TRUE, ![p].error = NoKey,
                          ![p].shows = Shown(page[p].dest)]
           /\ UNCHANGED serial
       ELSE
           /\ page' = [page EXCEPT ![p].busy = NoKey, ![p].error = outcome,
                          ![p].intent = IF Definitive(outcome) THEN NoKey ELSE @,
                          ![p].key = IF Definitive(outcome) THEN Fresh(p) ELSE @]
           /\ IF Definitive(outcome) THEN Draw(p) ELSE UNCHANGED serial
    /\ UNCHANGED <<store, recorded, view, hints, lost, usage>>

\* handle_event "new_trade": ignored while an operation is unresolved.
Renew(p) ==
    /\ page[p].life = "live" /\ page[p].busy = NoKey
    /\ page[p].inbox # <<>> /\ Head(page[p].inbox).kind = "new_trade"
    /\ IF page[p].intent # NoKey /\ ~page[p].complete THEN
           page' = [page EXCEPT ![p].inbox = Tail(@)] /\ UNCHANGED serial
       ELSE
           /\ page' = [page EXCEPT ![p].inbox = Tail(@), ![p].key = Fresh(p),
                          ![p].intent = NoKey, ![p].complete = FALSE, ![p].error = NoKey]
           /\ Draw(p)
    /\ UNCHANGED <<store, recorded, view, hints, lost, usage>>

PageWork(p) == Join(p) \/ Load(p) \/ Patch(p) \/ Begin(p) \/ Finish(p) \/ Renew(p) \/ Hear(p)

DeskWork == (\E p \in Pages : PageWork(p)) \/ \E k \in {"order", "found"} : Broadcast(k)

-----------------------------------------------------------------------------
(* What is done to the pages *)

Pushed(p, events) == page' = [page EXCEPT ![p].inbox = @ \o events]

\* Buy or sell, n tokens, with as many clicks: the form's key is the view's.
Click(p, side, n, clicks) ==
    /\ view[p].life = "live" /\ page[p].dest = "card"
    /\ Pushed(p, [i \in 1 .. clicks |-> [kind |-> "trade", side |-> side, n |-> n,
                                         key |-> view[p].key, attempt |-> view[p].attempt]])
    /\ view' = [view EXCEPT ![p].asked = TRUE]
    /\ UNCHANGED <<store, recorded, hints, lost, serial>>

\* "Nueva operación", which a complete operation offers.
ClickNew(p) ==
    /\ view[p].complete
    /\ Pushed(p, <<[kind |-> "new_trade"]>>)
    /\ view' = [view EXCEPT ![p].attempt = Anew(p), ![p].asked = FALSE] /\ Draw(p)
    /\ UNCHANGED <<store, recorded, hints, lost>>

\* "Crear orden condicional": the page that creates it reloads its orders.
CreateOrder(p) ==
    /\ view[p].life = "live" /\ page[p].dest = "orders" /\ page[p].busy = NoKey
    /\ store.order = "none" /\ store' = [store EXCEPT !.order = "pending"]
    /\ page' = [page EXCEPT ![p].shows = store'.order]
    /\ UNCHANGED <<recorded, view, hints, lost, serial>>

\* The evaluation executes the order, and a scout publishes its players.
ExecuteOrder ==
    /\ store.order = "pending" /\ store.held = 0
    /\ store' = [store EXCEPT !.order = "executed", !.held = Stock]
    /\ hints' = hints \cup {"order"}
    /\ UNCHANGED <<recorded, page, view, lost, serial>>

Publish ==
    /\ store.found = "unlisted" /\ store' = [store EXCEPT !.found = "listed"]
    /\ hints' = hints \cup {"found"}
    /\ UNCHANGED <<recorded, page, view, lost, serial>>

LoseHint ==
    /\ hints # {} /\ hints' = {} /\ lost' = TRUE
    /\ UNCHANGED <<store, recorded, page, view, serial>>

DeskPerson ==
    /\ journey = "person" /\ deskActs < MaxDeskActs /\ deskActs' = deskActs + 1
    /\ \/ \E p \in Pages : Leave(p) \/ Click(p, "buy", 1, 1) \/ Click(p, "sell", 1, 1)
                             \/ ClickNew(p) \/ CreateOrder(p)
                             \/ Open(p, "card") \/ Open(p, "portfolio")
       \/ ExecuteOrder \/ Publish \/ LoseHint
    /\ UNCHANGED <<journey, stage>>

\* A person has the card of a player on every page but one, or the orders on
\* all of them.
Layouts ==
    {[p \in Pages |-> IF p = other THEN dest ELSE "card"] :
         other \in Pages, dest \in Destinations \ {"card"}} \cup {[p \in Pages |-> "orders"]}

OpenDesk ==
    /\ journey = "none" /\ journey' = "person"
    /\ \E dests \in Layouts :
           page' = [p \in Pages |-> [Closed EXCEPT !.life = "rendered",
                        !.dest = dests[p], !.shows = Shown(dests[p])]]
    /\ view' = [p \in Pages |-> NoView]
    /\ UNCHANGED <<store, recorded, hints, lost, serial, stage, deskActs>>

DeskNext == OpenDesk \/ DeskPerson \/ DeskWork

DeskSpec == DeskInit /\ [][DeskNext]_deskVars

DeskFairness ==
    /\ \A p \in Pages : WF_deskVars(PageWork(p))
    /\ WF_deskVars(\E k \in {"order", "found"} : Broadcast(k))

-----------------------------------------------------------------------------
(* Properties *)

\* What page p has drawn so far, and the attempts at its operations.
Own(p, n) == {p} \X (1 .. n)
Attempts(p, n) == [op : Own(p, n), losses : Nat]

DeskTypeOK ==
    /\ store \in [held : 0 .. Stock, order : {"none", "pending", "executed"},
                 found : {"unlisted", "listed"}]
    /\ \A p \in Pages :
           /\ page[p].life \in {"closed", "rendered", "joined", "live"}
           /\ page[p].dest \in Destinations
           /\ page[p].key \in Own(p, serial[p]) \cup {NoKey}
           /\ page[p].busy \in {NoKey, "confirmed", "unconfirmed", "rejected"}
           /\ page[p].error \in {NoKey, "unconfirmed", "rejected", "refused", "conflict"}
           /\ view[p].attempt \in Attempts(p, serial[p]) \cup {NoKey}
    /\ hints \subseteq {"order", "found"} /\ lost \in BOOLEAN
    /\ deskActs \in 0 .. MaxDeskActs

\* What a person means as one operation is recorded at most once while its page
\* lives, however often it is clicked or retried and whatever answer the market
\* fails to give; and a page that shows it confirmed has its trade
\* (workspace_live.ex:252-262, 379-391).  The exception is a page that was lost
\* before it showed the answer: the one mounted after it has another key (line 41),
\* and a retry there may record the operation once more for each such loss.
AttemptOnce ==
    /\ \A r, s \in recorded : r.attempt = s.attempt => r = s
    /\ \A p \in Pages : view[p].complete /\ view[p].attempt # NoKey =>
           \E r \in recorded : r.key = view[p].key

\* A page shows what is committed, but for an order another page created:
\* handle_event "create_order" tells nobody.
Current(p) ==
    \/ page[p].shows = Shown(page[p].dest)
    \/ page[p].dest = "orders" /\ page[p].shows = "none" /\ store.order = "pending"

\* A connected page that has heard everything is current: nothing falls
\* between its two readings and its subscription, or between a commit and its
\* notification, unless the notification itself was lost.
QuietPagesAreCurrent ==
    hints = {} /\ ~lost /\ (\A p \in Pages : page[p].busy = NoKey) =>
        \A p \in Pages : page[p].life = "live" /\ page[p].inbox = <<>> => Current(p)

-----------------------------------------------------------------------------
(* What the theorems of TradeDeskProofs rest on *)

Drawn == (Pages \X Nat) \cup {NoKey}
Outcomes == {NoKey, "confirmed", "unconfirmed", "rejected"}
Errors == {NoKey, "unconfirmed", "rejected", "refused", "conflict"}
Contents == Nat \cup {NoKey, "none", "pending", "executed", "unlisted", "listed"}
Events ==
    [kind : {"trade"}, side : {"buy", "sell"}, n : Nat, key : Pages \X Nat,
     attempt : [op : Pages \X Nat, losses : Nat]]
      \cup [kind : {"new_trade", "portfolio", "order", "found"}]
Processes ==
    [life : {"closed", "rendered", "joined", "live"}, dest : Destinations, key : Drawn,
     intent : ({"buy", "sell"} \X Nat) \cup {NoKey}, busy : Outcomes, complete : BOOLEAN,
     error : Errors, shows : Contents, inbox : Seq(Events)]
Views ==
    [life : {"closed", "live"}, key : Drawn, complete : BOOLEAN, error : Errors,
     shows : Contents, attempt : [op : Pages \X Nat, losses : Nat] \cup {NoKey},
     asked : BOOLEAN]

\* Every value has its type.
Typed ==
    /\ store \in [held : 0 .. Stock, order : {"none", "pending", "executed"},
                 found : {"unlisted", "listed"}]
    /\ page \in [Pages -> Processes] /\ view \in [Pages -> Views] /\ serial \in [Pages -> Nat]
    /\ hints \subseteq {"order", "found"} /\ lost \in BOOLEAN
    /\ deskActs \in 0 .. MaxDeskActs

\* A trade was recorded by one of the pages.
Owned == \A r \in recorded : \E p \in Pages :
    r.key \in Own(p, serial[p]) /\ r.attempt \in Attempts(p, serial[p])

IsTrade(e) == e.kind = "trade"
Done(key, trades) == \E r \in trades : r.key = key

\* A page g with the view w of it, after n draws: keys and attempts are its
\* own, those of the clicks it has to handle too.
OwnDraws(p, g, w, n) ==
    /\ g.key \in Own(p, n) \cup {NoKey} /\ w.attempt \in Attempts(p, n) \cup {NoKey}
    /\ g.life \in {"joined", "live"} => g.key \in Own(p, n)
    /\ g.life # "live" => g.busy = NoKey /\ ~g.complete /\ w.life # "live"
    /\ w.life = "live" => w.attempt # NoKey /\ w.key \in Own(p, n)
    /\ w.life # "live" => ~w.complete
OwnClicks(p, g, n) ==
    \A i \in 1 .. Len(g.inbox) : IsTrade(g.inbox[i]) =>
        g.inbox[i].key \in Own(p, n) /\ g.inbox[i].attempt \in Attempts(p, n)

\* Every attempt at the operation on display was made before the latest loss of
\* the page, or is the one on display.
Behind(a, w) ==
    w.attempt # NoKey /\ a.op = w.attempt.op =>
        a.losses < w.attempt.losses \/ (w.life = "live" /\ a.losses = w.attempt.losses)
Lagging(g, w, trades) ==
    /\ \A r \in trades : Behind(r.attempt, w)
    /\ \A i \in 1 .. Len(g.inbox) : IsTrade(g.inbox[i]) => Behind(g.inbox[i].attempt, w)

\* What it takes and shows for done and rejected is so by the trades.
Truthful(g, w, trades) ==
    /\ g.busy = "rejected" => ~Done(g.key, trades)
    /\ g.busy = "confirmed" \/ g.complete => Done(g.key, trades)
    /\ w.complete => Done(w.key, trades)

\* The attempt on display is recorded under the page's key if at all, and
\* then nothing will renew that key.
DisplayedOnce(g, w, trades) ==
    \A r \in trades : r.attempt = w.attempt =>
        r.key = g.key /\ \A i \in 1 .. Len(g.inbox) : g.inbox[i].kind # "new_trade"

\* A click that is yet to be handled under the page's key does not repeat an
\* attempt recorded under another; one before a renewal is not on display.
ClickedOnce(g, trades) ==
    \A r \in trades, i \in 1 .. Len(g.inbox) :
        IsTrade(g.inbox[i]) /\ g.inbox[i].key = g.key /\ g.inbox[i].attempt = r.attempt
            => r.key = g.key
RenewedLast(g, w) ==
    \A i, j \in 1 .. Len(g.inbox) :
        i < j /\ IsTrade(g.inbox[i]) /\ g.inbox[j].kind = "new_trade"
            => g.inbox[i].attempt # w.attempt

Sound(p, g, w, n, trades) ==
    /\ OwnDraws(p, g, w, n) /\ OwnClicks(p, g, n)
    /\ Truthful(g, w, trades) /\ DisplayedOnce(g, w, trades)
    /\ ClickedOnce(g, trades) /\ RenewedLast(g, w) /\ Lagging(g, w, trades)

AllSound == \A p \in Pages : Sound(p, page[p], view[p], serial[p], recorded)

DeskInv == Typed /\ Owned /\ AllSound /\ \A r, s \in recorded : r.attempt = s.attempt => r = s

\* Among the messages of process g, one makes it reload what it shows.
Notified(g) == \E i \in 1 .. Len(g.inbox) :
    g.inbox[i].kind \in {"portfolio", "order", "found"} /\ Concerns(g.inbox[i].kind, g.dest)

\* A live page is current, or something is on its way that will make it so.
Pending(p) ==
    \/ Current(p) \/ lost \/ Notified(page[p])
    \/ \E k \in hints : Concerns(k, page[p].dest)
    \/ \E q \in Pages :
           page[q].busy = "confirmed" /\ (q = p \/ Concerns("portfolio", page[p].dest))

Followed == \A p \in Pages : page[p].life = "live" => Pending(p)

=============================================================================
