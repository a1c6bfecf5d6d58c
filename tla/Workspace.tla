----------------------------- MODULE Workspace ------------------------------
(***************************************************************************)
(* Browser sessions and the private workspace: the sign-in controller and   *)
(* its plugs, the LiveView guard, and the page's side of it                 *)
(* (assets/js/workspace_session.js and app.js), in two tabs that share one  *)
(* cookie.  A request is answered when it is sent; its answer, with the     *)
(* cookie it sets, arrives later, or never.                                 *)
(***************************************************************************)
EXTENDS Naturals, Sequences, FiniteSets

CONSTANTS
    Handles,        \* browser sessions, by their handle
    Tokens,         \* CSRF tokens
    None,           \* no handle, token, account, address or message
    MaxActs         \* bound on what a person does

VARIABLES
    row,            \* browser_sessions: the account and state of each handle
    address,        \* the e-mail address of each account
    failure,        \* what is unavailable: "none", "revoke" or "all"
    online,         \* the browser has a network
    cookie,         \* the session cookie: the handle and the CSRF token in it
    doc,            \* the document of each tab
    request,        \* the navigation each tab has under way, or None
    previous,       \* the history entry before the document, or None
    replayed,       \* an event queued before a loss of connection was sent after it
    script,         \* who uses the browser: a person or a journey
    at,             \* the next step of the journey
    acts            \* what the person did so far, up to MaxActs

serverVars == <<row, address, failure>>
browserVars == <<online, cookie, doc, request, previous, replayed>>
userVars == <<script, at, acts>>
workspaceVars == <<serverVars, browserVars, userVars>>

Tabs == {"page", "tab"}
Accounts == {"first", "second"}
ASSUME WorkspaceAssumption == None \notin Handles \cup Tokens \cup Accounts \cup {"changed"}

\* Handles and tokens are random and a fresh one can always be drawn: there are
\* more than two tabs and their cookies ever hold.
ASSUME FreshAssumption ==
    /\ MaxActs \in Nat
    /\ \A S \in {Handles, Tokens} : IsFiniteSet(S) => Cardinality(S) > 7

\* Where a navigation goes: the sign-in page, with the destination it returns
\* to, or a page of the workspace.
SignInPage(path, ended) == [page |-> "sign_in", path |-> path, ended |-> ended]
Private(path) == [page |-> "private", path |-> path, ended |-> FALSE]

\* BrowserAuth.destination: a return to anywhere else goes to the portfolio.
Destination(path) == IF path \in {"portfolio", "orders"} THEN path ELSE "portfolio"

NoCookie == [handle |-> None, csrf |-> None]

\* page is what the document displays, email the account's address if it is
\* visible, session what the LiveView process of a live socket was mounted with.
Blank == [url |-> Private("portfolio"), page |-> "blank", email |-> None, message |-> None,
          token |-> None, socket |-> "none", session |-> None, recovery |-> "no",
          queued |-> FALSE, restored |-> FALSE]

-----------------------------------------------------------------------------
(* The server.  Each answer has a status, the session table and the cookie   *)
(* it leaves, and a redirect or a document.                                  *)

\* Identities nobody holds stand for fresh ones.
Carried == {cookie} \cup UNION {request[t].set : t \in {u \in Tabs : request[u] # None}}
FreshHandle ==
    CHOOSE h \in Handles : h \notin {c.handle : c \in Carried} \cup {doc[t].session : t \in Tabs}
FreshToken ==
    CHOOSE k \in Tokens : k \notin {c.csrf : c \in Carried} \cup {doc[t].token : t \in Tabs}
        \cup {request[t].doc.token : t \in {u \in Tabs : request[u] # None}}

Unavailable == failure = "all"
Live(h) == h # None /\ row[h].state = "authenticated"

Redirect(c, rows, url) ==
    [status |-> 303, to |-> url, cookie |-> c, row |-> rows, doc |-> Blank]

\* A page without layout: nothing in it asks for a token.
Plain(status, c, page, url) ==
    [status |-> status, to |-> None, cookie |-> c, row |-> row,
     doc |-> [Blank EXCEPT !.page = page, !.url = url]]

\* A page in the root layout: its meta tag puts a token into the session.
Rendered(status, c, rows, page, url, message) ==
    LET k == IF c.csrf = None THEN FreshToken ELSE c.csrf
    IN  [status |-> status, to |-> None, cookie |-> [c EXCEPT !.csrf = k], row |-> rows,
         doc |-> [Blank EXCEPT !.page = page, !.url = url, !.message = message, !.token = k]]

Form(status, c, url, message) == Rendered(status, c, row, "form", url, message)

NewAnonymous(status, c, url, message) ==
    LET h == FreshHandle
    IN  Rendered(status, [c EXCEPT !.handle = h],
                 [row EXCEPT ![h] = [user |-> None, state |-> "anonymous"]], "form", url, message)

\* SessionController.new
GetSignIn(c, url) ==
    IF Unavailable THEN Form(503, c, url, "unavailable")
    ELSE IF Live(c.handle) THEN Redirect(c, row, Private(Destination(url.path)))
    ELSE NewAnonymous(200, c, url, IF url.ended THEN "ended" ELSE None)

\* Plugs.BrowserAuth before a page of the workspace.
GetPrivate(c, url) ==
    IF Unavailable THEN Plain(503, c, "unavailable", url)
    ELSE IF Live(c.handle) THEN
        LET page == Rendered(200, c, row, "private", url, None)
        IN  [page EXCEPT !.doc.email = address[row[c.handle].user], !.doc.socket = "joining"]
    ELSE Redirect(c, row, SignInPage(Destination(url.path), TRUE))

Get(c, url) == IF url.page = "sign_in" THEN GetSignIn(c, url) ELSE GetPrivate(c, url)

\* protect_from_forgery, and BrowserOrigin for a post from elsewhere.
Accepted(c, post) == ~post.foreign /\ post.token # None /\ post.token = c.csrf

\* authenticate_locked: an anonymous session is good for one sign-in.
Authenticable(h) == h # None /\ row[h].state = "anonymous"

\* SessionController.create
PostSignIn(c, post) ==
    LET url == SignInPage(post.path, FALSE)
        h == FreshHandle
    IN  IF ~Accepted(c, post) THEN Plain(403, c, "denied", url)
        ELSE IF Unavailable THEN Form(503, c, url, "unavailable")
        ELSE IF Live(c.handle) THEN Redirect(c, row, Private(Destination(post.path)))
        ELSE IF ~post.right THEN Form(422, c, url, "invalid")
        ELSE IF Authenticable(c.handle) THEN
            Redirect([handle |-> h, csrf |-> None],
                     [row EXCEPT ![c.handle].state = "ended",
                                 ![h] = [user |-> post.who, state |-> "authenticated"]],
                     Private(Destination(post.path)))
        ELSE NewAnonymous(422, c, url, "expired")

\* SessionController.delete
PostSignOut(c, post) ==
    IF ~Accepted(c, post) THEN Plain(403, c, "denied", Private("portfolio"))
    ELSE IF failure # "none" THEN
        Rendered(503, c, row, "sign_out_failed", Private("portfolio"), "retry")
    ELSE Redirect(NoCookie,
                  [h \in Handles |-> IF h = c.handle THEN [row[h] EXCEPT !.state = "ended"]
                                     ELSE row[h]],
                  SignInPage("portfolio", TRUE))

Post(c, post) == IF post.form = "sign_in" THEN PostSignIn(c, post) ELSE PostSignOut(c, post)

SignInForm(who, right, token, path) ==
    [form |-> "sign_in", who |-> who, right |-> right, token |-> token, path |-> path,
     foreign |-> FALSE]
SignOutForm(token) == [SignInForm(None, TRUE, token, "portfolio") EXCEPT !.form = "sign_out"]

-----------------------------------------------------------------------------
(* The browser *)

Unreachable(url) == [Blank EXCEPT !.page = "unreachable", !.url = url]

Clicked(t) == request[t] # None /\ request[t].by = "click"

\* A navigation starts in a tab; it takes the place of the one under way.
\* With no network the tab will show the browser's own page.  Whoever waits for
\* the navigation of a click waits for the one a script puts in its place.
Send(t, by, replaces, url, answer) ==
    /\ request' = [request EXCEPT ![t] =
           [by |-> IF by = "script" /\ Clicked(t) THEN "click" ELSE by, replaces |-> replaces,
            set |-> IF online /\ answer.cookie # cookie THEN {answer.cookie} ELSE {},
            to |-> IF online THEN answer.to ELSE None,
            doc |-> IF online THEN answer.doc ELSE Unreachable(url)]]
    /\ row' = IF online THEN answer.row ELSE row

Browsing(t) == request[t] # None /\ request[t].by = "browser"

\* conceal(): the private part of the page is emptied and hidden.
Concealed(d) == [d EXCEPT !.email = None, !.session = None]

\* recover() without the disconnect: the socket joins again on its own.
RecoveredJoining(d) ==
    [Concealed(d) EXCEPT !.recovery = IF @ = "no" THEN "asking" ELSE @, !.restored = FALSE,
                         !.socket = IF @ = "live" THEN "joining" ELSE @]

\* recover(): the socket is closed for good, and the page asks for a reload.
Recovered(d) ==
    [Concealed(d) EXCEPT !.recovery = IF @ = "no" THEN "asking" ELSE @, !.restored = FALSE,
                         !.socket = "closed"]

\* The offline and online listeners of a page that has #workspace.
SetOnline(b) ==
    /\ online' = b
    /\ doc' = [t \in Tabs |-> IF doc[t].page = "private" THEN Recovered(doc[t]) ELSE doc[t]]
    /\ UNCHANGED <<serverVars, cookie, request, previous, replayed>>

\* A document leaves: pagehide conceals it, and the browser may keep it.
Unload(t, replaces) ==
    IF replaces \/ doc[t].page = "blank" THEN UNCHANGED previous
    ELSE \E kept \in {{}, {[Concealed(doc[t]) EXCEPT !.socket = "closed", !.restored = TRUE]}} :
             previous' = [previous EXCEPT ![t] = [url |-> doc[t].url, kept |-> kept]]

\* An answer arrives: its cookie is stored and its redirect followed, or its
\* document takes the place of the tab's.
Arrive(t) ==
    /\ request[t] # None /\ (online \/ request[t].doc.page = "unreachable")
    /\ cookie' = IF request[t].set = {} THEN cookie ELSE CHOOSE c \in request[t].set : TRUE
    /\ LET r == request[t] IN
       \/ /\ r.to # None
          /\ LET answer == Get(cookie', r.to) IN
             /\ row' = answer.row
             /\ request' = [request EXCEPT ![t] =
                    [r EXCEPT !.set = IF answer.cookie # cookie' THEN {answer.cookie} ELSE {},
                              !.to = answer.to, !.doc = answer.doc]]
          /\ UNCHANGED <<doc, previous>>
       \/ /\ r.to = None
          /\ doc' = [doc EXCEPT ![t] = r.doc]
          /\ request' = [request EXCEPT ![t] = None]
          /\ Unload(t, r.replaces)
          /\ UNCHANGED row
    /\ UNCHANGED <<address, failure, online, replayed, userVars>>

\* The network goes away before the answer is there.
Lose(t) ==
    /\ request[t] # None /\ ~online /\ request[t].doc.page # "unreachable"
    /\ request' = [request EXCEPT ![t] = [@ EXCEPT !.set = {}, !.to = None,
                                             !.doc = Unreachable(Private("portfolio"))]]
    /\ UNCHANGED <<serverVars, online, cookie, doc, previous, replayed, userVars>>

\* pageshow of a document the browser kept.
PageShow(t) ==
    /\ doc[t].restored
    /\ doc' = [doc EXCEPT ![t] = Recovered(@)]
    /\ UNCHANGED <<serverVars, online, cookie, request, previous, replayed, userVars>>

\* retry(): the fetch of the page's path got an answer, so the page reloads.
\* A script cannot replace a navigation of the browser's user.
Retry(t) ==
    /\ doc[t].recovery = "asking" /\ online /\ ~Browsing(t)
    /\ doc' = [doc EXCEPT ![t].recovery = "asked"]
    /\ Send(t, "script", TRUE, doc[t].url, Get(cookie, doc[t].url))
    /\ UNCHANGED <<address, failure, online, cookie, previous, replayed, userVars>>

\* ended(): the LiveView redirects and is gone.
Ended(t) ==
    /\ doc' = [doc EXCEPT ![t].socket = "closed", ![t].session = None]
    /\ IF Browsing(t) THEN UNCHANGED <<request, row>>
       ELSE Send(t, "script", FALSE, SignInPage("portfolio", TRUE),
                 GetSignIn(cookie, SignInPage("portfolio", TRUE)))

\* The socket joins with the page's token and the cookie: on_mount validates
\* the handle.  What the page had queued for the channel follows.
Connect(t) ==
    /\ doc[t].socket = "joining" /\ online
    /\ LET h == cookie.handle IN
       IF Live(h) /\ ~Unavailable /\ doc[t].token = cookie.csrf THEN
           /\ doc' = [doc EXCEPT ![t] = [@ EXCEPT !.socket = "live", !.session = h,
                          !.email = address[row[h].user], !.queued = FALSE]]
           /\ replayed' = (replayed \/ doc[t].queued)
           /\ UNCHANGED <<request, row>>
       ELSE Ended(t) /\ UNCHANGED replayed
    /\ UNCHANGED <<address, failure, online, cookie, previous, userVars>>

\* A guard that looks at the account and not at the session.
GuardAccount(t) ==
    /\ doc[t].socket = "live" /\ online
    /\ \/ Unavailable /\ Ended(t)
       \/ /\ ~Unavailable /\ doc[t].email # address[row[doc[t].session].user]
          /\ doc' = [doc EXCEPT ![t].email = address[row[doc[t].session].user]]
          /\ UNCHANGED <<request, row>>
    /\ UNCHANGED <<address, failure, online, cookie, previous, replayed, userVars>>

\* guard(), by the revocation's broadcast, the deadline, an event or the check
\* every 250 ms: the process ends with its session or shows the fresh account.
Guard(t) ==
    /\ doc[t].socket = "live" /\ online
    /\ \/ /\ ~Live(doc[t].session) \/ Unavailable
          /\ Ended(t)
       \/ /\ Live(doc[t].session) /\ ~Unavailable
          /\ doc[t].email # address[row[doc[t].session].user]
          /\ doc' = [doc EXCEPT ![t].email = address[row[doc[t].session].user]]
          /\ UNCHANGED <<request, row>>
    /\ UNCHANGED <<address, failure, online, cookie, previous, replayed, userVars>>

TabStep(t) == Arrive(t) \/ Lose(t) \/ PageShow(t) \/ Retry(t) \/ Connect(t) \/ Guard(t)

-----------------------------------------------------------------------------
(* What is done to the browser, by a person or by a journey *)

Unmoved == UNCHANGED <<address, failure, online, cookie, doc, previous, replayed>>

Goto(t, url) == Send(t, "browser", doc[t].url = url, url, Get(cookie, url)) /\ Unmoved

\* The entry comes back from the network, or as the browser kept it.
GoBack(t) ==
    /\ previous[t] # None
    /\ LET url == previous[t].url IN
       \/ /\ previous[t].kept = {}
          /\ Send(t, "browser", TRUE, url, Get(cookie, url))
       \/ \E d \in previous[t].kept :
              /\ request' = [request EXCEPT ![t] = [by |-> "browser", replaces |-> TRUE,
                                 set |-> {}, to |-> None, doc |-> d]]
              /\ UNCHANGED row
    /\ previous' = [previous EXCEPT ![t] = None]
    /\ UNCHANGED <<address, failure, online, cookie, doc, replayed>>

SubmitSignIn(t, by, who, right) ==
    /\ doc[t].page = "form"
    /\ Send(t, by, FALSE, doc[t].url,
            Post(cookie, SignInForm(who, right, doc[t].token, doc[t].url.path)))
    /\ Unmoved

SubmitSignOut(t, by) ==
    /\ doc[t].page = "private" /\ doc[t].email # None
    /\ Send(t, by, FALSE, doc[t].url, Post(cookie, SignOutForm(doc[t].token)))
    /\ Unmoved

\* A link of the workspace's navigation, inside the live session.
Follow(t, path) ==
    /\ doc[t].socket = "live" /\ online /\ Live(doc[t].session) /\ ~Unavailable
    /\ doc' = [doc EXCEPT ![t].url = Private(path)]
    /\ previous' = [previous EXCEPT ![t] = None]
    /\ UNCHANGED <<serverVars, online, cookie, request, replayed>>

\* The connection of a page is lost: disconnected() of its hook.
Drop(t) ==
    /\ doc[t].socket = "live"
    /\ doc' = [doc EXCEPT ![t] = Recovered(@)]
    /\ UNCHANGED <<serverVars, online, cookie, request, previous, replayed>>

\* An event of a page that lost its connection waits in its channel's queue.
Push(t) ==
    /\ doc[t].page = "private" /\ doc[t].recovery # "no" /\ doc[t].socket # "live"
    /\ doc' = [doc EXCEPT ![t].queued = TRUE]
    /\ UNCHANGED <<serverVars, online, cookie, request, previous, replayed>>

\* The deadline of every session so far passes.
Expire ==
    /\ row' = [h \in Handles |-> [row[h] EXCEPT !.state = "ended"]]
    /\ UNCHANGED <<address, failure, browserVars>>

\* A person acts in one tab and signs out in either.
Person ==
    /\ script = "person" /\ acts < MaxActs /\ acts' = acts + 1
    /\ \/ \E t \in Tabs : SubmitSignOut(t, "key")
       \/ SubmitSignIn("page", "key", "second", TRUE)
       \/ Goto("page", Private("portfolio")) \/ GoBack("page") \/ Drop("page")
       \/ Push("page") \/ SetOnline(~online)
       \/ Expire
    /\ UNCHANGED <<script, at>>

-----------------------------------------------------------------------------

WorkspaceInit ==
    /\ row = [h \in Handles |-> [user |-> None, state |-> "unused"]]
    /\ address = [u \in Accounts |-> u] /\ failure = "none" /\ online = TRUE
    /\ cookie = NoCookie /\ doc = [t \in Tabs |-> Blank]
    /\ request = [t \in Tabs |-> None] /\ previous = [t \in Tabs |-> None]
    /\ replayed = FALSE /\ script = "none" /\ at = 0 /\ acts = 0

\* A person who has the sign-in form in both tabs, or the portfolio.
OpenTabs ==
    /\ script = "none" /\ script' = "person"
    /\ LET h == FreshHandle
           form == GetSignIn(NoCookie, SignInPage("portfolio", FALSE))
       IN  /\ cookie' = form.cookie
           /\ \/ row' = form.row /\ doc' = [t \in Tabs |-> form.doc]
              \/ /\ row' = [row EXCEPT ![h] = [user |-> "first", state |-> "authenticated"]]
                 /\ doc' = [t \in Tabs |-> [form.doc EXCEPT !.url = Private("portfolio"),
                                !.page = "private", !.email = address["first"],
                                !.socket = "live", !.session = h]]
    /\ UNCHANGED <<address, failure, online, request, previous, replayed, at, acts>>

WorkspaceNext == OpenTabs \/ Person \/ \E t \in Tabs : TabStep(t)

WorkspaceSpec == WorkspaceInit /\ [][WorkspaceNext]_workspaceVars

\* Each tab gets on with what it began.
WorkspaceFairness == \A t \in Tabs : WF_workspaceVars(TabStep(t))

-----------------------------------------------------------------------------
(* Properties *)

Paths == {"portfolio", "orders", "elsewhere"}
Urls ==
    {SignInPage(p, e) : p \in Paths, e \in BOOLEAN} \cup {Private(p) : p \in {"portfolio", "orders"}}

Screens ==
    {"blank", "form", "private", "denied", "unavailable", "sign_out_failed", "unreachable"}
Messages == {None, "ended", "invalid", "expired", "unavailable", "retry"}

Documents ==
    [url : Urls, page : Screens, email : Accounts \cup {"changed", None}, message : Messages,
     token : Tokens \cup {None}, session : Handles \cup {None},
     socket : {"none", "joining", "live", "closed"},
     recovery : {"no", "asking", "asked"}, queued : BOOLEAN, restored : BOOLEAN]

Sessions ==
    [user : Accounts \cup {None}, state : {"unused", "anonymous", "authenticated", "ended"}]
Cookies == [handle : Handles \cup {None}, csrf : Tokens \cup {None}]

WorkspaceTypeOK ==
    /\ row \in [Handles -> Sessions] /\ cookie \in Cookies
    /\ \A t \in Tabs :
           /\ doc[t] \in Documents
           /\ request[t] # None => request[t].doc \in Documents
           /\ doc[t].socket = "live" <=> doc[t].session # None
    /\ acts \in 0 .. MaxActs

\* An event a page queued before it lost its connection is never sent
\* afterwards: recover() disposes of the socket before it could join again
\* (workspace_session.js:1,11; workspace_browser.mjs:176-186).
NeverReplayed == ~replayed

\* The account in the tab shows an account none of whose sessions is valid.
ShowsEnded(t) ==
    doc[t].email # None
      /\ ~\E h \in Handles : Live(h) /\ address[row[h].user] = doc[t].email

\* A tab does not go on showing an account whose sessions ended, however they
\* ended (sign-out in another tab, expiry) and whatever happens to the network:
\* the guard, the listeners and pagehide conceal it.
EndedIsConcealed == \A t \in Tabs : ShowsEnded(t) ~> ~ShowsEnded(t)

-----------------------------------------------------------------------------
(* What the theorems of ClientProofs rest on *)

\* A valid session is somebody's.
Rows == {r \in [Handles -> Sessions] :
            \A h \in Handles : r[h].state = "authenticated" => r[h].user \in Accounts}

\* A page that lost its connection has disposed of its socket for good, and
\* only such a page has events in its queue.
Disposed(d) == d.recovery # "no" \/ d.queued => d.socket = "closed"

\* The documents tabs show, and those that are on their way to one.
Shows == {d \in Documents : Disposed(d) /\ (d.socket = "live" <=> d.session # None)}
Arrivals == {d \in Shows : d.session = None}

Navigations ==
    {n \in [by : {"browser", "click", "key", "script"}, replaces : BOOLEAN,
            set : SUBSET Cookies, to : Urls \cup {None}, doc : Arrivals] :
        \A c, d \in n.set : c = d}
Entries == [url : Urls, kept : SUBSET Arrivals]

WorkspaceInv ==
    /\ row \in Rows /\ address \in [Accounts -> Accounts \cup {"changed"}]
    /\ failure \in {"none", "revoke", "all"} /\ online \in BOOLEAN
    /\ cookie \in Cookies /\ doc \in [Tabs -> Shows]
    /\ request \in [Tabs -> Navigations \cup {None}]
    /\ previous \in [Tabs -> Entries \cup {None}]
    /\ replayed = FALSE /\ acts \in 0 .. MaxActs

=============================================================================
