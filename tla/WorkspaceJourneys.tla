------------------------- MODULE WorkspaceJourneys --------------------------
(***************************************************************************)
(* The acceptance journeys of the workspace: tools/openapi/                 *)
(* workspace_browser.mjs in its browser and http modes, and                 *)
(* e2e_browser.mjs.  A journey is a sequence of steps, run against the      *)
(* pages of module Workspace; a step waits for the page or asserts of it.   *)
(***************************************************************************)
EXTENDS Workspace

Step(do, tab, of) == [do |-> do, tab |-> tab, of |-> of]

Go(tab, url) == <<Step("go", tab, url)>>
SignInAs(tab, by, who, right) == <<Step("sign_in", tab, [by |-> by, who |-> who, right |-> right])>>
SignOut(tab, by) == <<Step("sign_out", tab, by)>>
Network(b) == <<Step("network", "page", b)>>
Control(do, of) == <<Step(do, "page", of)>>

\* Fields a tab's document has, has in the end, or an account it does not show.
See(tab, fields) == <<Step("see", tab, fields)>>
Await(tab, fields) == <<Step("await", tab, fields)>>
SeeNot(tab, email) == <<Step("see_not", tab, email)>>
AwaitNot(tab, email) == <<Step("await_not", tab, email)>>

Connected == [socket |-> "live"]
EndedUrl == [url |-> SignInPage("portfolio", TRUE)]

\* A request outside the pages, with the cookie and its token, a token of none
\* or another origin, and fields its answer has.
Request(form, fields) == <<Step("request", "page", [form |-> form, has |-> fields])>>
Fetch(path, fields) ==
    <<Step("fetch", "page", [url |-> Private(path), has |-> fields])>>
Genuine == CHOOSE k \in Tokens : TRUE
Form1(who, right, path) == SignInForm(who, right, Genuine, path)

-----------------------------------------------------------------------------
(* workspace_browser.mjs, browser mode *)

SignIn(tab, who, path) ==
    Go(tab, SignInPage(path, FALSE)) \o SignInAs(tab, "click", who, TRUE) \o Await(tab, Connected)

Credentials ==
    Go("page", SignInPage("portfolio", FALSE))
    \o SignInAs("page", "key", "first", FALSE) \o Await("page", [message |-> "invalid"])
    \o SignInAs("page", "key", "first", TRUE) \o Await("page", Connected)
    \o See("page", [email |-> "first", url |-> Private("portfolio")])

StaleSubmission ==
    Request(Form1("second", TRUE, "portfolio"), [status |-> 303, to |-> Private("portfolio")])
    \o Fetch("portfolio", [status |-> 200, email |-> "first"])

Navigation ==
    Control("follow", "orders") \o Await("page", [url |-> Private("orders")])
    \o Control("follow", "portfolio") \o Await("page", [url |-> Private("portfolio")])
    \o Go("tab", Private("orders")) \o Await("tab", Connected)

TwoTabSignOut ==
    SignOut("page", "key") \o AwaitNot("tab", "first") \o Await("tab", EndedUrl)

AccountSwitch ==
    SignIn("page", "second", "portfolio")
    \o Control("back", None) \o SeeNot("page", "first")
    \o Go("page", Private("portfolio")) \o See("page", [email |-> "second"])

TwoTabExpiry ==
    Go("tab", Private("orders")) \o Await("tab", Connected) \o Await("page", Connected)
    \o Control("advance", None)
    \o AwaitNot("page", "second") \o AwaitNot("tab", "second")

ValidReconnect ==
    SignIn("page", "first", "portfolio")
    \o Network(FALSE) \o AwaitNot("page", "first")
    \o Control("push", None) \o Control("rename", "changed")
    \o Network(TRUE) \o Await("page", [email |-> "changed"])
    \o Control("not_replayed", None)
    \o Control("rename", "first") \o Control("reload", None) \o Await("page", Connected)

OfflineExpiry ==
    Network(FALSE) \o AwaitNot("page", "first") \o Control("advance", None)
    \o Network(TRUE) \o Await("page", EndedUrl) \o SeeNot("page", "first")

SafeReturns ==
    SignIn("page", "first", "orders") \o Await("page", [url |-> Private("orders")])
    \o SignOut("page", "click")
    \o SignIn("page", "first", "elsewhere") \o Await("page", [url |-> Private("portfolio")])

ExpiredTransport ==
    Network(FALSE) \o AwaitNot("page", "first") \o Control("advance", None)
    \o Control("clear_cookies", None) \o Network(TRUE)
    \o Go("page", Private("portfolio")) \o Await("page", EndedUrl)
    \o See("page", [message |-> "ended"]) \o SeeNot("page", "first")
    \o SignIn("page", "first", "portfolio")

UnavailableRecovery ==
    SignOut("page", "click") \o Control("fail", "all") \o Control("reload", None)
    \o See("page", [message |-> "unavailable"]) \o Control("fail", "none")
    \o Control("retry", None) \o Await("page", [page |-> "form"])

-----------------------------------------------------------------------------
(* workspace_browser.mjs, http mode: the same server without pages *)

HttpSignIn ==
    Control("form", [status |-> 200])
    \o Request([Form1("first", TRUE, "portfolio") EXCEPT !.token = None], [status |-> 403])
    \o Request([Form1("first", TRUE, "portfolio") EXCEPT !.foreign = TRUE], [status |-> 403])
    \o Request(Form1("first", FALSE, "portfolio"), [status |-> 422])
    \o Control("fail", "all") \o Request(Form1("first", TRUE, "portfolio"), [status |-> 503])
    \o Control("fail", "none")
    \o Request(Form1("first", TRUE, "orders"), [status |-> 303, to |-> Private("orders")])
    \o Fetch("portfolio", [status |-> 200]) \o Fetch("orders", [status |-> 200])

HttpSignOut ==
    Fetch("portfolio", [status |-> 200])
    \o Control("fail", "revoke") \o Request(SignOutForm(Genuine), [status |-> 503])
    \o Control("fail", "none") \o Request(SignOutForm(Genuine), [status |-> 303])
    \o Fetch("portfolio", [status |-> 303])

-----------------------------------------------------------------------------
(* e2e_browser.mjs *)

Login ==
    SignIn("page", "first", "portfolio")
    \o See("page", [email |-> "first", url |-> Private("portfolio")])

BrowserJourney ==
    Fetch("portfolio", [status |-> 303, to |-> SignInPage("portfolio", TRUE)])
    \o Go("page", SignInPage("portfolio", FALSE))
    \o SignInAs("page", "click", "first", FALSE) \o Await("page", [message |-> "invalid"])
    \o Login \o SignOut("page", "click") \o Await("page", EndedUrl)
    \o Fetch("portfolio", [status |-> 303]) \o Login
    \o Control("advance", None)
    \o Fetch("portfolio", [status |-> 303, to |-> SignInPage("portfolio", TRUE)])
    \o Go("page", Private("portfolio")) \o Await("page", EndedUrl) \o Await("page", [page |-> "form"])

Journey ==
    [browser |-> Credentials \o StaleSubmission \o Navigation \o TwoTabSignOut \o AccountSwitch
                   \o TwoTabExpiry \o ValidReconnect \o OfflineExpiry \o SafeReturns
                   \o ExpiredTransport \o UnavailableRecovery,
     http |-> HttpSignIn \o HttpSignOut,
     e2e |-> BrowserJourney]

-----------------------------------------------------------------------------
(* Running a journey *)

Has(record, fields) == \A f \in DOMAIN fields : record[f] = fields[f]

\* An answer, with the address it shows.
Outline(answer) == [status |-> answer.status, to |-> answer.to, email |-> answer.doc.email]

\* The answer of a request is awaited; its cookie is the browser's.
Exchange(answer, fields) ==
    /\ script' = IF Has(Outline(answer), fields) THEN script ELSE "failed"
    /\ cookie' = answer.cookie /\ row' = answer.row
    /\ UNCHANGED <<address, failure, online, doc, request, previous, replayed>>

Check(holds) ==
    /\ script' = IF holds THEN script ELSE "failed"
    /\ UNCHANGED <<serverVars, browserVars>>

\* What the driver does to the pages and to the browser.
Drive(s) ==
    \/ s.do = "go" /\ Goto(s.tab, s.of)
    \/ s.do = "sign_in" /\ SubmitSignIn(s.tab, s.of.by, s.of.who, s.of.right)
    \/ s.do = "sign_out" /\ SubmitSignOut(s.tab, s.of)
    \/ s.do = "follow" /\ Follow(s.tab, s.of)
    \/ s.do = "back" /\ GoBack(s.tab)
    \/ s.do = "reload" /\ Goto(s.tab, doc[s.tab].url)
    \/ s.do = "retry" /\ doc[s.tab].message # None /\ Goto(s.tab, SignInPage("portfolio", FALSE))
    \/ s.do = "network" /\ SetOnline(s.of)
    \/ s.do = "push" /\ Push(s.tab)
    \/ s.do = "clear_cookies" /\ cookie' = NoCookie
         /\ UNCHANGED <<serverVars, online, doc, request, previous, replayed>>

\* What it asks of the test control: a rename, a failure, nine hours.
Operate(s) ==
    \/ s.do = "rename" /\ address' = [address EXCEPT !["first"] = s.of]
         /\ UNCHANGED <<row, failure, browserVars>>
    \/ s.do = "fail" /\ failure' = s.of /\ UNCHANGED <<row, address, browserVars>>
    \/ s.do = "advance" /\ Expire

\* What it sends itself.
Ask(s) ==
    \/ s.do = "form" /\ Exchange(Get(cookie, SignInPage("portfolio", FALSE)), s.of)
    \/ s.do = "fetch" /\ Exchange(Get(cookie, s.of.url), s.of.has)
    \/ s.do = "request"
         /\ LET token == IF s.of.form.token = None THEN None
                         ELSE IF doc["page"].page = "private" THEN doc["page"].token
                         ELSE cookie.csrf
            IN  Exchange(Post(cookie, [s.of.form EXCEPT !.token = token]), s.of.has)

\* What it waits for, and what it asserts.
Observe(s) ==
    \/ s.do = "see" /\ Check(Has(doc[s.tab], s.of))
    \/ s.do = "see_not" /\ Check(doc[s.tab].email # s.of)
    \/ s.do = "not_replayed" /\ Check(~replayed)
    \/ s.do = "await" /\ Has(doc[s.tab], s.of) /\ Check(TRUE)
    \/ s.do = "await_not" /\ doc[s.tab].email # s.of /\ Check(TRUE)

\* The driver returns from a navigation or a click when the page has arrived.
JourneyStep ==
    /\ script \in DOMAIN Journey /\ at \in DOMAIN Journey[script]
    /\ \A t \in Tabs : request[t] # None => request[t].by \notin {"browser", "click"}
    /\ LET s == Journey[script][at] IN
       \/ (Drive(s) \/ Operate(s)) /\ UNCHANGED script
       \/ Ask(s) \/ Observe(s)
    /\ at' = at + 1
    /\ UNCHANGED acts

StartJourney ==
    /\ script = "none" /\ script' \in DOMAIN Journey /\ at' = 1
    /\ UNCHANGED <<serverVars, browserVars, acts>>

JourneyDone == script \in DOMAIN Journey /\ at > Len(Journey[script])

\* Every journey gets to its end: no assertion fails and no wait is in vain,
\* in whatever order the answers and the checks of the two tabs come.
WorkspaceJourneysEnd == at = 1 ~> JourneyDone

=============================================================================
