------------------------------ MODULE ApiDocs -------------------------------
(***************************************************************************)
(* The interactive API documentation (priv/static/api-docs/docs.js in the   *)
(* page docs.html.heex) and the acceptance journey that drives it           *)
(* (tools/openapi/browser.mjs).  The page loads its parts and the contract  *)
(* one after the other; a request is built some time after its click, from  *)
(* the credential the page holds by then.                                   *)
(***************************************************************************)
EXTENDS Sequences, Naturals

CONSTANTS
    Calls,          \* identities of the requests of one page
    NoCredential    \* an empty credential, and no header

Modes == {"jwt", "api_key"}
ASSUME DocsAssumption == NoCredential \notin Modes /\ Calls # {}

VARIABLES
    docs,           \* how far the page is
    broken,         \* the parts that cannot be used
    loadFired,      \* the window's load event has fired
    docsError,      \* #docs-error is visible
    mode,           \* #credential-mode
    value,          \* #credential-value: the method it was typed for
    earlySwitch,    \* the method was switched before docs.js could listen
    calls,          \* the requests sent through Swagger UI
    docsStep,       \* the next step of the journey, 0 when a person uses the page
    docsFailed      \* an assertion of the journey failed

pageVars == <<docs, broken, loadFired, docsError>>
formVars == <<mode, value, earlySwitch>>
driverVars == <<docsStep, docsFailed>>
docsVars == <<pageVars, formVars, calls, driverVars>>

Parts == {"style", "bundle", "script", "contract", "ui"}

\* The GET operations the page can send: the two of catalogPath, and the rest.
Catalog == {"list", "detail"}
Operations == Catalog \cup {"ranking"}

NoCall == [op |-> "list", state |-> "unused", header |-> NoCredential, secret |-> NoCredential]

Listening == docs \in {"fetching", "rendering", "ready"}

DocsInit ==
    /\ docs = "closed" /\ broken = {} /\ loadFired = FALSE /\ docsError = FALSE
    /\ mode = "jwt" /\ value = NoCredential /\ earlySwitch = FALSE
    /\ calls = [c \in Calls |-> NoCall]
    /\ docsStep = 0 /\ docsFailed = FALSE

\* A fresh document with the given parts out of order.
LoadPage(parts) ==
    /\ docs' = "assets" /\ broken' = parts
    /\ loadFired' = FALSE /\ docsError' = FALSE
    /\ mode' = "jwt" /\ value' = NoCredential /\ earlySwitch' = FALSE
    /\ calls' = [c \in Calls |-> NoCall]

-----------------------------------------------------------------------------
(* The page *)

\* Stylesheet and scripts; the onerror attribute of each shows the error.
Assets ==
    /\ docs = "assets"
    /\ docsError' = (broken \cap {"style", "bundle", "script"} # {})
    /\ docs' = IF "script" \in broken THEN "failed" ELSE "starting"
    /\ UNCHANGED <<broken, loadFired, formVars, calls, driverVars>>

\* A start() that lets its exception escape.
EscapeUnless(part, next) ==
    /\ docs' = IF part \in broken THEN "failed" ELSE next
    /\ UNCHANGED docsError

\* The try of start(): any failure ends in its catch, which shows the error.
ContinueUnless(part, next) ==
    /\ docs' = IF part \in broken THEN "failed" ELSE next
    /\ docsError' = (docsError \/ part \in broken)

\* docs.js runs: it listens to the method and looks for SwaggerUIBundle.
StartDocs ==
    /\ docs = "starting"
    /\ ContinueUnless("bundle", "fetching")
    /\ UNCHANGED <<broken, loadFired, formVars, calls, driverVars>>

\* The answer to /openapi.json: unreachable, refused or no contract, or usable.
FetchContract ==
    /\ docs = "fetching"
    /\ ContinueUnless("contract", "rendering")
    /\ UNCHANGED <<broken, loadFired, formVars, calls, driverVars>>

\* SwaggerUIBundle calls onComplete, or onFailure.
Render ==
    /\ docs = "rendering"
    /\ ContinueUnless("ui", "ready")
    /\ UNCHANGED <<broken, loadFired, formVars, calls, driverVars>>

\* The load event waits for the scripts, not for what they fetch.
FireLoad ==
    /\ docs \notin {"closed", "assets", "starting"} /\ ~loadFired
    /\ loadFired' = TRUE
    /\ UNCHANGED <<docs, broken, docsError, formVars, calls, driverVars>>

\* A page whose change listener does not empty the value.
SwitchModeOnly(m) ==
    /\ m \in Modes \ {mode} /\ mode' = m
    /\ UNCHANGED <<value, earlySwitch>>

\* The change event empties the value, once docs.js listens.
SwitchMode(m) ==
    /\ m \in Modes \ {mode} /\ mode' = m
    /\ value' = IF Listening THEN NoCredential ELSE value
    /\ earlySwitch' = (earlySwitch \/ (~Listening /\ value # NoCredential))

TypeCredential == value' = mode /\ UNCHANGED <<mode, earlySwitch>>
ClearCredential == value' = NoCredential /\ UNCHANGED <<mode, earlySwitch>>

\* Execute of an operation: Swagger UI builds the request asynchronously.
Execute(c, op) ==
    /\ docs = "ready" /\ op \in Operations /\ calls[c].state \in {"unused", "answered"}
    /\ calls' = [calls EXCEPT ![c] = [NoCall EXCEPT !.op = op, !.state = "queued"]]

\* A requestInterceptor that trusts every path of the API.
InterceptAnyPath(c) ==
    /\ calls[c].state = "queued"
    /\ calls' = [calls EXCEPT ![c].state = "sent", ![c].secret = value,
                    ![c].header = IF value # NoCredential THEN mode ELSE NoCredential]
    /\ UNCHANGED <<pageVars, formVars, driverVars>>

\* requestInterceptor: headers Swagger UI brought along are removed, and the
\* credential is added to a catalog request under the header of the method.
Intercept(c) ==
    LET own == calls[c].op \in Catalog /\ value # NoCredential
    IN  /\ calls[c].state = "queued"
        /\ calls' = [calls EXCEPT ![c].state = "sent",
                        ![c].header = IF own THEN mode ELSE NoCredential,
                        ![c].secret = IF own THEN value ELSE NoCredential]
        /\ UNCHANGED <<pageVars, formVars, driverVars>>

StatusOf(call) == IF call.header # NoCredential /\ call.header = call.secret THEN 200 ELSE 401

\* The response to a call arrives, after those of later ones perhaps.
Respond(c) ==
    /\ calls[c].state = "sent"
    /\ calls' = [calls EXCEPT ![c].state = "answered"]
    /\ UNCHANGED <<pageVars, formVars, driverVars>>

PageStep ==
    \/ Assets \/ StartDocs \/ FetchContract \/ Render \/ FireLoad
    \/ \E c \in Calls : Intercept(c) \/ Respond(c)

-----------------------------------------------------------------------------
(* A person *)

DocsPerson ==
    /\ docs # "closed" /\ docsStep = 0
    /\ \/ \E m \in Modes : SwitchMode(m) /\ UNCHANGED calls
       \/ (TypeCredential \/ ClearCredential) /\ UNCHANGED calls
       \/ \E c \in Calls, op \in Operations : Execute(c, op) /\ UNCHANGED formVars
    /\ UNCHANGED <<pageVars, driverVars>>

-----------------------------------------------------------------------------
(* The journey of browser.mjs.  "execute" clicks and "response" waits for    *)
(* the answer and asserts its status and headers.                            *)

ExecuteAs(op, status, header) ==
    <<[do |-> "execute", op |-> op], [do |-> "response", status |-> status, header |-> header]>>

DocsJourney ==
    <<[do |-> "await_ready"], [do |-> "see_no_error"], [do |-> "type"]>>
    \o ExecuteAs("list", 200, "jwt")
    \o <<[do |-> "switch", to |-> "api_key"], [do |-> "see_empty"], [do |-> "type"]>>
    \o ExecuteAs("detail", 200, "api_key")
    \o <<[do |-> "switch", to |-> "jwt"], [do |-> "see_empty"], [do |-> "type"]>>
    \o ExecuteAs("list", 200, "jwt")
    \o <<[do |-> "clear"]>>
    \o ExecuteAs("list", 401, NoCredential)
    \o <<[do |-> "reload", broken |-> {"contract"}], [do |-> "see_error"],
         [do |-> "reload", broken |-> {"bundle"}], [do |-> "see_error"]>>

DocsDone == docsStep > Len(DocsJourney)

\* The journey goes on, or an assertion fails and it stops.
Asserted(holds) ==
    /\ docsFailed' = ~holds
    /\ docsStep' = IF holds THEN docsStep + 1 ELSE docsStep

TheCall == CHOOSE c \in Calls : TRUE

\* page.reload() and page.goto() return with the load event.
Arrived == loadFired

DocsJourneyStep ==
    /\ docsStep \in 1 .. Len(DocsJourney) /\ ~docsFailed /\ Arrived
    /\ LET step == DocsJourney[docsStep] IN
       \/ /\ step.do = "await_ready" /\ docs = "ready"
          /\ Asserted(TRUE) /\ UNCHANGED <<pageVars, formVars, calls>>
       \/ /\ step.do = "see_no_error"
          /\ Asserted(~docsError) /\ UNCHANGED <<pageVars, formVars, calls>>
       \/ /\ step.do = "see_error"
          /\ Asserted(docsError) /\ UNCHANGED <<pageVars, formVars, calls>>
       \/ /\ step.do = "see_empty"
          /\ Asserted(value = NoCredential) /\ UNCHANGED <<pageVars, formVars, calls>>
       \/ /\ step.do = "type" /\ TypeCredential
          /\ Asserted(TRUE) /\ UNCHANGED <<pageVars, calls>>
       \/ /\ step.do = "clear" /\ ClearCredential
          /\ Asserted(TRUE) /\ UNCHANGED <<pageVars, calls>>
       \/ /\ step.do = "switch" /\ SwitchMode(step.to)
          /\ Asserted(TRUE) /\ UNCHANGED <<pageVars, calls>>
       \/ /\ step.do = "execute" /\ Execute(TheCall, step.op)
          /\ Asserted(TRUE) /\ UNCHANGED <<pageVars, formVars>>
       \/ /\ step.do = "response" /\ calls[TheCall].state = "answered"
          /\ Asserted(/\ StatusOf(calls[TheCall]) = step.status
                    /\ calls[TheCall].header = step.header)
          /\ UNCHANGED <<pageVars, formVars, calls>>
       \/ /\ step.do = "reload" /\ LoadPage(step.broken)
          /\ Asserted(TRUE)

-----------------------------------------------------------------------------

\* A person opens a page of which anything may be broken, or the journey starts.
OpenDocs ==
    /\ docs = "closed"
    /\ \/ \E parts \in SUBSET Parts : LoadPage(parts) /\ docsStep' = 0
       \/ LoadPage({}) /\ docsStep' = 1
    /\ UNCHANGED docsFailed

DocsStepNext == PageStep \/ DocsPerson \/ DocsJourneyStep
DocsNext == OpenDocs \/ DocsStepNext

DocsSpec == DocsInit /\ [][DocsNext]_docsVars

\* The browser and the server get on with what they began; the journey too.
DocsFairness == WF_docsVars(PageStep) /\ WF_docsVars(DocsJourneyStep)

-----------------------------------------------------------------------------
(* Properties *)

Requests == [op : Operations, state : {"unused", "queued", "sent", "answered"},
             header : Modes \cup {NoCredential}, secret : Modes \cup {NoCredential}]

DocsTypeOK ==
    /\ docs \in {"closed", "assets", "starting", "fetching", "rendering", "ready", "failed"}
    /\ broken \subseteq Parts
    /\ loadFired \in BOOLEAN /\ docsError \in BOOLEAN /\ earlySwitch \in BOOLEAN
    /\ mode \in Modes /\ value \in Modes \cup {NoCredential}
    /\ calls \in [Calls -> Requests]
    /\ docsStep \in 0 .. Len(DocsJourney) + 1 /\ docsFailed \in BOOLEAN

\* A credential leaves the page only for the two catalog reads and only under
\* the header of the method it was typed for (docs.js:6,15-17), although the
\* request is built after the click: unless the method was switched while the
\* page was still loading and docs.js could not empty the value.
CredentialConfined ==
    \A c \in Calls : calls[c].header # NoCredential =>
        /\ calls[c].op \in Catalog
        /\ calls[c].header = calls[c].secret \/ earlySwitch

\* Whatever part is missing, loading the page ends with the documentation or
\* with the visible error (docs.js:24-46 and the onerror attributes).
DocsLoadEnds == docs = "assets" ~> docs = "ready" \/ docsError

\* The journey of browser.mjs gets to its end on whatever it finds, but for one
\* assertion: line 163 looks for the error as soon as the load event is there,
\* which does not wait for the answer to /openapi.json.
DocsJourneyEnds == docsStep = 1 ~> DocsDone \/ (docsFailed /\ broken = {"contract"})

-----------------------------------------------------------------------------
(* What the theorems of ClientProofs rest on *)

\* A call carries no credential, or that of its method.
Confined(call) == call.header # NoCredential =>
    call.op \in Catalog /\ (call.header = call.secret \/ earlySwitch)

\* The value on the page is of its method, but for an early switch, and so it
\* is with the calls.
DocsInv ==
    /\ mode \in Modes /\ value \in Modes \cup {NoCredential} /\ earlySwitch \in BOOLEAN
    /\ calls \in [Calls -> Requests]
    /\ value \in {NoCredential, mode} \/ earlySwitch
    /\ \A c \in Calls : Confined(calls[c])

\* The page and whoever uses it.
DriverInv ==
    /\ docs \in {"closed", "assets", "starting", "fetching", "rendering", "ready", "failed"}
    /\ broken \subseteq Parts /\ loadFired \in BOOLEAN /\ docsError \in BOOLEAN
    /\ docsStep \in 0 .. Len(DocsJourney) + 1 /\ docsFailed \in BOOLEAN

=============================================================================
