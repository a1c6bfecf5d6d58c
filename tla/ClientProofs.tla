---------------------------- MODULE ClientProofs ----------------------------
(***************************************************************************)
(* Theorems about the browser's side, for any number of images, patches,    *)
(* requests and acts: the types of every part, the avatar's photo, the      *)
(* credential of the API documentation, and the events of the workspace's   *)
(* page.  They cover what a person does and the acceptance journeys, whose  *)
(* steps are shown to have arguments of the right types.                    *)
(***************************************************************************)
EXTENDS MCClient, TradeDeskProofs, FiniteSetTheorems

-----------------------------------------------------------------------------
(* The avatar *)

\* What a render leaves has its types, and no error but of a broken image.
LEMMA RenderKeeps ==
    ASSUME MediaTypeOK, ErrorsMeanBroken, NEW i \in Images \cup {NoImage}, RenderPhoto(i)
    PROVE  /\ photo' \in Images \cup {NoImage}
           /\ pixels' \in [Images -> Pixels]
           /\ event' \in [Images -> {"none", "load", "error"}]
           /\ ErrorsMeanBroken'
<1>1. CASE i \in {NoImage, photo} /\ UNCHANGED <<pixels, event>>
    BY <1>1 DEF RenderPhoto, MediaTypeOK, ErrorsMeanBroken
<1>2. CASE i \in Images /\ PhotoSource(i)
    BY <1>2 DEF RenderPhoto, MediaTypeOK, ErrorsMeanBroken, PhotoSource, Pixels
<1> QED
    BY <1>1, <1>2 DEF RenderPhoto

\* Binding the rendered image makes the hook listen to it alone and show it
\* if it has pixels.
LEMMA BindTruthful ==
    ASSUME MediaTypeOK, BindImage, photo' \in Images \cup {NoImage},
           listened \subseteq {image}
    PROVE  /\ image' = photo' /\ listened' = {photo'} \cap Images
           /\ mediaReady' \in BOOLEAN /\ AvatarTruthful'
<1>1. image' = photo' /\ listened' = {photo'} \cap Images
    BY MediaAssumption DEF MediaTypeOK, BindImage
<1>2. mediaReady' = (photo' \in Images /\ pixels'[photo'] = "loaded")
    BY DEF BindImage
<1> QED
    BY <1>1, <1>2 DEF AvatarTruthful

LEMMA StepRendered ==
    ASSUME MediaInv, NEW i \in Images \cup {NoImage}, RenderPhoto(i), BindImage,
           avatar \in {"absent", "mounted"}, avatar' = "mounted", patches' \in 0 .. MaxPatches
    PROVE  MediaInv'
<1>1. /\ photo' \in Images \cup {NoImage} /\ pixels' \in [Images -> Pixels]
      /\ event' \in [Images -> {"none", "load", "error"}] /\ ErrorsMeanBroken'
    BY RenderKeeps DEF MediaInv
<1>2. listened \subseteq {image}
    BY DEF MediaInv, ListensToPhoto
<1>3. /\ image' = photo' /\ listened' = {photo'} \cap Images
      /\ mediaReady' \in BOOLEAN /\ AvatarTruthful'
    BY <1>1, <1>2, BindTruthful DEF MediaInv
<1>4. MediaTypeOK'
    BY <1>1, <1>3 DEF MediaTypeOK
<1> QED
    BY <1>1, <1>3, <1>4 DEF MediaInv, ListensToPhoto

LEMMA StepFetched ==
    ASSUME MediaInv, NEW i \in Images, Fetched(i)
    PROVE  MediaInv'
<1>1. PICK p \in Pixels \ {"fetching"} :
          /\ pixels' = [pixels EXCEPT ![i] = p]
          /\ event' = [event EXCEPT ![i] = IF p = "broken" THEN "error" ELSE "load"]
    BY DEF Fetched
<1>2. pixels[i] = "fetching" /\ UNCHANGED <<avatar, photo, image, listened, mediaReady, patches>>
    BY DEF Fetched
<1>3. MediaTypeOK'
    BY <1>1, <1>2 DEF MediaInv, MediaTypeOK
<1>4. ErrorsMeanBroken'
    BY <1>1 DEF MediaInv, MediaTypeOK, ErrorsMeanBroken
<1>5. AvatarTruthful'
  <2>1. photo # i => \/ pixels'[photo] = pixels[photo] /\ event'[photo] = event[photo]
                     \/ photo \notin Images
      BY <1>1 DEF MediaInv, MediaTypeOK
  <2>2. event'[i] # "none"
      BY <1>1 DEF MediaInv, MediaTypeOK
  <2> QED
      BY <1>2, <2>1, <2>2 DEF MediaInv, AvatarTruthful
<1> QED
    BY <1>2, <1>3, <1>4, <1>5 DEF MediaInv, ListensToPhoto

LEMMA StepDeliver ==
    ASSUME MediaInv, NEW i \in Images, Deliver(i)
    PROVE  MediaInv'
<1>1. /\ event[i] # "none" /\ event' = [event EXCEPT ![i] = "none"]
      /\ i \in listened => mediaReady' = (event[i] = "load" /\ pixels[i] = "loaded")
      /\ i \notin listened => mediaReady' = mediaReady
      /\ UNCHANGED <<avatar, photo, pixels, image, listened, patches>>
    BY DEF Deliver
<1>2. mediaReady' \in BOOLEAN
    BY <1>1 DEF MediaInv, MediaTypeOK
<1>3. MediaTypeOK'
    BY <1>1, <1>2 DEF MediaInv, MediaTypeOK
<1>4. ErrorsMeanBroken'
    BY <1>1 DEF MediaInv, MediaTypeOK, ErrorsMeanBroken
<1>5. CASE avatar = "mounted"
  <2>1. i \in listened <=> i = photo
      BY <1>5 DEF MediaInv, ListensToPhoto
  <2>2. CASE i = photo
    <3>1. event[i] = "load" \/ pixels[i] = "broken"
        BY <1>1 DEF MediaInv, MediaTypeOK, ErrorsMeanBroken
    <3>2. mediaReady' <=> pixels[i] = "loaded"
        BY <1>1, <2>1, <2>2, <3>1
    <3> QED
        BY <1>1, <1>3, <1>4, <2>2, <3>2 DEF MediaInv, ListensToPhoto, AvatarTruthful
  <2>3. CASE i # photo
    <3>1. event'[photo] = event[photo] \/ photo \notin Images
        BY <1>1, <2>3 DEF MediaInv, MediaTypeOK
    <3> QED
        BY <1>1, <1>3, <1>4, <2>1, <2>3, <3>1 DEF MediaInv, ListensToPhoto, AvatarTruthful
  <2> QED
      BY <2>2, <2>3
<1>6. CASE avatar # "mounted"
    BY <1>1, <1>3, <1>4, <1>6 DEF MediaInv, ListensToPhoto, AvatarTruthful
<1> QED
    BY <1>5, <1>6

LEMMA StepMedia == MediaInv /\ [MediaNext]_mediaVars => MediaInv'
<1> SUFFICES ASSUME MediaInv, [MediaNext]_mediaVars
             PROVE  MediaInv'
    OBVIOUS
<1>1. ASSUME NEW i \in Images \cup {NoImage}, Mount(i)
      PROVE  MediaInv'
    BY <1>1, StepRendered DEF Mount, MediaInv, MediaTypeOK
<1>2. ASSUME NEW i \in Images \cup {NoImage}, PatchAvatar(i)
      PROVE  MediaInv'
  <2>1. patches' \in 0 .. MaxPatches
      BY <1>2, MediaAssumption DEF PatchAvatar, MediaInv, MediaTypeOK
  <2> QED
      BY <1>2, <2>1, StepRendered DEF PatchAvatar
<1>3. CASE Destroy
  <2>1. MediaTypeOK'
      BY <1>3 DEF Destroy, MediaInv, MediaTypeOK
  <2>2. avatar' = "destroyed" /\ UNCHANGED <<pixels, event>>
      BY <1>3 DEF Destroy
  <2> QED
      BY <2>1, <2>2 DEF MediaInv, AvatarTruthful, ListensToPhoto, ErrorsMeanBroken
<1>4. ASSUME NEW i \in Images, Fetched(i)
      PROVE  MediaInv'
    BY <1>4, StepFetched
<1>5. ASSUME NEW i \in Images, Deliver(i)
      PROVE  MediaInv'
    BY <1>5, StepDeliver
<1>6. CASE UNCHANGED mediaVars
    BY <1>6 DEF mediaVars, MediaInv, MediaTypeOK, AvatarTruthful, ListensToPhoto, ErrorsMeanBroken
<1> QED
    BY <1>1, <1>2, <1>3, <1>4, <1>5, <1>6 DEF MediaNext, MediaStep

LEMMA MediaStarts == MediaInit => MediaInv
<1> SUFFICES ASSUME MediaInit
             PROVE  MediaInv
    OBVIOUS
<1>1. pixels \in [Images -> Pixels] /\ event \in [Images -> {"none", "load", "error"}]
    BY DEF MediaInit, Pixels
<1>2. patches \in 0 .. MaxPatches
    BY MediaAssumption DEF MediaInit
<1>3. MediaTypeOK
    BY <1>1, <1>2 DEF MediaInit, MediaTypeOK
<1> QED
    BY <1>1, <1>3 DEF MediaInit, MediaInv, AvatarTruthful, ListensToPhoto, ErrorsMeanBroken

\* The initials give way to the photo exactly when it has pixels, whatever was
\* loaded, replaced or reported before (player_media.js: bindImage, onLoad, onError).
THEOREM AvatarsTruthful == MediaSpec => []AvatarTruthful
<1>1. MediaInv => AvatarTruthful
    BY DEF MediaInv
<1> QED
    BY <1>1, MediaStarts, StepMedia, PTL DEF MediaSpec

-----------------------------------------------------------------------------
(* The API documentation: a credential stays with its method *)

\* A step that leaves the form alone and, of the calls, changes one at most.
LEMMA OneCall ==
    ASSUME DocsInv, UNCHANGED formVars, NEW c \in Calls, NEW new,
           calls' = [calls EXCEPT ![c] = new], new \in Requests, Confined(new)
    PROVE  DocsInv'
BY DEF DocsInv, formVars, Confined

\* A step of the form: what it leaves is of the method.
LEMMA FormStep ==
    ASSUME DocsInv, UNCHANGED calls,
           TypeCredential \/ ClearCredential \/ \E m : SwitchMode(m)
    PROVE  DocsInv'
<1>1. CASE TypeCredential \/ ClearCredential
    BY <1>1 DEF DocsInv, TypeCredential, ClearCredential, Confined
<1>2. ASSUME NEW m, SwitchMode(m)
      PROVE  DocsInv'
  <2>1. mode' = m /\ mode' \in Modes
      BY <1>2, DocsAssumption DEF SwitchMode
  <2>2. earlySwitch' = (earlySwitch \/ (~Listening /\ value # NoCredential))
      BY <1>2 DEF SwitchMode
  <2>3. earlySwitch' \in BOOLEAN /\ (earlySwitch => earlySwitch')
      BY <2>2 DEF DocsInv
  <2>4. value' \in Modes \cup {NoCredential} /\ (value' = NoCredential \/ earlySwitch')
    <3>1. CASE Listening
        BY <1>2, <3>1 DEF SwitchMode
    <3>2. CASE ~Listening
        BY <1>2, <2>2, <3>2 DEF SwitchMode, DocsInv
    <3> QED
        BY <3>1, <3>2
  <2>5. \A c \in Calls : Confined(calls[c])'
      BY <2>3 DEF DocsInv, Confined
  <2> QED
      BY <2>1, <2>3, <2>4, <2>5 DEF DocsInv
<1> QED
    BY <1>1, <1>2

LEMMA StepExecute ==
    ASSUME DocsInv, NEW c \in Calls, NEW op, Execute(c, op), UNCHANGED formVars
    PROVE  DocsInv'
<1> DEFINE new == [NoCall EXCEPT !.op = op, !.state = "queued"]
<1>1. /\ calls' = [calls EXCEPT ![c] = new] /\ new.header = NoCredential
      /\ new \in Requests
    BY DEF Execute, NoCall, Requests
<1> HIDE DEF new
<1>2. Confined(new)
    BY <1>1 DEF Confined
<1> QED
    BY <1>1, <1>2, OneCall

LEMMA StepIntercept ==
    ASSUME DocsInv, NEW c \in Calls, Intercept(c)
    PROVE  DocsInv'
<1> DEFINE own == calls[c].op \in Catalog /\ value # NoCredential
           new == [calls[c] EXCEPT !.state = "sent",
                       !.header = IF own THEN mode ELSE NoCredential,
                       !.secret = IF own THEN value ELSE NoCredential]
<1>1. calls' = [calls EXCEPT ![c] = new] /\ UNCHANGED formVars
    BY DEF Intercept
<1>0. calls[c] \in Requests /\ mode \in Modes /\ value \in Modes \cup {NoCredential}
    BY DEF DocsInv
<1>3. new \in Requests /\ new.op = calls[c].op
    BY <1>0 DEF Requests
<1>4. /\ new.header = IF own THEN mode ELSE NoCredential
      /\ new.secret = IF own THEN value ELSE NoCredential
    BY <1>0 DEF Requests
<1> HIDE DEF new
<1>2. Confined(new)
  <2>1. CASE ~own
      BY <1>4, <2>1 DEF Confined
  <2>2. CASE own
      BY <1>3, <1>4, <2>2 DEF Confined, DocsInv
  <2> QED
      BY <2>1, <2>2
<1> QED
    BY <1>1, <1>2, <1>3, OneCall

LEMMA StepRespond ==
    ASSUME DocsInv, NEW c \in Calls, Respond(c)
    PROVE  DocsInv'
<1> DEFINE new == [calls[c] EXCEPT !.state = "answered"]
<1>1. calls' = [calls EXCEPT ![c] = new] /\ UNCHANGED formVars
    BY DEF Respond
<1>2. new \in Requests /\ Confined(new)
    BY DEF Confined, DocsInv, Requests
<1> HIDE DEF new
<1> QED
    BY <1>1, <1>2, OneCall

LEMMA StepLoadPage ==
    ASSUME DocsInv, NEW parts, LoadPage(parts)
    PROVE  DocsInv'
<1>1. NoCall.header = NoCredential /\ NoCall \in Requests
    BY DEF NoCall, Requests, Operations, Catalog
<1> QED
    BY <1>1, DocsAssumption DEF LoadPage, DocsInv, Confined, Modes

LEMMA Idle ==
    ASSUME DocsInv, UNCHANGED formVars, UNCHANGED calls
    PROVE  DocsInv'
BY DEF DocsInv, formVars, Confined

LEMMA StepDocs == DocsInv /\ [DocsNext]_docsVars => DocsInv'
<1> SUFFICES ASSUME DocsInv, [DocsNext]_docsVars
             PROVE  DocsInv'
    OBVIOUS
<1>1. CASE OpenDocs
    BY <1>1, StepLoadPage DEF OpenDocs
<1>2. CASE Assets \/ StartDocs \/ FetchContract \/ Render \/ FireLoad
    BY <1>2, Idle DEF Assets, StartDocs, FetchContract, Render, FireLoad
<1>3. ASSUME NEW c \in Calls, Intercept(c) \/ Respond(c)
      PROVE  DocsInv'
    BY <1>3, StepIntercept, StepRespond
<1>4. CASE DocsPerson
  <2>1. \/ \E m \in Modes : SwitchMode(m) /\ UNCHANGED calls
        \/ (TypeCredential \/ ClearCredential) /\ UNCHANGED calls
        \/ \E c \in Calls, op \in Operations : Execute(c, op) /\ UNCHANGED formVars
      BY <1>4 DEF DocsPerson
  <2> QED
      BY <2>1, FormStep, StepExecute
<1>5. CASE DocsJourneyStep
  <2> DEFINE step == DocsJourney[docsStep]
  <2>1. TheCall \in Calls
      BY DocsAssumption DEF TheCall
  <2>2. \/ UNCHANGED <<pageVars, formVars, calls>>
        \/ (TypeCredential \/ ClearCredential \/ SwitchMode(step.to)) /\ UNCHANGED calls
        \/ Execute(TheCall, step.op) /\ UNCHANGED formVars
        \/ LoadPage(step.broken)
      BY <1>5 DEF DocsJourneyStep
  <2> QED
      BY <2>1, <2>2, Idle, FormStep, StepExecute, StepLoadPage
<1>6. CASE UNCHANGED docsVars
    BY <1>6, Idle DEF docsVars
<1> QED
    BY <1>1, <1>2, <1>3, <1>4, <1>5, <1>6 DEF DocsNext, DocsStepNext, PageStep

LEMMA DocsStarts == DocsInit => DocsInv
<1>1. NoCall.header = NoCredential /\ NoCall \in Requests
    BY DEF NoCall, Requests, Operations, Catalog
<1> QED
    BY <1>1, DocsAssumption DEF DocsInit, DocsInv, Confined, Modes

\* A credential leaves the page only for the catalog reads and under the header
\* of its method (docs.js: requestInterceptor and the method's listener).
THEOREM CredentialsConfined == DocsSpec => []CredentialConfined
<1>1. DocsInv => CredentialConfined
    BY DEF DocsInv, CredentialConfined, Confined
<1> QED
    BY <1>1, DocsStarts, StepDocs, PTL DEF DocsSpec

-----------------------------------------------------------------------------
(* The workspace: fresh identities *)

\* Seven identities are not all of them.
LEMMA Spare ==
    ASSUME NEW S \in {Handles, Tokens},
           NEW a, NEW b, NEW c, NEW d, NEW e, NEW f, NEW g
    PROVE  \E x \in S : x \notin {a, b, c, d, e, f, g}
<1>1. ASSUME NEW T, IsFiniteSet(T), NEW n \in Nat, Cardinality(T) <= n, NEW x
      PROVE  IsFiniteSet(T \cup {x}) /\ Cardinality(T \cup {x}) <= n + 1
  <2>1. /\ IsFiniteSet(T \cup {x})
        /\ Cardinality(T \cup {x}) = IF x \in T THEN Cardinality(T) ELSE Cardinality(T) + 1
      BY <1>1, FS_AddElement
  <2>2. Cardinality(T) \in Nat
      BY <1>1, FS_CardinalityType
  <2> QED
      BY <1>1, <2>1, <2>2
<1>2. IsFiniteSet({a}) /\ Cardinality({a}) <= 1
  <2>1. IsFiniteSet({a}) /\ Cardinality({a}) = 1
      BY FS_Singleton, Zenon
  <2> QED
      BY <2>1
<1>3. IsFiniteSet({a, b}) /\ Cardinality({a, b}) <= 2
  <2>1. {a} \cup {b} = {a, b}
      OBVIOUS
  <2>2. /\ IsFiniteSet({a} \cup {b})
        /\ Cardinality({a} \cup {b}) <= 1 + 1
      BY <1>1, <1>2
  <2> QED
      BY <2>1, <2>2
<1>4. IsFiniteSet({a, b, c}) /\ Cardinality({a, b, c}) <= 3
  <2>1. {a, b} \cup {c} = {a, b, c}
      OBVIOUS
  <2>2. /\ IsFiniteSet({a, b} \cup {c})
        /\ Cardinality({a, b} \cup {c}) <= 2 + 1
      BY <1>1, <1>3
  <2> QED
      BY <2>1, <2>2
<1>5. IsFiniteSet({a, b, c, d}) /\ Cardinality({a, b, c, d}) <= 4
  <2>1. {a, b, c} \cup {d} = {a, b, c, d}
      OBVIOUS
  <2>2. /\ IsFiniteSet({a, b, c} \cup {d})
        /\ Cardinality({a, b, c} \cup {d}) <= 3 + 1
      BY <1>1, <1>4
  <2> QED
      BY <2>1, <2>2
<1>6. IsFiniteSet({a, b, c, d, e}) /\ Cardinality({a, b, c, d, e}) <= 5
  <2>1. {a, b, c, d} \cup {e} = {a, b, c, d, e}
      OBVIOUS
  <2>2. /\ IsFiniteSet({a, b, c, d} \cup {e})
        /\ Cardinality({a, b, c, d} \cup {e}) <= 4 + 1
      BY <1>1, <1>5
  <2> QED
      BY <2>1, <2>2
<1>7. IsFiniteSet({a, b, c, d, e, f}) /\ Cardinality({a, b, c, d, e, f}) <= 6
  <2>1. {a, b, c, d, e} \cup {f} = {a, b, c, d, e, f}
      OBVIOUS
  <2>2. /\ IsFiniteSet({a, b, c, d, e} \cup {f})
        /\ Cardinality({a, b, c, d, e} \cup {f}) <= 5 + 1
      BY <1>1, <1>6
  <2> QED
      BY <2>1, <2>2
<1>8. IsFiniteSet({a, b, c, d, e, f, g}) /\ Cardinality({a, b, c, d, e, f, g}) <= 7
  <2>1. {a, b, c, d, e, f} \cup {g} = {a, b, c, d, e, f, g}
      OBVIOUS
  <2>2. /\ IsFiniteSet({a, b, c, d, e, f} \cup {g})
        /\ Cardinality({a, b, c, d, e, f} \cup {g}) <= 6 + 1
      BY <1>1, <1>7
  <2> QED
      BY <2>1, <2>2
<1>9. SUFFICES ASSUME S \subseteq {a, b, c, d, e, f, g}
                PROVE  FALSE
    OBVIOUS
<1>10. IsFiniteSet(S) /\ Cardinality(S) <= Cardinality({a, b, c, d, e, f, g})
    BY <1>8, <1>9, FS_Subset
<1>11. Cardinality(S) > 7 /\ Cardinality(S) \in Nat
    BY <1>10, FreshAssumption, FS_CardinalityType
<1>12. Cardinality({a, b, c, d, e, f, g}) \in Nat
    BY <1>8, FS_CardinalityType
<1> QED
    BY <1>8, <1>10, <1>11, <1>12

\* The cookie that a tab's navigation carries, if any.
Brought(t) == CHOOSE c : request[t] # None /\ c \in request[t].set

LEMMA CarriedCookies ==
    ASSUME WorkspaceInv, NEW c \in Carried
    PROVE  c \in {cookie, Brought("page"), Brought("tab")}
<1>1. ASSUME NEW t \in Tabs, request[t] # None, c \in request[t].set
      PROVE  c = Brought(t)
  <2>1. request[t] \in Navigations
      BY <1>1 DEF WorkspaceInv
  <2>2. \A x, y \in request[t].set : x = y
      BY <2>1 DEF Navigations
  <2> QED
      BY <1>1, <2>2 DEF Brought
<1> QED
    BY <1>1 DEF Carried, Tabs

LEMMA FreshHandleType ==
    ASSUME WorkspaceInv
    PROVE  FreshHandle \in Handles
<1> DEFINE taken == {c.handle : c \in Carried} \cup {doc[t].session : t \in Tabs}
<1>1. taken \subseteq {cookie.handle, Brought("page").handle, Brought("tab").handle,
                       doc["page"].session, doc["tab"].session,
                       doc["page"].session, doc["tab"].session}
    BY CarriedCookies DEF Tabs
<1>2. \E h \in Handles :
          h \notin {cookie.handle, Brought("page").handle, Brought("tab").handle,
                    doc["page"].session, doc["tab"].session,
                    doc["page"].session, doc["tab"].session}
    BY Spare
<1>3. \E h \in Handles : h \notin taken
    BY <1>1, <1>2
<1> QED
    BY <1>3 DEF FreshHandle

LEMMA FreshTokenType ==
    ASSUME WorkspaceInv
    PROVE  FreshToken \in Tokens
<1> DEFINE taken == {c.csrf : c \in Carried} \cup {doc[t].token : t \in Tabs}
                        \cup {request[t].doc.token : t \in {u \in Tabs : request[u] # None}}
<1>1. taken \subseteq {cookie.csrf, Brought("page").csrf, Brought("tab").csrf,
                       doc["page"].token, doc["tab"].token,
                       request["page"].doc.token, request["tab"].doc.token}
    BY CarriedCookies DEF Tabs
<1>2. \E k \in Tokens :
          k \notin {cookie.csrf, Brought("page").csrf, Brought("tab").csrf,
                    doc["page"].token, doc["tab"].token,
                    request["page"].doc.token, request["tab"].doc.token}
    BY Spare
<1>3. \E k \in Tokens : k \notin taken
    BY <1>1, <1>2
<1> QED
    BY <1>3 DEF FreshToken

-----------------------------------------------------------------------------
(* The workspace: the server's answers *)

\* The documents of the server's answers.
Answered == {d \in Arrivals : d.queued = FALSE /\ d.recovery = "no"}
Statuses == {200, 303, 403, 422, 503}
Answers ==
    [status : Statuses, to : Urls \cup {None}, cookie : Cookies, row : Rows,
     doc : Answered]
Posts ==
    {p \in [form : {"sign_in", "sign_out"}, who : Accounts \cup {None}, right : BOOLEAN,
            token : Tokens \cup {None}, path : Paths, foreign : BOOLEAN] :
        p.form = "sign_in" => p.who \in Accounts}

LEMMA UrlTypes ==
    /\ \A p \in Paths, e \in BOOLEAN : SignInPage(p, e) \in Urls
    /\ \A p \in {"portfolio", "orders"} : Private(p) \in Urls
    /\ \A p : Destination(p) \in {"portfolio", "orders"} /\ Destination(p) \in Paths
    /\ \A u \in Urls : u.path \in Paths /\ u.ended \in BOOLEAN
<1>1. \A p \in Paths, e \in BOOLEAN : SignInPage(p, e) \in Urls
    BY DEF Urls
<1>2. \A p \in {"portfolio", "orders"} : Private(p) \in Urls
    BY DEF Urls
<1>3. \A p : Destination(p) \in {"portfolio", "orders"}
    BY DEF Destination
<1>4. ASSUME NEW u \in Urls
      PROVE  u.path \in Paths /\ u.ended \in BOOLEAN
  <2>1. CASE \E p \in Paths, e \in BOOLEAN : u = SignInPage(p, e)
      BY <2>1 DEF SignInPage
  <2>2. CASE \E p \in {"portfolio", "orders"} : u = Private(p)
      BY <2>2 DEF Private, Paths
  <2> QED
      BY <2>1, <2>2 DEF Urls
<1> QED
    BY <1>1, <1>2, <1>3, <1>4 DEF Paths

LEMMA BlankTypes ==
    ASSUME NEW p \in Screens, NEW u \in Urls
    PROVE  /\ Blank \in Answered
           /\ [Blank EXCEPT !.page = p, !.url = u] \in Answered
           /\ \A m \in Messages, k \in Tokens :
                 [Blank EXCEPT !.page = p, !.url = u, !.message = m, !.token = k] \in Answered
<1>1. Blank \in Documents
  <2>1. Private("portfolio") \in Urls
      BY UrlTypes
  <2> QED
      BY <2>1 DEF Blank, Documents, Screens, Messages
<1>2. ASSUME NEW d \in Documents, d.socket = "none", d.session = None, d.recovery = "no", ~d.queued
      PROVE  d \in Answered
    BY <1>2 DEF Answered, Arrivals, Shows, Disposed
<1>3. Blank \in Answered
    BY <1>1, <1>2 DEF Blank
<1>4. [Blank EXCEPT !.page = p, !.url = u] \in Answered
  <2> DEFINE d == [Blank EXCEPT !.page = p, !.url = u]
  <2>1. d \in Documents
      BY <1>1 DEF Documents
  <2>2. d.socket = "none" /\ d.session = None /\ d.recovery = "no" /\ ~d.queued
      BY DEF Blank
  <2> HIDE DEF d
  <2>3. d \in Answered
      BY <1>2, <2>1, <2>2
  <2> QED
      BY <2>3 DEF d
<1>5. ASSUME NEW m \in Messages, NEW k \in Tokens
      PROVE  [Blank EXCEPT !.page = p, !.url = u, !.message = m, !.token = k] \in Answered
  <2> DEFINE d == [Blank EXCEPT !.page = p, !.url = u, !.message = m, !.token = k]
  <2>1. d \in Documents
      BY <1>1 DEF Documents
  <2>2. d.socket = "none" /\ d.session = None /\ d.recovery = "no" /\ ~d.queued
      BY DEF Blank
  <2> HIDE DEF d
  <2>3. d \in Answered
      BY <1>2, <2>1, <2>2
  <2> QED
      BY <2>3 DEF d
<1> QED
    BY <1>3, <1>4, <1>5

\* Each of these answers leaves what the types allow.
LEMMA RedirectAnswer ==
    ASSUME NEW c \in Cookies, NEW rows \in Rows, NEW url \in Urls
    PROVE  Redirect(c, rows, url) \in Answers
<1>1. Blank \in Answered
  <2>1. "blank" \in Screens
      BY DEF Screens
  <2> QED
      BY <2>1, BlankTypes
<1> QED
    BY <1>1 DEF Redirect, Answers, Statuses

LEMMA PlainAnswer ==
    ASSUME WorkspaceInv, NEW c \in Cookies, NEW url \in Urls,
           NEW status \in Statuses, NEW p \in Screens
    PROVE  Plain(status, c, p, url) \in Answers
<1>1. [Blank EXCEPT !.page = p, !.url = url] \in Answered
    BY BlankTypes
<1>2. row \in Rows
    BY DEF WorkspaceInv
<1> QED
    BY <1>1, <1>2 DEF Plain, Answers

LEMMA RenderedAnswer ==
    ASSUME WorkspaceInv, NEW c \in Cookies, NEW rows \in Rows, NEW url \in Urls,
           NEW status \in Statuses,
           NEW p \in Screens,
           NEW m \in Messages
    PROVE  Rendered(status, c, rows, p, url, m) \in Answers
<1> DEFINE k == IF c.csrf = None THEN FreshToken ELSE c.csrf
           d == [Blank EXCEPT !.page = p, !.url = url, !.message = m, !.token = k]
           b == [c EXCEPT !.csrf = k]
<1>1. k \in Tokens
    BY FreshTokenType DEF Cookies
<1>2. b \in Cookies
    BY <1>1 DEF Cookies
<1> HIDE DEF k
<1>3. d \in Answered
    BY <1>1, BlankTypes
<1>4. Rendered(status, c, rows, p, url, m) =
          [status |-> status, to |-> None, cookie |-> b, row |-> rows, doc |-> d]
    BY DEF Rendered, k
<1> HIDE DEF d, b
<1> QED
    BY <1>2, <1>3, <1>4 DEF Answers

\* For each message in turn.
LEMMA RenderedAnswers ==
    ASSUME WorkspaceInv, NEW c \in Cookies, NEW url \in Urls, NEW p \in Screens
    PROVE  \A s \in Statuses, m \in Messages :
              Rendered(s, c, row, p, url, m) \in Answers
<1>1. row \in Rows
    BY DEF WorkspaceInv
<1> QED
    BY <1>1, RenderedAnswer

\* A session row is written.
LEMMA RowWritten ==
    ASSUME NEW rows \in Rows, NEW h \in Handles, NEW s \in Sessions,
           s.state = "authenticated" => s.user \in Accounts
    PROVE  [rows EXCEPT ![h] = s] \in Rows
BY DEF Rows

LEMMA NewAnonymousAnswer ==
    ASSUME WorkspaceInv, NEW c \in Cookies, NEW url \in Urls,
           NEW status \in Statuses,
           NEW m \in Messages
    PROVE  NewAnonymous(status, c, url, m) \in Answers
<1> DEFINE h == FreshHandle
           s == [user |-> None, state |-> "anonymous"]
           b == [c EXCEPT !.handle = h]
           rows == [row EXCEPT ![h] = s]
<1>1. h \in Handles
    BY FreshHandleType
<1> HIDE DEF h
<1>2. b \in Cookies
    BY <1>1 DEF Cookies
<1>3. rows \in Rows
  <2>1. s \in Sessions /\ s.state # "authenticated" /\ row \in Rows
      BY DEF Sessions, WorkspaceInv
  <2> QED
      BY <1>1, <2>1, RowWritten
<1> HIDE DEF s, b, rows
<1>4. NewAnonymous(status, c, url, m) = Rendered(status, b, rows, "form", url, m)
    BY DEF NewAnonymous, h, s, b, rows
<1> QED
  <2>1. "form" \in Screens
      BY DEF Screens
  <2> QED
      BY <1>2, <1>3, <1>4, <2>1, RenderedAnswer

LEMMA LiveSession ==
    ASSUME WorkspaceInv, NEW h \in Handles \cup {None}, Live(h)
    PROVE  h \in Handles /\ row[h].user \in Accounts
             /\ address[row[h].user] \in Accounts \cup {"changed"}
<1>1. h \in Handles /\ row \in Rows /\ row[h].state = "authenticated"
    BY DEF Live, WorkspaceInv
<1>2. row[h].user \in Accounts
    BY <1>1 DEF Rows
<1> QED
    BY <1>1, <1>2 DEF WorkspaceInv

LEMMA GetAnswer ==
    ASSUME WorkspaceInv, NEW c \in Cookies, NEW url \in Urls
    PROVE  Get(c, url) \in Answers /\ GetSignIn(c, url) \in Answers
<1>1. row \in Rows /\ c.handle \in Handles \cup {None}
    BY DEF WorkspaceInv, Cookies
<1>2. /\ "form" \in Screens /\ "private" \in Screens /\ "unavailable" \in Screens
      /\ None \in Messages /\ "unavailable" \in Messages /\ "ended" \in Messages
      /\ 200 \in Statuses /\ 503 \in Statuses
    BY DEF Screens, Messages, Statuses
<1>3. GetSignIn(c, url) \in Answers
  <2>1. CASE Unavailable
    <3>1. GetSignIn(c, url) = Rendered(503, c, row, "form", url, "unavailable")
        BY <2>1 DEF GetSignIn, Form
    <3>2. \A s \in Statuses, m \in Messages : Rendered(s, c, row, "form", url, m) \in Answers
        BY <1>2, RenderedAnswers
    <3> QED
        BY <1>2, <3>1, <3>2
  <2>2. CASE ~Unavailable /\ Live(c.handle)
    <3>1. GetSignIn(c, url) = Redirect(c, row, Private(Destination(url.path)))
        BY <2>2 DEF GetSignIn
    <3>2. Private(Destination(url.path)) \in Urls
        BY UrlTypes
    <3> QED
        BY <1>1, <3>1, <3>2, RedirectAnswer
  <2>3. CASE ~Unavailable /\ ~Live(c.handle)
    <3>1. GetSignIn(c, url) = NewAnonymous(200, c, url, IF url.ended THEN "ended" ELSE None)
        BY <2>3 DEF GetSignIn
    <3> QED
        BY <1>2, <3>1, NewAnonymousAnswer
  <2> QED
      BY <2>1, <2>2, <2>3
<1>4. GetPrivate(c, url) \in Answers
  <2>1. CASE Unavailable
    <3>1. GetPrivate(c, url) = Plain(503, c, "unavailable", url)
        BY <2>1 DEF GetPrivate
    <3> QED
        BY <1>2, <3>1, PlainAnswer
  <2>2. CASE ~Unavailable /\ Live(c.handle)
    <3> DEFINE page0 == Rendered(200, c, row, "private", url, None)
               email == address[row[c.handle].user]
               shown == [page0.doc EXCEPT !.email = email, !.socket = "joining"]
    <3>1. page0 \in Answers
      <4>1. \A s \in Statuses, m \in Messages : Rendered(s, c, row, "private", url, m) \in Answers
          BY <1>2, RenderedAnswers
      <4> QED
          BY <1>2, <4>1
    <3>2. email \in Accounts \cup {"changed"}
        BY <1>1, <2>2, LiveSession
    <3> HIDE DEF page0, email
    <3>3. page0.doc \in Answered
        BY <3>1 DEF Answers
    <3>4. shown \in Answered
      <4>1. /\ shown \in Documents /\ shown.queued = FALSE /\ shown.recovery = "no"
            /\ shown.socket = "joining" /\ shown.session = None
          BY <3>2, <3>3 DEF Answered, Arrivals, Shows, Documents
      <4> HIDE DEF shown
      <4> QED
          BY <4>1 DEF Answered, Arrivals, Shows, Disposed
    <3>5. GetPrivate(c, url) = [page0 EXCEPT !.doc = shown]
      <4>1. GetPrivate(c, url) = [page0 EXCEPT !.doc.email = email, !.doc.socket = "joining"]
          BY <2>2 DEF GetPrivate, page0, email
      <4> QED
          BY <3>1, <4>1 DEF Answers
    <3> HIDE DEF shown
    <3> QED
        BY <3>1, <3>4, <3>5 DEF Answers
  <2>3. CASE ~Unavailable /\ ~Live(c.handle)
    <3>1. GetPrivate(c, url) = Redirect(c, row, SignInPage(Destination(url.path), TRUE))
        BY <2>3 DEF GetPrivate
    <3>2. SignInPage(Destination(url.path), TRUE) \in Urls
        BY UrlTypes
    <3> QED
        BY <1>1, <3>1, <3>2, RedirectAnswer
  <2> QED
      BY <2>1, <2>2, <2>3
<1> QED
    BY <1>3, <1>4 DEF Get

LEMMA PostSignInAnswer ==
    ASSUME WorkspaceInv, NEW c \in Cookies, NEW post \in Posts, post.form = "sign_in"
    PROVE  PostSignIn(c, post) \in Answers
<1> DEFINE url == SignInPage(post.path, FALSE)
           to == Private(Destination(post.path))
           h == FreshHandle
<1>1. /\ row \in Rows /\ c.handle \in Handles \cup {None}
      /\ post.path \in Paths /\ post.who \in Accounts
    BY DEF WorkspaceInv, Cookies, Posts
<1>2. /\ "form" \in Screens /\ "denied" \in Screens
      /\ "unavailable" \in Messages /\ "invalid" \in Messages /\ "expired" \in Messages
      /\ 403 \in Statuses /\ 422 \in Statuses /\ 503 \in Statuses
    BY DEF Screens, Messages, Statuses
<1>3. url \in Urls /\ to \in Urls
    BY <1>1, UrlTypes
<1>4. h \in Handles
    BY FreshHandleType
<1> HIDE DEF url, to, h
<1>5. CASE PostSignIn(c, post) = Plain(403, c, "denied", url)
    BY <1>2, <1>3, <1>5, PlainAnswer
<1>6. CASE \/ PostSignIn(c, post) = Rendered(503, c, row, "form", url, "unavailable")
           \/ PostSignIn(c, post) = Rendered(422, c, row, "form", url, "invalid")
  <2>1. \A s \in Statuses, m \in Messages : Rendered(s, c, row, "form", url, m) \in Answers
      BY <1>2, <1>3, RenderedAnswers
  <2> QED
      BY <1>2, <1>6, <2>1
<1>7. CASE PostSignIn(c, post) = Redirect(c, row, to)
    BY <1>1, <1>3, <1>7, RedirectAnswer
<1>8. CASE PostSignIn(c, post) = NewAnonymous(422, c, url, "expired")
    BY <1>2, <1>3, <1>8, NewAnonymousAnswer
<1>9. CASE Authenticable(c.handle)
           /\ PostSignIn(c, post) =
                  Redirect([handle |-> h, csrf |-> None],
                           [row EXCEPT ![c.handle].state = "ended",
                                       ![h] = [user |-> post.who, state |-> "authenticated"]], to)
  <2> DEFINE old == [row[c.handle] EXCEPT !.state = "ended"]
             new == [user |-> post.who, state |-> "authenticated"]
             rows == [row EXCEPT ![c.handle] = old]
  <2>1. c.handle \in Handles /\ row[c.handle] \in Sessions
      BY <1>1, <1>9 DEF Authenticable, Rows
  <2>2. old \in Sessions /\ old.state = "ended" /\ new \in Sessions /\ new.user \in Accounts
      BY <1>1, <2>1 DEF Sessions
  <2>3. rows \in Rows
    <3> HIDE DEF old
    <3> QED
        BY <1>1, <2>1, <2>2, RowWritten
  <2>4. [rows EXCEPT ![h] = new] \in Rows
    <3> HIDE DEF rows, new
    <3> QED
        BY <1>4, <2>2, <2>3, RowWritten
  <2>5. [handle |-> h, csrf |-> None] \in Cookies
      BY <1>4 DEF Cookies
  <2>6. [row EXCEPT ![c.handle].state = "ended", ![h] = new] = [rows EXCEPT ![h] = new]
      OBVIOUS
  <2> HIDE DEF rows
  <2> QED
      BY <1>3, <1>9, <2>4, <2>5, <2>6, RedirectAnswer
<1>10. CASE ~Accepted(c, post)
    BY <1>5, <1>10 DEF PostSignIn, url
<1>11. CASE Accepted(c, post) /\ (Unavailable \/ (~Live(c.handle) /\ ~post.right))
    BY <1>6, <1>11 DEF PostSignIn, Form, url
<1>12. CASE Accepted(c, post) /\ ~Unavailable /\ Live(c.handle)
    BY <1>7, <1>12 DEF PostSignIn, to
<1>13. CASE Accepted(c, post) /\ ~Unavailable /\ ~Live(c.handle) /\ post.right
    BY <1>8, <1>9, <1>13 DEF PostSignIn, url, to, h
<1> QED
    BY <1>10, <1>11, <1>12, <1>13

LEMMA PostSignOutAnswer ==
    ASSUME WorkspaceInv, NEW c \in Cookies, NEW post \in Posts
    PROVE  PostSignOut(c, post) \in Answers
<1>1. /\ row \in Rows /\ c.handle \in Handles \cup {None}
      /\ Private("portfolio") \in Urls /\ SignInPage("portfolio", TRUE) \in Urls
    BY UrlTypes DEF WorkspaceInv, Cookies, Paths
<1>2. /\ "sign_out_failed" \in Screens /\ "denied" \in Screens /\ "retry" \in Messages
      /\ 403 \in Statuses /\ 503 \in Statuses
    BY DEF Screens, Messages, Statuses
<1>3. CASE PostSignOut(c, post) = Plain(403, c, "denied", Private("portfolio"))
    BY <1>1, <1>2, <1>3, PlainAnswer
<1>4. CASE PostSignOut(c, post) =
               Rendered(503, c, row, "sign_out_failed", Private("portfolio"), "retry")
  <2> DEFINE url == Private("portfolio")
  <2>1. url \in Urls
      BY <1>1
  <2>2. \A s \in Statuses, m \in Messages :
            Rendered(s, c, row, "sign_out_failed", url, m) \in Answers
      BY <1>2, <2>1, RenderedAnswers
  <2> QED
      BY <1>2, <1>4, <2>2
<1>5. ASSUME NEW rows,
             rows = [h \in Handles |-> IF h = c.handle THEN [row[h] EXCEPT !.state = "ended"]
                                       ELSE row[h]],
             PostSignOut(c, post) = Redirect(NoCookie, rows, SignInPage("portfolio", TRUE))
      PROVE  PostSignOut(c, post) \in Answers
  <2>1. ASSUME NEW h \in Handles
        PROVE  rows[h] \in Sessions /\ (rows[h].state = "authenticated" => rows[h].user \in Accounts)
      BY <1>1, <1>5 DEF Rows, Sessions
  <2>2. rows \in Rows
      BY <1>5, <2>1 DEF Rows
  <2>3. NoCookie \in Cookies
      BY DEF NoCookie, Cookies
  <2> QED
      BY <1>1, <1>5, <2>2, <2>3, RedirectAnswer
<1> QED
    BY <1>3, <1>4, <1>5 DEF PostSignOut

LEMMA PostAnswer ==
    ASSUME WorkspaceInv, NEW c \in Cookies, NEW post \in Posts
    PROVE  Post(c, post) \in Answers
<1>1. post.form \in {"sign_in", "sign_out"}
    BY DEF Posts
<1> QED
    BY <1>1, PostSignInAnswer, PostSignOutAnswer DEF Post

-----------------------------------------------------------------------------
(* The workspace: what happens to a document *)

\* A document recovers: its socket is closed for good.
LEMMA RecoveredShows ==
    ASSUME NEW d \in Shows
    PROVE  Recovered(d) \in Shows
<1> DEFINE r == IF d.recovery = "no" THEN "asking" ELSE d.recovery
           e == [d EXCEPT !.email = None, !.session = None, !.recovery = r, !.restored = FALSE,
                          !.socket = "closed"]
<1>1. d \in Documents
    BY DEF Shows
<1>2. Recovered(d) = e
    BY <1>1 DEF Recovered, Concealed, Documents
<1>3. r \in {"no", "asking", "asked"}
    BY <1>1 DEF Documents
<1> HIDE DEF r
<1>4. e \in Documents /\ e.socket = "closed" /\ e.session = None
    BY <1>1, <1>3 DEF Documents
<1> HIDE DEF e
<1>5. e \in Shows
    BY <1>4 DEF Shows, Disposed
<1> QED
    BY <1>2, <1>5

\* The browser keeps a document, concealed and without its connection.
LEMMA KeptArrives ==
    ASSUME NEW d \in Shows
    PROVE  [Concealed(d) EXCEPT !.socket = "closed", !.restored = TRUE] \in Arrivals
<1> DEFINE e == [d EXCEPT !.email = None, !.session = None, !.socket = "closed",
                          !.restored = TRUE]
<1>1. d \in Documents
    BY DEF Shows
<1>2. [Concealed(d) EXCEPT !.socket = "closed", !.restored = TRUE] = e
    BY <1>1 DEF Concealed, Documents
<1>3. e \in Documents /\ e.socket = "closed" /\ e.session = None
    BY <1>1 DEF Documents
<1> HIDE DEF e
<1>4. e \in Arrivals
    BY <1>3 DEF Arrivals, Shows, Disposed
<1> QED
    BY <1>2, <1>4

\* Its LiveView is gone, or its page asked for a reload.
LEMMA EndedShows ==
    ASSUME NEW d \in Shows
    PROVE  /\ [d EXCEPT !.socket = "closed", !.session = None] \in Shows
           /\ d.recovery = "asking" => [d EXCEPT !.recovery = "asked"] \in Shows
<1>1. d \in Documents /\ Disposed(d) /\ (d.socket = "live" <=> d.session # None)
    BY DEF Shows
<1>2. [d EXCEPT !.socket = "closed", !.session = None] \in Shows
  <2> DEFINE e == [d EXCEPT !.socket = "closed", !.session = None]
  <2>1. e \in Documents /\ e.socket = "closed" /\ e.session = None
      BY <1>1 DEF Documents
  <2> HIDE DEF e
  <2>2. e \in Shows
      BY <2>1 DEF Shows, Disposed
  <2> QED
      BY <2>2 DEF e
<1>3. ASSUME d.recovery = "asking"
      PROVE  [d EXCEPT !.recovery = "asked"] \in Shows
  <2> DEFINE e == [d EXCEPT !.recovery = "asked"]
  <2>1. e \in Documents /\ e.socket = d.socket /\ e.session = d.session
      BY <1>1 DEF Documents
  <2>2. d.socket = "closed"
      BY <1>1, <1>3 DEF Disposed
  <2> HIDE DEF e
  <2>3. e \in Shows
      BY <1>1, <2>1, <2>2 DEF Shows, Disposed
  <2> QED
      BY <2>3 DEF e
<1> QED
    BY <1>2, <1>3

\* A socket that may join has nothing in its queue, whatever happened before.
LEMMA JoinedShows ==
    ASSUME NEW d \in Shows, d.socket = "joining", NEW h \in Handles,
           NEW e \in Accounts \cup {"changed"}
    PROVE  /\ ~d.queued
           /\ [d EXCEPT !.socket = "live", !.session = h, !.email = e, !.queued = FALSE] \in Shows
<1> DEFINE f == [d EXCEPT !.socket = "live", !.session = h, !.email = e, !.queued = FALSE]
<1>1. d \in Documents /\ ~d.queued /\ d.recovery = "no"
    BY DEF Shows, Disposed, Documents
<1>2. /\ f \in Documents /\ f.socket = "live" /\ f.session = h /\ f.queued = FALSE
      /\ f.recovery = "no"
    BY <1>1 DEF Documents
<1>3. h # None
    BY WorkspaceAssumption
<1> HIDE DEF f
<1>4. f \in Shows
    BY <1>2, <1>3 DEF Shows, Disposed
<1> QED
    BY <1>1, <1>4 DEF f

\* Its account has a new name, or it shows another page of the workspace.
LEMMA RenamedShows ==
    ASSUME NEW d \in Shows
    PROVE  /\ \A e \in Accounts \cup {"changed"} : [d EXCEPT !.email = e] \in Shows
           /\ \A u \in Urls : [d EXCEPT !.url = u] \in Shows
<1>1. d \in Documents /\ Disposed(d) /\ (d.socket = "live" <=> d.session # None)
    BY DEF Shows
<1>2. ASSUME NEW f \in Documents, f.socket = d.socket, f.session = d.session,
             f.recovery = d.recovery, f.queued = d.queued
      PROVE  f \in Shows
    BY <1>1, <1>2 DEF Shows, Disposed
<1>3. ASSUME NEW e \in Accounts \cup {"changed"}
      PROVE  [d EXCEPT !.email = e] \in Shows
  <2> DEFINE f == [d EXCEPT !.email = e]
  <2>1. /\ f \in Documents /\ f.socket = d.socket /\ f.session = d.session
        /\ f.recovery = d.recovery /\ f.queued = d.queued
      BY <1>1 DEF Documents
  <2> HIDE DEF f
  <2>2. f \in Shows
      BY <1>2, <2>1
  <2> QED
      BY <2>2 DEF f
<1>4. ASSUME NEW u \in Urls
      PROVE  [d EXCEPT !.url = u] \in Shows
  <2> DEFINE f == [d EXCEPT !.url = u]
  <2>1. /\ f \in Documents /\ f.socket = d.socket /\ f.session = d.session
        /\ f.recovery = d.recovery /\ f.queued = d.queued
      BY <1>1 DEF Documents
  <2> HIDE DEF f
  <2>2. f \in Shows
      BY <1>2, <2>1
  <2> QED
      BY <2>2 DEF f
<1> QED
    BY <1>3, <1>4

\* A page that lost its connection has an event more in its queue.
LEMMA QueuedShows ==
    ASSUME NEW d \in Shows, d.recovery # "no"
    PROVE  [d EXCEPT !.queued = TRUE] \in Shows
<1> DEFINE f == [d EXCEPT !.queued = TRUE]
<1>1. d \in Documents /\ d.socket = "closed" /\ (d.socket = "live" <=> d.session # None)
    BY DEF Shows, Disposed
<1>2. f \in Documents /\ f.socket = "closed" /\ f.session = d.session
    BY <1>1 DEF Documents
<1> HIDE DEF f
<1>3. f \in Shows
    BY <1>1, <1>2 DEF Shows, Disposed
<1> QED
    BY <1>3 DEF f

-----------------------------------------------------------------------------
(* The workspace: the steps of a tab *)

Means == {"browser", "click", "key", "script"}

LEMMA SendTypes ==
    ASSUME WorkspaceInv, NEW t \in Tabs, NEW by \in Means, NEW replaces \in BOOLEAN,
           NEW url \in Urls, NEW answer \in Answers, Send(t, by, replaces, url, answer)
    PROVE  row' \in Rows /\ request' \in [Tabs -> Navigations \cup {None}]
<1> DEFINE as == IF by = "script" /\ Clicked(t) THEN "click" ELSE by
           set == IF online /\ answer.cookie # cookie THEN {answer.cookie} ELSE {}
           to == IF online THEN answer.to ELSE None
           d == IF online THEN answer.doc ELSE Unreachable(url)
           new == [by |-> as, replaces |-> replaces, set |-> set, to |-> to, doc |-> d]
<1>1. as \in Means
    BY DEF Means
<1>2. set \in SUBSET Cookies /\ \A x, y \in set : x = y
    BY DEF Answers
<1>3. to \in Urls \cup {None}
    BY DEF Answers
<1>4. d \in Arrivals
  <2>1. "unreachable" \in Screens
      BY DEF Screens
  <2>2. Unreachable(url) \in Answered
      BY <2>1, BlankTypes DEF Unreachable
  <2> QED
      BY <2>2 DEF Answers, Answered
<1>5. request' = [request EXCEPT ![t] = new] /\ row' = IF online THEN answer.row ELSE row
    BY DEF Send
<1> HIDE DEF as, set, to, d
<1>6. new \in Navigations
    BY <1>1, <1>2, <1>3, <1>4 DEF Navigations, Means
<1> HIDE DEF new
<1>7. row' \in Rows
    BY <1>5 DEF WorkspaceInv, Answers
<1> QED
    BY <1>5, <1>6, <1>7 DEF WorkspaceInv

LEMMA StepArrive ==
    ASSUME WorkspaceInv, NEW t \in Tabs, Arrive(t)
    PROVE  WorkspaceInv'
<1> DEFINE r == request[t]
<1>1. /\ r \in Navigations /\ r.set \subseteq Cookies /\ r.to \in Urls \cup {None}
      /\ r.doc \in Arrivals /\ doc[t] \in Shows /\ row \in Rows
    BY DEF Arrive, WorkspaceInv, Navigations
<1>2. cookie' \in Cookies
    BY <1>1 DEF Arrive, WorkspaceInv
<1>3. UNCHANGED <<address, failure, online, replayed, userVars>>
    BY DEF Arrive
<1>4. CASE r.to # None
  <2> DEFINE answer == Get(cookie', r.to)
             new == [r EXCEPT !.set = IF answer.cookie # cookie' THEN {answer.cookie} ELSE {},
                              !.to = answer.to, !.doc = answer.doc]
  <2>1. /\ request' = [request EXCEPT ![t] = new] /\ row' = answer.row
        /\ UNCHANGED <<doc, previous>>
      BY <1>4 DEF Arrive
  <2>2. answer \in Answers
      BY <1>1, <1>2, <1>4, GetAnswer
  <2> HIDE DEF answer
  <2>3. new \in Navigations
      BY <1>1, <2>2 DEF Navigations, Answers, Answered
  <2> HIDE DEF new
  <2> QED
      BY <1>2, <1>3, <2>1, <2>2, <2>3 DEF WorkspaceInv, Answers, userVars
<1>5. CASE r.to = None
  <2>1. /\ doc' = [doc EXCEPT ![t] = r.doc] /\ request' = [request EXCEPT ![t] = None]
        /\ Unload(t, r.replaces) /\ UNCHANGED row
      BY <1>5 DEF Arrive
  <2>2. previous' \in [Tabs -> Entries \cup {None}]
    <3>1. CASE UNCHANGED previous
        BY <3>1 DEF WorkspaceInv
    <3>2. ASSUME NEW kept \in {{}, {[Concealed(doc[t]) EXCEPT !.socket = "closed",
                                                              !.restored = TRUE]}},
                 previous' = [previous EXCEPT ![t] = [url |-> doc[t].url, kept |-> kept]]
          PROVE  previous' \in [Tabs -> Entries \cup {None}]
      <4>1. kept \subseteq Arrivals
          BY <1>1, <3>2, KeptArrives
      <4>2. doc[t].url \in Urls
          BY <1>1 DEF Shows, Documents
      <4>3. [url |-> doc[t].url, kept |-> kept] \in Entries
          BY <4>1, <4>2 DEF Entries
      <4> QED
          BY <3>2, <4>3 DEF WorkspaceInv
    <3> QED
        BY <2>1, <3>1, <3>2 DEF Unload
  <2>3. doc' \in [Tabs -> Shows] /\ request' \in [Tabs -> Navigations \cup {None}]
      BY <1>1, <2>1 DEF WorkspaceInv, Arrivals
  <2> QED
      BY <1>2, <1>3, <2>1, <2>2, <2>3 DEF WorkspaceInv, userVars
<1> QED
    BY <1>4, <1>5

\* A document changes, and nothing else does.
LEMMA DocumentChanges ==
    ASSUME WorkspaceInv, NEW t \in Tabs, NEW d \in Shows, doc' = [doc EXCEPT ![t] = d],
           UNCHANGED <<serverVars, online, cookie, request, previous, replayed, acts>>
    PROVE  WorkspaceInv'
BY DEF WorkspaceInv, serverVars

LEMMA StepLose ==
    ASSUME WorkspaceInv, NEW t \in Tabs, Lose(t)
    PROVE  WorkspaceInv'
<1> DEFINE url == Private("portfolio")
           new == [request[t] EXCEPT !.set = {}, !.to = None, !.doc = Unreachable(url)]
<1>1. url \in Urls /\ "unreachable" \in Screens
    BY UrlTypes DEF Screens
<1>2. Unreachable(url) \in Arrivals
    BY <1>1, BlankTypes DEF Unreachable, Answered
<1>3. request' = [request EXCEPT ![t] = new] /\ request[t] \in Navigations
    BY DEF Lose, WorkspaceInv
<1> HIDE DEF url
<1>4. new \in Navigations
    BY <1>2, <1>3 DEF Navigations
<1> HIDE DEF new
<1>5. request' \in [Tabs -> Navigations \cup {None}]
    BY <1>3, <1>4 DEF WorkspaceInv
<1> QED
    BY <1>5 DEF Lose, WorkspaceInv, serverVars, userVars

LEMMA StepPageShow ==
    ASSUME WorkspaceInv, NEW t \in Tabs, PageShow(t)
    PROVE  WorkspaceInv'
<1>1. Recovered(doc[t]) \in Shows
    BY RecoveredShows DEF WorkspaceInv
<1>2. /\ doc' = [doc EXCEPT ![t] = Recovered(doc[t])]
      /\ UNCHANGED <<serverVars, online, cookie, request, previous, replayed, acts>>
    BY DEF PageShow, userVars
<1> QED
    BY <1>1, <1>2, DocumentChanges

LEMMA StepRetry ==
    ASSUME WorkspaceInv, NEW t \in Tabs, Retry(t)
    PROVE  WorkspaceInv'
<1> DEFINE new == [doc[t] EXCEPT !.recovery = "asked"]
           answer == Get(cookie, doc[t].url)
<1>1. doc[t] \in Shows /\ doc[t].recovery = "asking" /\ cookie \in Cookies
    BY DEF Retry, WorkspaceInv
<1>2. new \in Shows
    BY <1>1, EndedShows
<1>3. doc[t].url \in Urls
    BY <1>1 DEF Shows, Documents
<1>4. answer \in Answers
    BY <1>1, <1>3, GetAnswer
<1>5. /\ doc' = [doc EXCEPT ![t] = new] /\ Send(t, "script", TRUE, doc[t].url, answer)
      /\ UNCHANGED <<address, failure, online, cookie, previous, replayed, userVars>>
    BY DEF Retry
<1> HIDE DEF new, answer
<1>6. "script" \in Means
    BY DEF Means
<1>7. row' \in Rows /\ request' \in [Tabs -> Navigations \cup {None}]
    BY <1>3, <1>4, <1>5, <1>6, SendTypes
<1> QED
    BY <1>2, <1>5, <1>7 DEF WorkspaceInv, userVars

\* The LiveView redirects and is gone.
LEMMA EndedTypes ==
    ASSUME WorkspaceInv, NEW t \in Tabs, Ended(t)
    PROVE  /\ doc' \in [Tabs -> Shows] /\ row' \in Rows
           /\ request' \in [Tabs -> Navigations \cup {None}]
<1> DEFINE new == [doc[t] EXCEPT !.socket = "closed", !.session = None]
           url == SignInPage("portfolio", TRUE)
           answer == GetSignIn(cookie, url)
<1>1. doc[t] \in Shows /\ cookie \in Cookies
    BY DEF WorkspaceInv
<1>2. new \in Shows
    BY <1>1, EndedShows
<1>3. url \in Urls
    BY UrlTypes DEF Paths
<1> HIDE DEF url
<1>4. answer \in Answers
    BY <1>1, <1>3, GetAnswer
<1>5. /\ doc' = [doc EXCEPT ![t] = new]
      /\ UNCHANGED <<request, row>> \/ Send(t, "script", FALSE, url, answer)
    BY <1>1 DEF Ended, url, WorkspaceInv
<1> HIDE DEF new, answer
<1>6. "script" \in Means
    BY DEF Means
<1>7. row' \in Rows /\ request' \in [Tabs -> Navigations \cup {None}]
  <2>1. CASE UNCHANGED <<request, row>>
      BY <2>1 DEF WorkspaceInv
  <2>2. CASE Send(t, "script", FALSE, url, answer)
      BY <1>3, <1>4, <1>6, <2>2, SendTypes
  <2> QED
      BY <1>5, <2>1, <2>2
<1> QED
    BY <1>2, <1>5, <1>7 DEF WorkspaceInv

LEMMA StepConnect ==
    ASSUME WorkspaceInv, NEW t \in Tabs, Connect(t)
    PROVE  WorkspaceInv'
<1>1. doc[t] \in Shows /\ cookie.handle \in Handles \cup {None} /\ doc[t].socket = "joining"
    BY DEF WorkspaceInv, Cookies, Connect
<1>2. UNCHANGED <<address, failure, online, cookie, previous, userVars>>
    BY DEF Connect
<1>3. CASE Live(cookie.handle) /\ ~Unavailable /\ doc[t].token = cookie.csrf
  <2> DEFINE h == cookie.handle
             e == address[row[h].user]
             new == [doc[t] EXCEPT !.socket = "live", !.session = h, !.email = e, !.queued = FALSE]
  <2>1. h \in Handles /\ e \in Accounts \cup {"changed"}
      BY <1>1, <1>3, LiveSession
  <2>2. /\ doc' = [doc EXCEPT ![t] = new] /\ replayed' = (replayed \/ doc[t].queued)
        /\ UNCHANGED <<request, row>>
      BY <1>3 DEF Connect
  <2> HIDE DEF h, e
  <2>3. ~doc[t].queued /\ new \in Shows
      BY <1>1, <2>1, JoinedShows
  <2>4. replayed' = FALSE
      BY <2>2, <2>3 DEF WorkspaceInv
  <2> HIDE DEF new
  <2> QED
      BY <1>2, <2>2, <2>3, <2>4 DEF WorkspaceInv, userVars
<1>4. CASE Ended(t) /\ UNCHANGED replayed
    BY <1>2, <1>4, EndedTypes DEF WorkspaceInv, userVars
<1> QED
    BY <1>3, <1>4 DEF Connect

LEMMA StepGuard ==
    ASSUME WorkspaceInv, NEW t \in Tabs, Guard(t)
    PROVE  WorkspaceInv'
<1>1. UNCHANGED <<address, failure, online, cookie, previous, replayed, userVars>>
    BY DEF Guard
<1>2. CASE Ended(t)
    BY <1>1, <1>2, EndedTypes DEF WorkspaceInv, userVars
<1>3. CASE /\ Live(doc[t].session)
           /\ doc' = [doc EXCEPT ![t].email = address[row[doc[t].session].user]]
           /\ UNCHANGED <<request, row>>
  <2> DEFINE e == address[row[doc[t].session].user]
             new == [doc[t] EXCEPT !.email = e]
  <2>1. doc[t] \in Shows /\ doc[t].session \in Handles \cup {None}
      BY DEF WorkspaceInv, Shows, Documents
  <2>2. e \in Accounts \cup {"changed"}
      BY <1>3, <2>1, LiveSession
  <2>3. doc' = [doc EXCEPT ![t] = new]
      BY <1>3
  <2> HIDE DEF e
  <2>4. new \in Shows
      BY <2>1, <2>2, RenamedShows
  <2> HIDE DEF new
  <2> QED
      BY <1>1, <1>3, <2>3, <2>4, DocumentChanges DEF serverVars, userVars
<1> QED
    BY <1>2, <1>3 DEF Guard

LEMMA StepTab ==
    ASSUME WorkspaceInv, NEW t \in Tabs, TabStep(t)
    PROVE  WorkspaceInv'
BY StepArrive, StepLose, StepPageShow, StepRetry, StepConnect, StepGuard DEF TabStep

-----------------------------------------------------------------------------
(* The workspace: what is done to the browser *)

\* A navigation starts, and the documents stay.
LEMMA NavigationStarts ==
    ASSUME WorkspaceInv, NEW t \in Tabs, NEW by \in Means, NEW replaces \in BOOLEAN,
           NEW url \in Urls, NEW answer \in Answers, Send(t, by, replaces, url, answer),
           Unmoved, acts' \in 0 .. MaxActs
    PROVE  WorkspaceInv'
BY SendTypes DEF WorkspaceInv, Unmoved

LEMMA StepGoto ==
    ASSUME WorkspaceInv, NEW t \in Tabs, NEW url \in Urls, Goto(t, url), acts' \in 0 .. MaxActs
    PROVE  WorkspaceInv'
<1>1. Get(cookie, url) \in Answers
    BY GetAnswer DEF WorkspaceInv
<1>2. "browser" \in Means /\ (doc[t].url = url) \in BOOLEAN
    BY DEF Means
<1>3. Send(t, "browser", doc[t].url = url, url, Get(cookie, url)) /\ Unmoved
    BY DEF Goto
<1> QED
    BY <1>1, <1>2, <1>3, NavigationStarts

LEMMA StepGoBack ==
    ASSUME WorkspaceInv, NEW t \in Tabs, GoBack(t), acts' \in 0 .. MaxActs
    PROVE  WorkspaceInv'
<1> DEFINE url == previous[t].url
<1>1. previous[t] \in Entries /\ url \in Urls /\ previous[t].kept \subseteq Arrivals
    BY DEF GoBack, WorkspaceInv, Entries
<1>2. UNCHANGED <<address, failure, online, cookie, doc, replayed>>
    BY DEF GoBack
<1>3. previous' \in [Tabs -> Entries \cup {None}]
    BY DEF GoBack, WorkspaceInv
<1>4. row' \in Rows /\ request' \in [Tabs -> Navigations \cup {None}]
  <2>1. CASE Send(t, "browser", TRUE, url, Get(cookie, url))
    <3>1. Get(cookie, url) \in Answers /\ "browser" \in Means
        BY <1>1, GetAnswer DEF WorkspaceInv, Means
    <3> QED
        BY <1>1, <2>1, <3>1, SendTypes
  <2>2. ASSUME NEW d \in previous[t].kept,
               request' = [request EXCEPT ![t] = [by |-> "browser", replaces |-> TRUE,
                              set |-> {}, to |-> None, doc |-> d]], UNCHANGED row
        PROVE  row' \in Rows /\ request' \in [Tabs -> Navigations \cup {None}]
    <3>1. [by |-> "browser", replaces |-> TRUE, set |-> {}, to |-> None, doc |-> d] \in Navigations
        BY <1>1 DEF Navigations
    <3> QED
        BY <2>2, <3>1 DEF WorkspaceInv
  <2> QED
      BY <2>1, <2>2 DEF GoBack
<1> QED
    BY <1>2, <1>3, <1>4 DEF WorkspaceInv

LEMMA StepSubmitSignIn ==
    ASSUME WorkspaceInv, NEW t \in Tabs, NEW by \in Means, NEW who \in Accounts,
           NEW right \in BOOLEAN, SubmitSignIn(t, by, who, right), acts' \in 0 .. MaxActs
    PROVE  WorkspaceInv'
<1> DEFINE post == SignInForm(who, right, doc[t].token, doc[t].url.path)
<1>1. doc[t].url \in Urls /\ doc[t].token \in Tokens \cup {None}
    BY DEF WorkspaceInv, Shows, Documents
<1>2. doc[t].url.path \in Paths
    BY <1>1, UrlTypes
<1>3. post \in Posts
    BY <1>1, <1>2 DEF SignInForm, Posts
<1>4. Post(cookie, post) \in Answers
    BY <1>3, PostAnswer DEF WorkspaceInv
<1>5. Send(t, by, FALSE, doc[t].url, Post(cookie, post)) /\ Unmoved
    BY DEF SubmitSignIn
<1> HIDE DEF post
<1> QED
    BY <1>1, <1>4, <1>5, NavigationStarts

LEMMA StepSubmitSignOut ==
    ASSUME WorkspaceInv, NEW t \in Tabs, NEW by \in Means, SubmitSignOut(t, by),
           acts' \in 0 .. MaxActs
    PROVE  WorkspaceInv'
<1> DEFINE post == SignOutForm(doc[t].token)
<1>1. doc[t].url \in Urls /\ doc[t].token \in Tokens \cup {None}
    BY DEF WorkspaceInv, Shows, Documents
<1>2. post \in Posts
    BY <1>1 DEF SignOutForm, SignInForm, Posts, Paths
<1>3. Post(cookie, post) \in Answers
    BY <1>2, PostAnswer DEF WorkspaceInv
<1>4. Send(t, by, FALSE, doc[t].url, Post(cookie, post)) /\ Unmoved
    BY DEF SubmitSignOut
<1> HIDE DEF post
<1> QED
    BY <1>1, <1>3, <1>4, NavigationStarts

LEMMA StepFollow ==
    ASSUME WorkspaceInv, NEW t \in Tabs, NEW path \in {"portfolio", "orders"}, Follow(t, path),
           UNCHANGED acts
    PROVE  WorkspaceInv'
<1> DEFINE new == [doc[t] EXCEPT !.url = Private(path)]
<1>1. Private(path) \in Urls /\ doc[t] \in Shows
    BY UrlTypes DEF WorkspaceInv
<1>2. new \in Shows
    BY <1>1, RenamedShows
<1>3. doc' = [doc EXCEPT ![t] = new]
    BY DEF Follow
<1> HIDE DEF new
<1> QED
    BY <1>2, <1>3 DEF Follow, WorkspaceInv, serverVars

LEMMA StepDrop ==
    ASSUME WorkspaceInv, NEW t \in Tabs, Drop(t), acts' \in 0 .. MaxActs
    PROVE  WorkspaceInv'
<1>1. Recovered(doc[t]) \in Shows
    BY RecoveredShows DEF WorkspaceInv
<1> QED
    BY <1>1 DEF Drop, WorkspaceInv, serverVars

LEMMA StepPush ==
    ASSUME WorkspaceInv, NEW t \in Tabs, Push(t), acts' \in 0 .. MaxActs
    PROVE  WorkspaceInv'
<1> DEFINE new == [doc[t] EXCEPT !.queued = TRUE]
<1>1. new \in Shows
    BY QueuedShows DEF WorkspaceInv, Push
<1>2. doc' = [doc EXCEPT ![t] = new]
    BY DEF Push
<1> HIDE DEF new
<1> QED
    BY <1>1, <1>2 DEF Push, WorkspaceInv, serverVars

LEMMA StepSetOnline ==
    ASSUME WorkspaceInv, NEW b \in BOOLEAN, SetOnline(b), acts' \in 0 .. MaxActs
    PROVE  WorkspaceInv'
<1>1. ASSUME NEW t \in Tabs
      PROVE  (IF doc[t].page = "private" THEN Recovered(doc[t]) ELSE doc[t]) \in Shows
    BY RecoveredShows DEF WorkspaceInv
<1>2. doc' \in [Tabs -> Shows]
    BY <1>1 DEF SetOnline
<1> QED
    BY <1>2 DEF SetOnline, WorkspaceInv, serverVars

LEMMA StepExpire ==
    ASSUME WorkspaceInv, Expire, acts' \in 0 .. MaxActs
    PROVE  WorkspaceInv'
<1>1. ASSUME NEW h \in Handles
      PROVE  /\ [row[h] EXCEPT !.state = "ended"] \in Sessions
             /\ [row[h] EXCEPT !.state = "ended"].state # "authenticated"
    BY DEF WorkspaceInv, Rows, Sessions
<1>2. row' \in Rows
    BY <1>1 DEF Expire, Rows
<1> QED
    BY <1>2 DEF Expire, WorkspaceInv, browserVars

LEMMA StepWorkspacePerson ==
    ASSUME WorkspaceInv, Person
    PROVE  WorkspaceInv'
<1>1. acts' \in 0 .. MaxActs
    BY FreshAssumption DEF Person, WorkspaceInv
<1>2. "page" \in Tabs /\ "key" \in Means /\ "second" \in Accounts /\ TRUE \in BOOLEAN
        /\ (~online) \in BOOLEAN /\ Private("portfolio") \in Urls
    BY UrlTypes DEF Tabs, Means, Accounts
<1>3. CASE \E t \in Tabs : SubmitSignOut(t, "key")
    BY <1>1, <1>2, <1>3, StepSubmitSignOut
<1>4. CASE SubmitSignIn("page", "key", "second", TRUE)
    BY <1>1, <1>2, <1>4, StepSubmitSignIn
<1>5. CASE Goto("page", Private("portfolio"))
    BY <1>1, <1>2, <1>5, StepGoto
<1>6. CASE GoBack("page") \/ Drop("page") \/ Push("page")
    BY <1>1, <1>2, <1>6, StepGoBack, StepDrop, StepPush
<1>7. CASE SetOnline(~online) \/ Expire
    BY <1>1, <1>2, <1>7, StepSetOnline, StepExpire
<1> QED
    BY <1>3, <1>4, <1>5, <1>6, <1>7 DEF Person

LEMMA StepOpenTabs ==
    ASSUME WorkspaceInv, OpenTabs
    PROVE  WorkspaceInv'
<1> DEFINE h == FreshHandle
           form == GetSignIn(NoCookie, SignInPage("portfolio", FALSE))
           owner == [user |-> "first", state |-> "authenticated"]
           shown == [form.doc EXCEPT !.url = Private("portfolio"), !.page = "private",
                         !.email = address["first"], !.socket = "live", !.session = h]
<1>1. NoCookie \in Cookies /\ SignInPage("portfolio", FALSE) \in Urls
        /\ Private("portfolio") \in Urls
    BY UrlTypes DEF NoCookie, Cookies, Paths
<1>2. form \in Answers
    BY <1>1, GetAnswer
<1>3. h \in Handles /\ h # None
    BY FreshHandleType, WorkspaceAssumption
<1>4. /\ cookie' = form.cookie
      /\ \/ row' = form.row /\ doc' = [t \in Tabs |-> form.doc]
         \/ row' = [row EXCEPT ![h] = owner] /\ doc' = [t \in Tabs |-> shown]
      /\ UNCHANGED <<address, failure, online, request, previous, replayed, at, acts>>
    BY DEF OpenTabs
<1>5. owner \in Sessions /\ owner.user \in Accounts
    BY DEF Sessions, Accounts
<1> HIDE DEF h, form, owner
<1>6. form.doc \in Answered /\ form.row \in Rows /\ form.cookie \in Cookies
    BY <1>2 DEF Answers
<1>7. shown \in Shows
  <2>1. address["first"] \in Accounts \cup {"changed"}
      BY DEF WorkspaceInv, Accounts
  <2>2. /\ shown \in Documents /\ shown.socket = "live" /\ shown.session = h
        /\ shown.recovery = "no" /\ shown.queued = FALSE
      BY <1>1, <1>3, <1>6, <2>1 DEF Answered, Arrivals, Shows, Documents, Screens
  <2> HIDE DEF shown
  <2> QED
      BY <1>3, <2>2 DEF Shows, Disposed
<1> HIDE DEF shown
<1>8. [row EXCEPT ![h] = owner] \in Rows
    BY <1>3, <1>5, RowWritten DEF WorkspaceInv
<1> QED
    BY <1>4, <1>6, <1>7, <1>8 DEF WorkspaceInv, Answered, Arrivals

-----------------------------------------------------------------------------
(* Journeys: each step has arguments of the right types *)

WorkspaceArguments(s) ==
    /\ s.tab \in Tabs
    /\ s.do = "go" => s.of \in Urls
    /\ s.do = "sign_in" => s.of.by \in Means /\ s.of.who \in Accounts /\ s.of.right \in BOOLEAN
    /\ s.do = "sign_out" => s.of \in Means
    /\ s.do = "follow" => s.of \in {"portfolio", "orders"}
    /\ s.do = "network" => s.of \in BOOLEAN
    /\ s.do = "rename" => s.of \in Accounts \cup {"changed"}
    /\ s.do = "fail" => s.of \in {"none", "revoke", "all"}
    /\ s.do = "fetch" => s.of.url \in Urls
    /\ s.do = "request" => s.of.form \in Posts

Arguments(part, s) ==
    /\ part = "workspace" => WorkspaceArguments(s)
    /\ part = "docs" => (s.do = "reload" => s.broken \subseteq Parts)
    /\ part = "desk" =>
          /\ s.page \in Pages
          /\ s.do = "visit" => s.of \in Destinations
          /\ s.do = "click" => s.of.side \in {"buy", "sell"} /\ s.of.n \in Nat /\ s.of.clicks \in Nat

Scripted(part, s) == \E S : s \in Seq(S) /\ \A x \in S : Arguments(part, x)

LEMMA Single ==
    ASSUME NEW part, NEW x, Arguments(part, x)
    PROVE  Scripted(part, <<x>>)
<1> DEFINE s == <<x>>
           S == {x}
<1>1. s \in Seq(S) /\ \A y \in S : Arguments(part, y)
    OBVIOUS
<1> HIDE DEF s, S
<1>2. Scripted(part, s)
    BY <1>1 DEF Scripted
<1> QED
    BY <1>2 DEF s

LEMMA Joined ==
    ASSUME NEW part, NEW s, NEW t, Scripted(part, s), Scripted(part, t)
    PROVE  Scripted(part, s \o t)
<1>1. PICK S : s \in Seq(S) /\ \A x \in S : Arguments(part, x)
    BY DEF Scripted
<1>2. PICK T : t \in Seq(T) /\ \A x \in T : Arguments(part, x)
    BY DEF Scripted
<1>3. s \in Seq(S \cup T) /\ t \in Seq(S \cup T)
    BY <1>1, <1>2
<1>4. s \o t \in Seq(S \cup T)
    BY <1>3
<1>5. \A x \in S \cup T : Arguments(part, x)
    BY <1>1, <1>2
<1> QED
    BY <1>4, <1>5 DEF Scripted

LEMMA ScriptStep ==
    ASSUME NEW part, NEW s, Scripted(part, s)
    PROVE  /\ Len(s) \in Nat /\ DOMAIN s = 1 .. Len(s)
           /\ \A i \in 1 .. Len(s) : Arguments(part, s[i])
<1>1. PICK S : s \in Seq(S) /\ \A x \in S : Arguments(part, x)
    BY DEF Scripted
<1> QED
    BY <1>1

\* The steps of the workspace's journeys.
LEMMA WorkspaceScripts ==
    ASSUME NEW t \in Tabs
    PROVE  /\ \A u \in Urls : Scripted("workspace", Go(t, u))
           /\ \A b \in Means, w \in Accounts, r \in BOOLEAN :
                  Scripted("workspace", SignInAs(t, b, w, r))
           /\ \A b \in Means : Scripted("workspace", SignOut(t, b))
           /\ \A f : /\ Scripted("workspace", See(t, f)) /\ Scripted("workspace", Await(t, f))
                    /\ Scripted("workspace", SeeNot(t, f)) /\ Scripted("workspace", AwaitNot(t, f))
           /\ \A b \in BOOLEAN : Scripted("workspace", Network(b))
           /\ \A of : \A do \in {"back", "push", "advance", "reload", "not_replayed", "clear_cookies",
                         "retry", "form"} : Scripted("workspace", Control(do, of))
           /\ \A path \in {"portfolio", "orders"} :
                  /\ Scripted("workspace", Control("follow", path))
                  /\ \A f : Scripted("workspace", Fetch(path, f))
           /\ \A e \in Accounts \cup {"changed"} : Scripted("workspace", Control("rename", e))
           /\ \A f \in {"none", "revoke", "all"} : Scripted("workspace", Control("fail", f))
           /\ \A f : \A p \in Posts : Scripted("workspace", Request(p, f))
<1>1. ASSUME NEW x, WorkspaceArguments(x)
      PROVE  Scripted("workspace", <<x>>)
    BY <1>1, Single DEF Arguments
<1>2. \A u \in Urls : Scripted("workspace", Go(t, u))
    BY <1>1 DEF Go, Step, WorkspaceArguments
<1>3. \A b \in Means, w \in Accounts, r \in BOOLEAN :
          Scripted("workspace", SignInAs(t, b, w, r))
    BY <1>1 DEF SignInAs, Step, WorkspaceArguments
<1>4. \A b \in Means : Scripted("workspace", SignOut(t, b))
    BY <1>1 DEF SignOut, Step, WorkspaceArguments
<1>5. \A f : /\ Scripted("workspace", See(t, f)) /\ Scripted("workspace", Await(t, f))
            /\ Scripted("workspace", SeeNot(t, f)) /\ Scripted("workspace", AwaitNot(t, f))
    BY <1>1 DEF See, Await, SeeNot, AwaitNot, Step, WorkspaceArguments
<1>6. \A b \in BOOLEAN : Scripted("workspace", Network(b))
    BY <1>1 DEF Network, Step, WorkspaceArguments, Tabs
<1>7. \A of : \A do \in {"back", "push", "advance", "reload", "not_replayed", "clear_cookies",
               "retry", "form"} : Scripted("workspace", Control(do, of))
    BY <1>1 DEF Control, Step, WorkspaceArguments, Tabs
<1>8. \A path \in {"portfolio", "orders"} :
          /\ Scripted("workspace", Control("follow", path))
          /\ \A f : Scripted("workspace", Fetch(path, f))
    BY <1>1, UrlTypes DEF Control, Fetch, Step, WorkspaceArguments, Tabs
<1>9. \A e \in Accounts \cup {"changed"} : Scripted("workspace", Control("rename", e))
    BY <1>1 DEF Control, Step, WorkspaceArguments, Tabs
<1>10. \A f \in {"none", "revoke", "all"} : Scripted("workspace", Control("fail", f))
    BY <1>1 DEF Control, Step, WorkspaceArguments, Tabs
<1>11. \A f : \A p \in Posts : Scripted("workspace", Request(p, f))
    BY <1>1 DEF Request, Step, WorkspaceArguments, Tabs
<1> QED
    BY <1>2, <1>3, <1>4, <1>5, <1>6, <1>7, <1>8, <1>9, <1>10, <1>11

LEMMA GenuineToken == Genuine \in Tokens
<1>1. \E k \in Tokens : k \notin {None, None, None, None, None, None, None}
    BY Spare
<1> QED
    BY <1>1 DEF Genuine

LEMMA JourneysScripted == \A j \in DOMAIN Journey : Scripted("workspace", Journey[j])
<1> DEFINE Fit(s) == Scripted("workspace", s)
<1>1. \A s, t : Fit(s) /\ Fit(t) => Fit(s \o t)
    BY Joined
<1>2. /\ "page" \in Tabs /\ "tab" \in Tabs /\ "first" \in Accounts /\ "second" \in Accounts
      /\ "key" \in Means /\ "click" \in Means
      /\ \A p \in Paths, e \in BOOLEAN : SignInPage(p, e) \in Urls
      /\ Private("portfolio") \in Urls /\ Private("orders") \in Urls
      /\ "portfolio" \in Paths /\ "orders" \in Paths /\ "elsewhere" \in Paths
    BY UrlTypes DEF Tabs, Accounts, Means, Paths
<1>3. /\ \A t \in Tabs, u \in Urls : Fit(Go(t, u))
      /\ \A t \in Tabs, b \in Means, w \in Accounts, r \in BOOLEAN : Fit(SignInAs(t, b, w, r))
      /\ \A t \in Tabs, b \in Means : Fit(SignOut(t, b))
      /\ \A f : \A t \in Tabs : Fit(See(t, f)) /\ Fit(Await(t, f)) /\ Fit(SeeNot(t, f)) /\ Fit(AwaitNot(t, f))
    BY WorkspaceScripts
<1>4. /\ \A b \in BOOLEAN : Fit(Network(b))
      /\ \A of : /\ Fit(Control("back", of)) /\ Fit(Control("push", of))
                /\ Fit(Control("advance", of)) /\ Fit(Control("reload", of))
                /\ Fit(Control("not_replayed", of)) /\ Fit(Control("clear_cookies", of))
                /\ Fit(Control("retry", of)) /\ Fit(Control("form", of))
      /\ Fit(Control("follow", "portfolio")) /\ Fit(Control("follow", "orders"))
      /\ \A f : Fit(Fetch("portfolio", f)) /\ Fit(Fetch("orders", f))
      /\ Fit(Control("rename", "first")) /\ Fit(Control("rename", "changed"))
      /\ Fit(Control("fail", "all")) /\ Fit(Control("fail", "none")) /\ Fit(Control("fail", "revoke"))
      /\ \A f : \A p \in Posts : Fit(Request(p, f))
    BY <1>2, WorkspaceScripts
<1> HIDE DEF Fit
<1>5. \A t \in Tabs, w \in Accounts, p \in Paths : Fit(SignIn(t, w, p))
    BY <1>1, <1>2, <1>3 DEF SignIn
<1>6. Fit(Credentials)
    BY <1>1, <1>2, <1>3 DEF Credentials
<1>7. Fit(Navigation)
    BY <1>1, <1>2, <1>3, <1>4 DEF Navigation
<1>8. Fit(TwoTabSignOut)
    BY <1>1, <1>2, <1>3 DEF TwoTabSignOut
<1>9. Fit(AccountSwitch)
    BY <1>1, <1>2, <1>3, <1>4, <1>5 DEF AccountSwitch
<1>10. Fit(TwoTabExpiry)
    BY <1>1, <1>2, <1>3, <1>4 DEF TwoTabExpiry
<1>11. Fit(ValidReconnect)
    BY <1>1, <1>2, <1>3, <1>4, <1>5 DEF ValidReconnect
<1>12. Fit(OfflineExpiry)
    BY <1>1, <1>2, <1>3, <1>4 DEF OfflineExpiry
<1>13. Fit(SafeReturns)
    BY <1>1, <1>2, <1>3, <1>5 DEF SafeReturns
<1>14. Fit(ExpiredTransport)
    BY <1>1, <1>2, <1>3, <1>4, <1>5 DEF ExpiredTransport
<1>15. Fit(UnavailableRecovery)
    BY <1>1, <1>2, <1>3, <1>4 DEF UnavailableRecovery
<1>16. /\ \A w \in Accounts, r \in BOOLEAN, p \in Paths : Form1(w, r, p) \in Posts
       /\ SignOutForm(Genuine) \in Posts
       /\ [Form1("first", TRUE, "portfolio") EXCEPT !.token = None] \in Posts
       /\ [Form1("first", TRUE, "portfolio") EXCEPT !.foreign = TRUE] \in Posts
    BY <1>2, GenuineToken DEF Form1, SignOutForm, SignInForm, Posts
<1>17. Fit(StaleSubmission)
    BY <1>1, <1>2, <1>4, <1>16 DEF StaleSubmission
<1>18. Fit(HttpSignIn)
  <2>1. \A f : /\ Fit(Request([Form1("first", TRUE, "portfolio") EXCEPT !.token = None], f))
              /\ Fit(Request([Form1("first", TRUE, "portfolio") EXCEPT !.foreign = TRUE], f))
      BY <1>4, <1>16
  <2>2. \A f : /\ Fit(Request(Form1("first", FALSE, "portfolio"), f))
              /\ Fit(Request(Form1("first", TRUE, "portfolio"), f))
              /\ Fit(Request(Form1("first", TRUE, "orders"), f))
      BY <1>2, <1>4, <1>16
  <2> DEFINE a == Control("form", [status |-> 200])
             b == Request([Form1("first", TRUE, "portfolio") EXCEPT !.token = None], [status |-> 403])
             c == Request([Form1("first", TRUE, "portfolio") EXCEPT !.foreign = TRUE], [status |-> 403])
             d == Request(Form1("first", FALSE, "portfolio"), [status |-> 422])
             e == Request(Form1("first", TRUE, "portfolio"), [status |-> 503])
             f == Request(Form1("first", TRUE, "orders"), [status |-> 303, to |-> Private("orders")])
             g == Fetch("portfolio", [status |-> 200])
             h == Fetch("orders", [status |-> 200])
  <2>3. Fit(a) /\ Fit(g) /\ Fit(h)
      BY <1>4
  <2>4. Fit(b) /\ Fit(c)
      BY <2>1
  <2>5. Fit(d)
      BY <2>2
  <2>6. Fit(e)
      BY <2>2
  <2>7. Fit(f)
      BY <2>2
  <2>8. HttpSignIn = a \o b \o c \o d \o Control("fail", "all") \o e \o Control("fail", "none")
                       \o f \o g \o h
      BY DEF HttpSignIn
  <2> HIDE DEF a, b, c, d, e, f, g, h
  <2> QED
      BY <1>1, <1>4, <2>3, <2>4, <2>5, <2>6, <2>7, <2>8
<1>19. Fit(HttpSignOut)
    BY <1>1, <1>4, <1>16 DEF HttpSignOut
<1>20. Fit(Login)
    BY <1>1, <1>2, <1>3, <1>5 DEF Login
<1>21. Fit(BrowserJourney)
  <2> DEFINE a == Fetch("portfolio", [status |-> 303, to |-> SignInPage("portfolio", TRUE)])
             b == Go("page", SignInPage("portfolio", FALSE))
             c == SignInAs("page", "click", "first", FALSE)
             d == Await("page", [message |-> "invalid"])
             e == SignOut("page", "click")
             f == Await("page", EndedUrl)
             g == Fetch("portfolio", [status |-> 303])
             h == Go("page", Private("portfolio"))
             i == Await("page", [page |-> "form"])
  <2>1. Fit(b) /\ Fit(c) /\ Fit(e) /\ Fit(h)
      BY <1>2, <1>3
  <2>2. Fit(d) /\ Fit(f) /\ Fit(i)
      BY <1>2, <1>3
  <2>3. Fit(a) /\ Fit(g)
      BY <1>4
  <2>4. BrowserJourney =
            a \o b \o c \o d \o Login \o e \o f \o g \o Login \o Control("advance", None)
            \o a \o h \o f \o i
      BY DEF BrowserJourney
  <2> HIDE DEF a, b, c, d, e, f, g, h, i
  <2>5. Fit(a \o b \o c \o d \o Login \o e \o f \o g \o Login)
      BY <1>1, <1>20, <2>1, <2>2, <2>3
  <2>6. Fit(Control("advance", None))
      BY <1>4
  <2> QED
      BY <1>1, <2>1, <2>2, <2>3, <2>4, <2>5, <2>6
<1>22. Fit(Journey["browser"])
    BY <1>1, <1>6, <1>7, <1>8, <1>9, <1>10, <1>11, <1>12, <1>13, <1>14, <1>15, <1>17 DEF Journey
<1>23. Fit(Journey["http"]) /\ Fit(Journey["e2e"])
    BY <1>1, <1>18, <1>19, <1>21 DEF Journey
<1>24. DOMAIN Journey = {"browser", "http", "e2e"}
    BY DEF Journey
<1> QED
    BY <1>22, <1>23, <1>24 DEF Fit

LEMMA StepExchange ==
    ASSUME WorkspaceInv, NEW answer \in Answers, NEW fields, Exchange(answer, fields),
           UNCHANGED acts
    PROVE  WorkspaceInv'
BY DEF Exchange, WorkspaceInv, Answers

LEMMA StepJourney ==
    ASSUME WorkspaceInv, JourneyStep
    PROVE  WorkspaceInv'
<1> DEFINE s == Journey[script][at]
<1>1. WorkspaceArguments(s)
  <2>1. script \in DOMAIN Journey /\ at \in DOMAIN Journey[script]
      BY DEF JourneyStep
  <2>2. Arguments("workspace", s)
      BY <2>1, JourneysScripted, ScriptStep
  <2> QED
      BY <2>2 DEF Arguments
<1>2. acts' \in 0 .. MaxActs /\ UNCHANGED acts
    BY DEF JourneyStep, WorkspaceInv
<1>3. Drive(s) \/ Operate(s) \/ Ask(s) \/ Observe(s)
    BY DEF JourneyStep
<1> HIDE DEF s
<1>4. s.tab \in Tabs
    BY <1>1 DEF WorkspaceArguments
<1>5. CASE Drive(s)
  <2>1. CASE s.do = "go" /\ Goto(s.tab, s.of)
      BY <1>1, <1>2, <2>1, StepGoto DEF WorkspaceArguments
  <2>2. CASE s.do = "sign_in" /\ SubmitSignIn(s.tab, s.of.by, s.of.who, s.of.right)
      BY <1>1, <1>2, <2>2, StepSubmitSignIn DEF WorkspaceArguments
  <2>3. CASE s.do = "sign_out" /\ SubmitSignOut(s.tab, s.of)
      BY <1>1, <1>2, <2>3, StepSubmitSignOut DEF WorkspaceArguments
  <2>4. CASE s.do = "follow" /\ Follow(s.tab, s.of)
      BY <1>1, <1>2, <2>4, StepFollow DEF WorkspaceArguments
  <2>5. CASE s.do = "back" /\ GoBack(s.tab)
      BY <1>2, <1>4, <2>5, StepGoBack
  <2>6. CASE s.do = "reload" /\ Goto(s.tab, doc[s.tab].url)
    <3>1. doc[s.tab].url \in Urls
        BY <1>4 DEF WorkspaceInv, Shows, Documents
    <3> QED
        BY <1>2, <1>4, <2>6, <3>1, StepGoto
  <2>7. CASE s.do = "retry" /\ Goto(s.tab, SignInPage("portfolio", FALSE))
    <3>1. SignInPage("portfolio", FALSE) \in Urls
        BY UrlTypes DEF Paths
    <3> QED
        BY <1>2, <1>4, <2>7, <3>1, StepGoto
  <2>8. CASE s.do = "network" /\ SetOnline(s.of)
      BY <1>1, <1>2, <2>8, StepSetOnline DEF WorkspaceArguments
  <2>9. CASE s.do = "push" /\ Push(s.tab)
      BY <1>2, <1>4, <2>9, StepPush
  <2>10. CASE /\ s.do = "clear_cookies" /\ cookie' = NoCookie
              /\ UNCHANGED <<serverVars, online, doc, request, previous, replayed>>
    <3>1. NoCookie \in Cookies
        BY DEF NoCookie, Cookies
    <3> QED
        BY <1>2, <2>10, <3>1 DEF WorkspaceInv, serverVars
  <2> QED
      BY <1>5, <2>1, <2>2, <2>3, <2>4, <2>5, <2>6, <2>7, <2>8, <2>9, <2>10 DEF Drive
<1>6. CASE Operate(s)
  <2>1. CASE /\ s.do = "rename" /\ address' = [address EXCEPT !["first"] = s.of]
             /\ UNCHANGED <<row, failure, browserVars>>
      BY <1>1, <1>2, <2>1 DEF WorkspaceArguments, WorkspaceInv, browserVars
  <2>2. CASE s.do = "fail" /\ failure' = s.of /\ UNCHANGED <<row, address, browserVars>>
      BY <1>1, <1>2, <2>2 DEF WorkspaceArguments, WorkspaceInv, browserVars
  <2>3. CASE s.do = "advance" /\ Expire
      BY <1>2, <2>3, StepExpire
  <2> QED
      BY <1>6, <2>1, <2>2, <2>3 DEF Operate
<1>7. CASE Ask(s)
  <2>0. cookie \in Cookies
      BY DEF WorkspaceInv
  <2>1. CASE s.do = "form" /\ Exchange(Get(cookie, SignInPage("portfolio", FALSE)), s.of)
    <3>1. SignInPage("portfolio", FALSE) \in Urls
        BY UrlTypes DEF Paths
    <3>2. Get(cookie, SignInPage("portfolio", FALSE)) \in Answers
        BY <2>0, <3>1, GetAnswer
    <3> QED
        BY <1>2, <2>1, <3>2, StepExchange
  <2>2. CASE s.do = "fetch" /\ Exchange(Get(cookie, s.of.url), s.of.has)
    <3>1. Get(cookie, s.of.url) \in Answers
        BY <1>1, <2>0, <2>2, GetAnswer DEF WorkspaceArguments
    <3> QED
        BY <1>2, <2>2, <3>1, StepExchange
  <2>3. CASE s.do = "request"
    <3> DEFINE token == IF s.of.form.token = None THEN None
                        ELSE IF doc["page"].page = "private" THEN doc["page"].token
                        ELSE cookie.csrf
               post == [s.of.form EXCEPT !.token = token]
    <3>1. s.of.form \in Posts
        BY <1>1, <2>3 DEF WorkspaceArguments
    <3>2. token \in Tokens \cup {None}
        BY <2>0 DEF WorkspaceInv, Shows, Documents, Tabs, Cookies
    <3>3. Exchange(Post(cookie, post), s.of.has)
        BY <1>7, <2>3 DEF Ask
    <3> HIDE DEF token
    <3>4. post \in Posts
        BY <3>1, <3>2 DEF Posts
    <3>5. Post(cookie, post) \in Answers
        BY <2>0, <3>4, PostAnswer
    <3> QED
        BY <1>2, <3>3, <3>5, StepExchange
  <2> QED
      BY <1>7, <2>1, <2>2, <2>3 DEF Ask
<1>8. CASE Observe(s)
  <2>1. UNCHANGED <<serverVars, browserVars>>
      BY <1>8 DEF Observe, Check
  <2> QED
      BY <1>2, <2>1 DEF WorkspaceInv, serverVars, browserVars
<1> QED
    BY <1>3, <1>5, <1>6, <1>7, <1>8

-----------------------------------------------------------------------------
(* The workspace: what is so of every behaviour *)

LEMMA WorkspaceStarts == WorkspaceInit => WorkspaceInv
<1> SUFFICES ASSUME WorkspaceInit
             PROVE  WorkspaceInv
    OBVIOUS
<1>1. "blank" \in Screens /\ Private("portfolio") \in Urls
    BY UrlTypes DEF Screens
<1>2. Blank \in Shows
    BY <1>1, BlankTypes DEF Answered, Arrivals
<1>3. [user |-> None, state |-> "unused"] \in Sessions
    BY DEF Sessions
<1>4. row \in Rows
    BY <1>3 DEF WorkspaceInit, Rows
<1>5. NoCookie \in Cookies
    BY DEF NoCookie, Cookies
<1> QED
    BY <1>2, <1>4, <1>5, FreshAssumption DEF WorkspaceInit, WorkspaceInv

\* Whatever is open: a person's tabs, or a journey.
LEMMA WorkspaceGoesOn ==
    WorkspaceInv /\ (OpenTabs \/ StartJourney \/ WorkspaceStep \/ UNCHANGED workspaceVars)
      => WorkspaceInv'
<1> SUFFICES ASSUME WorkspaceInv,
                    OpenTabs \/ StartJourney \/ WorkspaceStep \/ UNCHANGED workspaceVars
             PROVE  WorkspaceInv'
    OBVIOUS
<1>1. CASE StartJourney \/ UNCHANGED workspaceVars
    BY <1>1 DEF StartJourney, WorkspaceInv, workspaceVars, serverVars, browserVars, userVars
<1> QED
    BY <1>1, StepOpenTabs, StepWorkspacePerson, StepJourney, StepTab DEF WorkspaceStep

LEMMA WorkspaceFacts == WorkspaceInv => WorkspaceTypeOK /\ NeverReplayed
<1> SUFFICES ASSUME WorkspaceInv
             PROVE  WorkspaceTypeOK /\ NeverReplayed
    OBVIOUS
<1>1. ASSUME NEW t \in Tabs
      PROVE  /\ doc[t] \in Documents
             /\ request[t] # None => request[t].doc \in Documents
             /\ doc[t].socket = "live" <=> doc[t].session # None
    BY DEF WorkspaceInv, Navigations, Arrivals, Shows
<1>2. row \in [Handles -> Sessions]
    BY DEF WorkspaceInv, Rows
<1> QED
    BY <1>1, <1>2 DEF WorkspaceInv, WorkspaceTypeOK, NeverReplayed

-----------------------------------------------------------------------------
(* The journeys of the API documentation and of the desk *)

\* A few steps in a row.
LEMMA Few ==
    ASSUME NEW part, NEW w, NEW x, NEW y, NEW z,
           Arguments(part, w), Arguments(part, x), Arguments(part, y), Arguments(part, z)
    PROVE  /\ Scripted(part, <<x, y>>) /\ Scripted(part, <<x, y, z>>)
           /\ Scripted(part, <<w, x, y, z>>)
<1> DEFINE S == {w, x, y, z}
           a == <<x, y>>
           b == <<x, y, z>>
           c == <<w, x, y, z>>
<1>1. /\ a \in Seq(S) /\ b \in Seq(S) /\ c \in Seq(S)
      /\ \A s \in S : Arguments(part, s)
    OBVIOUS
<1> HIDE DEF S, a, b, c
<1>2. Scripted(part, a) /\ Scripted(part, b) /\ Scripted(part, c)
    BY <1>1 DEF Scripted
<1> QED
    BY <1>2 DEF a, b, c

LEMMA DocsScripted == Scripted("docs", DocsJourney)
<1> DEFINE Fit(s) == Scripted("docs", s)
           Fits(s) == Arguments("docs", s)
           ready == [do |-> "await_ready"]
           quiet == [do |-> "see_no_error"]
           type == [do |-> "type"]
           empty == [do |-> "see_empty"]
           toKey == [do |-> "switch", to |-> "api_key"]
           toJwt == [do |-> "switch", to |-> "jwt"]
           clear == [do |-> "clear"]
           refused == [do |-> "reload", broken |-> {"contract"}]
           unscripted == [do |-> "reload", broken |-> {"bundle"}]
           error == [do |-> "see_error"]
<1>1. Fits(ready) /\ Fits(quiet) /\ Fits(type) /\ Fits(empty) /\ Fits(clear) /\ Fits(error)
    BY DEF Arguments
<1>2. Fits(toKey) /\ Fits(toJwt)
    BY DEF Arguments
<1>3. Fits(refused) /\ Fits(unscripted)
    BY DEF Arguments, Parts
<1>4. ASSUME NEW op, NEW status, NEW header
      PROVE  Fit(ExecuteAs(op, status, header))
  <2> DEFINE x == [do |-> "execute", op |-> op]
             y == [do |-> "response", status |-> status, header |-> header]
  <2>1. Fits(x) /\ Fits(y)
      BY DEF Arguments
  <2> HIDE DEF x, y, Fits
  <2>2. Fit(<<x, y>>)
      BY <2>1, Few DEF Fits
  <2> QED
      BY <2>2 DEF ExecuteAs, x, y
<1> DEFINE begin == <<ready, quiet, type>>
           asKey == <<toKey, empty, type>>
           asJwt == <<toJwt, empty, type>>
           alone == <<clear>>
           faults == <<refused, error, unscripted, error>>
           first == ExecuteAs("list", 200, "jwt")
           second == ExecuteAs("detail", 200, "api_key")
           last == ExecuteAs("list", 401, NoCredential)
<1>5. DocsJourney = begin \o first \o asKey \o second \o asJwt \o first \o alone \o last \o faults
    BY DEF DocsJourney
<1> HIDE DEF ready, quiet, type, empty, toKey, toJwt, clear, refused, unscripted, error, Fits
<1>6. Fit(begin) /\ Fit(asKey) /\ Fit(asJwt) /\ Fit(alone) /\ Fit(faults)
    BY <1>1, <1>2, <1>3, Few, Single DEF Fits
<1>7. Fit(first) /\ Fit(second) /\ Fit(last)
    BY <1>4, Zenon
<1>8. \A s, t : Fit(s) /\ Fit(t) => Fit(s \o t)
    BY Joined
<1> HIDE DEF Fit, begin, asKey, asJwt, alone, faults, first, second, last
<1>9. Fit(DocsJourney)
    BY <1>5, <1>6, <1>7, <1>8
<1> QED
    BY <1>9 DEF Fit

LEMMA DocsSteps == 0 \in 0 .. Len(DocsJourney) + 1 /\ 1 \in 0 .. Len(DocsJourney) + 1
<1> DEFINE n == Len(DocsJourney)
<1>1. n \in Nat
    BY DocsScripted, ScriptStep
<1> HIDE DEF n
<1>2. 0 \in 0 .. n + 1 /\ 1 \in 0 .. n + 1
    BY <1>1
<1> QED
    BY <1>2 DEF n

LEMMA DriverStarts == DocsInit => DriverInv
BY DocsSteps DEF DocsInit, DriverInv

\* A page is loaded, and its parts one after the other.
LEMMA PageLoads ==
    ASSUME DriverInv, UNCHANGED driverVars,
           \/ UNCHANGED pageVars
           \/ Assets \/ StartDocs \/ FetchContract \/ Render \/ FireLoad
    PROVE  DriverInv'
<1>1. UNCHANGED <<docsStep, docsFailed>>
    BY DEF driverVars
<1>2. CASE UNCHANGED pageVars
    BY <1>1, <1>2 DEF DriverInv, pageVars
<1>3. CASE Assets
    BY <1>1, <1>3 DEF DriverInv, Assets
<1>4. CASE StartDocs \/ FetchContract \/ Render
    BY <1>1, <1>4 DEF DriverInv, StartDocs, FetchContract, Render, ContinueUnless
<1>5. CASE FireLoad
    BY <1>1, <1>5 DEF DriverInv, FireLoad
<1> QED
    BY <1>2, <1>3, <1>4, <1>5

LEMMA DriverGoesOn == DriverInv /\ [DocsNext]_docsVars => DriverInv'
<1> SUFFICES ASSUME DriverInv, [DocsNext]_docsVars
             PROVE  DriverInv'
    OBVIOUS
<1>0. Len(DocsJourney) \in Nat
    BY DocsScripted, ScriptStep
<1>1. CASE OpenDocs
  <2>1. PICK parts \in SUBSET Parts : LoadPage(parts) /\ docsStep' \in {0, 1}
      BY <1>1 DEF OpenDocs
  <2>2. docsStep' \in 0 .. Len(DocsJourney) + 1 /\ UNCHANGED docsFailed
      BY <1>1, <2>1, DocsSteps DEF OpenDocs
  <2> QED
      BY <2>1, <2>2 DEF LoadPage, DriverInv
<1>2. CASE PageStep
    BY <1>2, PageLoads DEF PageStep, Assets, StartDocs, FetchContract, Render, FireLoad,
                           Intercept, Respond
<1>3. CASE DocsPerson \/ UNCHANGED docsVars
    BY <1>3, PageLoads DEF DocsPerson, docsVars
<1>4. CASE DocsJourneyStep
  <2> DEFINE step == DocsJourney[docsStep]
  <2>1. docsStep \in 1 .. Len(DocsJourney)
      BY <1>4 DEF DocsJourneyStep
  <2>2. step.do = "reload" => step.broken \subseteq Parts
      BY <2>1, DocsScripted, ScriptStep DEF Arguments
  <2>3. \E holds \in BOOLEAN : Asserted(holds)
      BY <1>4 DEF DocsJourneyStep, DriverInv
  <2>4. docsStep' \in 0 .. Len(DocsJourney) + 1 /\ docsFailed' \in BOOLEAN
      BY <1>0, <2>1, <2>3 DEF Asserted
  <2>5. UNCHANGED pageVars \/ (step.do = "reload" /\ LoadPage(step.broken))
      BY <1>4 DEF DocsJourneyStep
  <2> HIDE DEF step
  <2> QED
      BY <2>2, <2>4, <2>5 DEF DriverInv, pageVars, LoadPage
<1> QED
    BY <1>1, <1>2, <1>3, <1>4 DEF DocsNext, DocsStepNext

\* The steps of the desk's journeys.
LEMMA DeskSteps ==
    ASSUME NEW p \in Pages
    PROVE  /\ \A of : \A do \in {"await", "see", "error", "new", "create", "offline", "execute", "publish"} :
                  Scripted("desk", Act(do, p, of))
           /\ \A dest \in Destinations : Scripted("desk", Visit(p, dest))
           /\ \A side \in {"buy", "sell"}, n \in Nat, clicks \in Nat :
                  Scripted("desk", Order(p, side, n, clicks))
<1>1. \A of : \A do \in {"await", "see", "error", "new", "create", "offline", "execute", "publish"} :
          Scripted("desk", Act(do, p, of))
  <2> SUFFICES ASSUME NEW do \in {"await", "see", "error", "new", "create", "offline", "execute",
                                  "publish"},
                      NEW of
               PROVE  Scripted("desk", Act(do, p, of))
      OBVIOUS
  <2>1. Arguments("desk", [do |-> do, page |-> p, of |-> of])
      BY DEF Arguments
  <2> QED
      BY <2>1, Single DEF Act
<1>2. ASSUME NEW dest \in Destinations
      PROVE  Scripted("desk", Visit(p, dest))
  <2>1. Arguments("desk", [do |-> "visit", page |-> p, of |-> dest])
      BY DEF Arguments
  <2>2. Scripted("desk", Act("visit", p, dest))
      BY <2>1, Single DEF Act
  <2>3. Scripted("desk", Act("await", p, [life |-> "live"]))
      BY <1>1
  <2> QED
      BY <2>2, <2>3, Joined DEF Visit
<1>3. ASSUME NEW side \in {"buy", "sell"}, NEW n \in Nat, NEW clicks \in Nat
      PROVE  Scripted("desk", Order(p, side, n, clicks))
  <2> DEFINE of == [side |-> side, n |-> n, clicks |-> clicks]
  <2>1. of.side = side /\ of.n = n /\ of.clicks = clicks
      OBVIOUS
  <2> HIDE DEF of
  <2>2. Arguments("desk", [do |-> "click", page |-> p, of |-> of])
      BY <2>1 DEF Arguments
  <2>3. Scripted("desk", Act("click", p, of))
      BY <2>2, Single DEF Act
  <2> QED
      BY <2>3 DEF Order, of
<1> QED
    BY <1>1, <1>2, <1>3

LEMMA DeskScripted == \A j \in DOMAIN DeskScript : Scripted("desk", DeskScript[j])
<1> DEFINE Fit(s) == Scripted("desk", s)
<1>1. \A s, t : Fit(s) /\ Fit(t) => Fit(s \o t)
    BY Joined
<1>2. "page" \in Pages /\ "portfolio" \in Pages
    BY DeskJourneyAssumption
<1>3. \A p \in {"page", "portfolio"}, dest \in {"card", "portfolio", "orders", "players"} :
          Fit(Visit(p, dest))
    BY <1>2, DeskSteps DEF Destinations
<1>4. \A f : \A p \in {"page", "portfolio"} : Fit(SeeView(p, f)) /\ Fit(AwaitView(p, f)) /\ Fit(AwaitError(p))
    BY <1>2, DeskSteps DEF SeeView, AwaitView, AwaitError
<1>5. \A f : /\ Fit(Act("new", "page", f)) /\ Fit(Act("create", "page", f))
            /\ Fit(Act("offline", "page", f)) /\ Fit(Act("execute", "page", f))
            /\ Fit(Act("publish", "page", f))
    BY <1>2, DeskSteps
<1>6. \A side \in {"buy", "sell"}, n \in Nat, clicks \in Nat : Fit(Order("page", side, n, clicks))
    BY <1>2, DeskSteps
<1> DEFINE a == Order("page", "buy", 101, 1)
           b == Order("page", "buy", 1, 2)
           c == Order("page", "sell", 2, 1)
           d == Order("page", "sell", 1, 1)
<1>7. Fit(a) /\ Fit(b) /\ Fit(c) /\ Fit(d)
  <2>1. 101 \in Nat /\ 1 \in Nat /\ 2 \in Nat
      OBVIOUS
  <2> QED
      BY <1>6, <2>1, Zenon
<1> HIDE DEF Fit
<1>8. Fit(RejectedThenCorrected)
  <2>1. RejectedThenCorrected =
            Visit("page", "card") \o a \o AwaitError("page")
            \o b \o AwaitView("page", [complete |-> TRUE]) \o SeeView("page", [shows |-> 1])
            \o Act("new", "page", NoKey) \o c \o AwaitError("page")
            \o d \o AwaitView("page", [complete |-> TRUE]) \o Visit("page", "card")
      BY DEF RejectedThenCorrected
  <2> DEFINE complete == AwaitView("page", [complete |-> TRUE])
             one == SeeView("page", [shows |-> 1])
  <2>2. Fit(complete) /\ Fit(one)
      BY <1>4
  <2> HIDE DEF a, b, c, d, complete, one
  <2> DEFINE first == Visit("page", "card") \o a \o AwaitError("page") \o b \o complete \o one
  <2>3. Fit(first)
      BY <1>1, <1>3, <1>4, <1>7, <2>2
  <2>4. RejectedThenCorrected =
            first \o Act("new", "page", NoKey) \o c \o AwaitError("page")
            \o d \o complete \o Visit("page", "card")
      BY <2>1 DEF complete, one
  <2> HIDE DEF first
  <2> QED
      BY <1>1, <1>3, <1>4, <1>5, <1>7, <2>2, <2>3, <2>4
<1>9. Fit(CreatedOrder)
    BY <1>1, <1>3, <1>5 DEF CreatedOrder
<1>10. Fit(OrderExecuted)
  <2> DEFINE none == SeeView("portfolio", [shows |-> 0])
             all == AwaitView("portfolio", [shows |-> 3])
             executed == AwaitView("page", [shows |-> "executed"])
  <2>1. Fit(none) /\ Fit(all) /\ Fit(executed)
      BY <1>4
  <2>2. OrderExecuted =
            CreatedOrder \o Visit("portfolio", "portfolio") \o none
            \o Act("execute", "page", NoKey) \o all \o executed
      BY DEF OrderExecuted
  <2> HIDE DEF none, all, executed
  <2> QED
      BY <1>1, <1>3, <1>5, <1>9, <2>1, <2>2
<1>11. Fit(SaleFollowed)
  <2> DEFINE complete == AwaitView("page", [complete |-> TRUE])
             two == SeeView("page", [shows |-> 2])
             followed == AwaitView("portfolio", [shows |-> 2])
  <2>1. Fit(complete) /\ Fit(two) /\ Fit(followed)
      BY <1>4
  <2>2. SaleFollowed =
            Visit("portfolio", "card") \o Visit("portfolio", "portfolio") \o Visit("page", "card")
            \o d \o complete \o two \o followed
      BY DEF SaleFollowed
  <2> HIDE DEF d, complete, two, followed
  <2> QED
      BY <1>1, <1>3, <1>7, <2>1, <2>2
<1>12. Fit(Reconnected)
  <2> DEFINE executed == SeeView("page", [shows |-> "executed"])
             all == SeeView("page", [shows |-> 3])
  <2>1. Fit(executed) /\ Fit(all)
      BY <1>4
  <2>2. Reconnected =
            Visit("page", "card") \o CreatedOrder
            \o Act("offline", "page", NoKey) \o Act("execute", "page", NoKey)
            \o Visit("page", "orders") \o executed \o Visit("page", "orders") \o executed
            \o Visit("page", "portfolio") \o all \o Visit("page", "portfolio") \o all
      BY DEF Reconnected
  <2> HIDE DEF executed, all
  <2> QED
      BY <1>1, <1>3, <1>5, <1>9, <2>1, <2>2
<1>13. Fit(Scouted)
  <2> DEFINE unlisted == SeeView("page", [shows |-> "unlisted"])
             listed == AwaitView("page", [shows |-> "listed"])
  <2>1. Fit(unlisted) /\ Fit(listed)
      BY <1>4
  <2>2. Scouted = Visit("page", "players") \o unlisted \o Act("publish", "page", NoKey) \o listed
      BY DEF Scouted
  <2> HIDE DEF unlisted, listed
  <2> QED
      BY <1>1, <1>3, <1>5, <2>1, <2>2
<1>14. Fit(DeskScript["market"]) /\ Fit(DeskScript["reconnect"]) /\ Fit(DeskScript["scouting"])
  <2>1. Fit(RejectedThenCorrected \o OrderExecuted \o SaleFollowed)
      BY <1>1, <1>8, <1>10, <1>11
  <2> QED
      BY <1>12, <1>13, <2>1 DEF DeskScript
<1>15. DOMAIN DeskScript = {"market", "reconnect", "scouting"}
    BY DEF DeskScript
<1> QED
    BY <1>14, <1>15 DEF Fit

\* A step of a journey is one of those a person or the evaluation takes, with
\* other amounts and other pages, or it only looks.
LEMMA DeskJourneySteps ==
    ASSUME DeskInv, Followed, DeskJourneyStep
    PROVE  DeskInv' /\ Followed'
<1> DEFINE s == DeskScript[journey][stage]
<1>1. Arguments("desk", s)
    BY DeskScripted, ScriptStep DEF DeskJourneyStep
<1>2. deskActs' \in 0 .. MaxDeskActs /\ UNCHANGED deskActs
    BY DEF DeskJourneyStep, DeskInv, Typed
<1>3. \/ s.do = "visit" /\ Open(s.page, s.of)
      \/ s.do = "click" /\ Click(s.page, s.of.side, s.of.n, s.of.clicks)
      \/ ClickNew(s.page) \/ CreateOrder(s.page) \/ Leave(s.page)
      \/ ExecuteOrder \/ Publish \/ Looking
    BY DEF DeskJourneyStep
<1> HIDE DEF s
<1>4. s.page \in Pages
    BY <1>1 DEF Arguments
<1>5. CASE s.do = "visit" /\ Open(s.page, s.of)
  <2>1. s.of \in Destinations
      BY <1>1, <1>5 DEF Arguments
  <2> QED
      BY <1>2, <1>4, <1>5, <2>1, StepOpen, FollowOpen
<1>6. CASE s.do = "click" /\ Click(s.page, s.of.side, s.of.n, s.of.clicks)
  <2>1. s.of.side \in {"buy", "sell"} /\ s.of.n \in Nat /\ s.of.clicks \in Nat
      BY <1>1, <1>6 DEF Arguments
  <2> QED
      BY <1>2, <1>4, <1>6, <2>1, StepClick, FollowClick
<1>7. CASE ClickNew(s.page)
    BY <1>2, <1>4, <1>7, StepClickNew, FollowClickNew
<1>8. CASE CreateOrder(s.page)
    BY <1>2, <1>4, <1>8, StepCreateOrder, FollowCreateOrder
<1>9. CASE Leave(s.page)
    BY <1>2, <1>4, <1>9, StepLeave, FollowLeave
<1>10. CASE ExecuteOrder
    BY <1>2, <1>10, StepExecuteOrder, FollowExecuteOrder
<1>11. CASE Publish
    BY <1>2, <1>11, StepPublish, FollowPublish
<1>12. CASE Looking
  <2>1. DeskInv'
    <3>1. Typed'
        BY <1>2, <1>12 DEF Looking, DeskInv, Typed
    <3> QED
        BY <1>12, <3>1, StepElsewhere DEF Looking
  <2>2. Followed'
      BY <1>12 DEF Looking, Followed, Pending, Current, Shown
  <2> QED
      BY <2>1, <2>2
<1> QED
    BY <1>3, <1>5, <1>6, <1>7, <1>8, <1>9, <1>10, <1>11, <1>12

LEMMA DeskGoesOn ==
    DeskInv /\ Followed /\ (OpenDesk \/ StartDeskJourney \/ DeskStep \/ UNCHANGED deskVars)
      => DeskInv' /\ Followed'
<1> SUFFICES ASSUME DeskInv, Followed,
                    OpenDesk \/ StartDeskJourney \/ DeskStep \/ UNCHANGED deskVars
             PROVE  DeskInv' /\ Followed'
    OBVIOUS
<1>1. CASE [DeskNext]_deskVars
    BY <1>1, StepDesk, FollowDesk
<1>2. CASE DeskJourneyStep
    BY <1>2, DeskJourneySteps
<1>3. CASE StartDeskJourney
  <2>1. UNCHANGED <<store, recorded, page, view, hints, lost, serial, deskActs>>
      BY <1>3 DEF StartDeskJourney
  <2>2. Typed'
      BY <2>1 DEF DeskInv, Typed
  <2>3. DeskInv'
      BY <2>1, <2>2, StepElsewhere
  <2> QED
      BY <2>1, <2>3 DEF Followed, Pending, Current, Shown
<1> QED
    BY <1>1, <1>2, <1>3 DEF DeskStep, DeskNext

-----------------------------------------------------------------------------
(* The browser's side as a whole *)

\* What holds of every part, whichever is open.
ClientInv == MediaInv /\ DocsInv /\ DriverInv /\ WorkspaceInv /\ DeskInv /\ Followed

LEMMA ClientStep == ClientInv /\ [ClientNext]_clientVars => ClientInv'
<1> SUFFICES ASSUME ClientInv, [ClientNext]_clientVars
             PROVE  ClientInv'
    OBVIOUS
<1>1. [MediaNext]_mediaVars
    BY DEF ClientNext, OpenAPart, clientVars, MediaNext
<1>2. [DocsNext]_docsVars
    BY DEF ClientNext, OpenAPart, clientVars, DocsNext
<1>3. OpenTabs \/ StartJourney \/ WorkspaceStep \/ UNCHANGED workspaceVars
    BY DEF ClientNext, OpenAPart, clientVars
<1>4. OpenDesk \/ StartDeskJourney \/ DeskStep \/ UNCHANGED deskVars
    BY DEF ClientNext, OpenAPart, clientVars
<1> QED
    BY <1>1, <1>2, <1>3, <1>4, StepMedia, StepDocs, DriverGoesOn, WorkspaceGoesOn, DeskGoesOn
       DEF ClientInv

\* Whatever part is open, all of them keep the invariants they rest on.
THEOREM ClientInvariance == ClientSpec => []ClientInv
<1>1. ClientInit => ClientInv
    BY MediaStarts, DocsStarts, DriverStarts, WorkspaceStarts, InitDesk, FollowStarts
       DEF ClientInit, ClientInv
<1> QED
    BY <1>1, ClientStep, PTL DEF ClientSpec

\* Every variable of the hook, of the documentation page, of the workspace's
\* tabs and of the desk keeps its type (the modules' variables).
THEOREM ClientTypesKept == ClientSpec => []ClientTypeOK
<1>1. ClientInv => ClientTypeOK
  <2>1. MediaInv => MediaTypeOK
      BY DEF MediaInv
  <2>2. DocsInv /\ DriverInv => DocsTypeOK
      BY DEF DocsInv, DriverInv, DocsTypeOK
  <2> QED
      BY <2>1, <2>2, WorkspaceFacts, DeskTypes DEF ClientInv, ClientTypeOK
<1> QED
    BY <1>1, ClientInvariance, PTL

\* An event that was queued when the connection was lost is never sent after
\* it, in whatever order answers, checks and connections come
\* (workspace_session.js: recover).
THEOREM EventsNeverReplayed == ClientSpec => []NeverReplayed
<1>1. ClientInv => NeverReplayed
    BY WorkspaceFacts DEF ClientInv
<1> QED
    BY <1>1, ClientInvariance, PTL

\* What the parts promise to a person holds under their acceptance journeys
\* too (player_media.js, docs.js, workspace_live.ex and tools/openapi).
THEOREM PromisesKept ==
    ClientSpec => [](/\ AvatarTruthful /\ CredentialConfined
                     /\ AttemptOnce /\ QuietPagesAreCurrent)
<1>1. ClientInv => AvatarTruthful /\ CredentialConfined /\ AttemptOnce /\ QuietPagesAreCurrent
  <2>1. MediaInv => AvatarTruthful
      BY DEF MediaInv
  <2>2. DocsInv => CredentialConfined
      BY DEF DocsInv, CredentialConfined, Confined
  <2> QED
      BY <2>1, <2>2, DeskOperations, QuietFacts DEF ClientInv
<1> QED
    BY <1>1, ClientInvariance, PTL

=============================================================================
