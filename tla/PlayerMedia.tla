---------------------------- MODULE PlayerMedia -----------------------------
(***************************************************************************)
(* The PlayerMedia hook (assets/js/player_media.js): an avatar shows its    *)
(* initials until its photo has pixels.  LiveView patches the avatar while  *)
(* images load, fail and report it later; a patch also puts the class back  *)
(* to the one the server rendered, without `media-ready`.                   *)
(***************************************************************************)
EXTENDS Naturals

CONSTANTS
    Images,     \* the img elements an avatar may contain
    NoImage,    \* the avatar has no img element, or the hook is bound to none
    MaxPatches  \* bound on the patches of an avatar

ASSUME MediaAssumption == NoImage \notin Images /\ MaxPatches \in Nat

VARIABLES
    avatar,     \* the hook's life: "absent", "mounted" or "destroyed"
    photo,      \* the img element inside the avatar, or NoImage
    pixels,     \* what each img element has got
    event,      \* the event each img element has yet to deliver, or "none"
    image,      \* this.image, the element the hook is bound to, or NoImage
    listened,   \* the elements that carry the hook's listeners
    mediaReady, \* the avatar has the class media-ready
    patches     \* counts the patches, up to MaxPatches

mediaVars == <<avatar, photo, pixels, event, image, listened, mediaReady, patches>>

\* "loaded" has pixels; "blank" is complete with a natural width of zero and
\* "broken" failed, so both are complete without pixels.
Pixels == {"fetching", "loaded", "blank", "broken"}

MediaInit ==
    /\ avatar = "absent" /\ photo = NoImage /\ image = NoImage
    /\ pixels = [i \in Images |-> "fetching"]
    /\ event = [i \in Images |-> "none"]
    /\ listened = {} /\ mediaReady = FALSE /\ patches = 0

\* An img element gets a source: a cached picture is complete at once and
\* reports it later, another is fetched.  What it had to say of an earlier
\* source is dropped.
PhotoSource(i) ==
    \/ /\ pixels' = [pixels EXCEPT ![i] = "fetching"]
       /\ event' = [event EXCEPT ![i] = "none"]
    \/ /\ pixels' = [pixels EXCEPT ![i] = "loaded"]
       /\ event' = [event EXCEPT ![i] = "load"]

\* The content a render leaves in the avatar: no image, an element that stays,
\* or one that is new or whose source changed.
RenderPhoto(i) ==
    /\ photo' = i
    /\ \/ i \in {NoImage, photo} /\ UNCHANGED <<pixels, event>>
       \/ i \in Images /\ PhotoSource(i)

\* A hook that takes a complete image for one with pixels.
BindCompleteImage ==
    /\ image' = photo'
    /\ listened' = (IF photo' = image THEN listened ELSE listened \ {image})
                      \cup ({photo'} \cap Images)
    /\ mediaReady' = (photo' \in Images /\ pixels'[photo'] # "fetching")

\* bindImage, once the avatar is rendered.
BindImage ==
    /\ image' = photo'
    /\ listened' = (IF photo' = image THEN listened ELSE listened \ {image})
                      \cup ({photo'} \cap Images)
    /\ mediaReady' = (photo' \in Images /\ pixels'[photo'] = "loaded")

Mount(i) ==
    /\ avatar = "absent"
    /\ avatar' = "mounted"
    /\ RenderPhoto(i)
    /\ BindImage
    /\ UNCHANGED patches

\* LiveView rewrites the avatar and calls updated() in the same task.
PatchAvatar(i) ==
    /\ avatar = "mounted" /\ patches < MaxPatches
    /\ patches' = patches + 1
    /\ RenderPhoto(i)
    /\ BindImage
    /\ UNCHANGED avatar

\* unbindImage; the class stays on an element that is going away.
Destroy ==
    /\ avatar = "mounted"
    /\ avatar' = "destroyed"
    /\ listened' = listened \ {image} /\ image' = NoImage
    /\ UNCHANGED <<photo, pixels, event, mediaReady, patches>>

\* A fetch ends, also that of an element the page no longer holds.
Fetched(i) ==
    /\ pixels[i] = "fetching" /\ avatar # "absent"
    /\ \E p \in Pixels \ {"fetching"} :
           /\ pixels' = [pixels EXCEPT ![i] = p]
           /\ event' = [event EXCEPT ![i] = IF p = "broken" THEN "error" ELSE "load"]
    /\ UNCHANGED <<avatar, photo, image, listened, mediaReady, patches>>

\* onLoad and onError, on whichever element the listener was left.
Deliver(i) ==
    /\ event[i] # "none"
    /\ event' = [event EXCEPT ![i] = "none"]
    /\ mediaReady' = IF i \in listened THEN event[i] = "load" /\ pixels[i] = "loaded"
                     ELSE mediaReady
    /\ UNCHANGED <<avatar, photo, pixels, image, listened, patches>>

MediaStep ==
    \/ \E i \in Images \cup {NoImage} : PatchAvatar(i)
    \/ Destroy
    \/ \E i \in Images : Fetched(i) \/ Deliver(i)

MediaNext == (\E i \in Images \cup {NoImage} : Mount(i)) \/ MediaStep

MediaSpec == MediaInit /\ [][MediaNext]_mediaVars

-----------------------------------------------------------------------------
(* Properties *)

MediaTypeOK ==
    /\ avatar \in {"absent", "mounted", "destroyed"}
    /\ photo \in Images \cup {NoImage}
    /\ pixels \in [Images -> Pixels]
    /\ event \in [Images -> {"none", "load", "error"}]
    /\ image \in Images \cup {NoImage}
    /\ listened \subseteq Images
    /\ mediaReady \in BOOLEAN
    /\ patches \in 0 .. MaxPatches

\* A mounted avatar hides its initials (player_media.js:19) only for a photo
\* that has pixels, whatever was loaded, replaced or reported before; and no
\* patch and no late event of a replaced element hides a photo that has them.
AvatarTruthful ==
    avatar = "mounted" =>
        /\ mediaReady => photo \in Images /\ pixels[photo] = "loaded"
        /\ photo \in Images => (pixels[photo] = "loaded" /\ event[photo] = "none" => mediaReady)

\* What it rests on: the hook listens exactly to the image it shows.
ListensToPhoto ==
    avatar = "mounted" => image = photo /\ listened = {photo} \cap Images

\* An error is only reported of an image that failed.
ErrorsMeanBroken == \A i \in Images : event[i] = "error" => pixels[i] = "broken"

MediaInv ==
    /\ MediaTypeOK /\ AvatarTruthful /\ ListensToPhoto /\ ErrorsMeanBroken
    /\ avatar = "absent" => listened = {}

=============================================================================
