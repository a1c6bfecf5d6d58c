-------------------------- MODULE TradeDeskProofs ---------------------------
(***************************************************************************)
(* Theorems about the trade form and the pages of an account, for any       *)
(* number of pages, tokens, clicks and losses: an attempt at an operation   *)
(* is recorded at most once, and a page that has heard everything shows     *)
(* what is committed.                                                       *)
(***************************************************************************)
EXTENDS TradeDesk, TLAPS

-----------------------------------------------------------------------------
(* One page: what each step does to its process g and its view w *)

\* A step that leaves key, life, outcome and inbox of the process alone.
LEMMA SoundKept ==
    ASSUME NEW p, NEW g, NEW h, NEW w, NEW n, NEW trades, Sound(p, g, w, n, trades),
           h.key = g.key, h.life = g.life, h.busy = g.busy, h.complete = g.complete,
           h.inbox = g.inbox
    PROVE  Sound(p, h, w, n, trades)
BY DEF Sound, OwnDraws, OwnClicks, Truthful, DisplayedOnce, ClickedOnce, RenewedLast,
       Lagging, Behind

\* The first message is taken from the inbox.
LEMMA SoundTaken ==
    ASSUME NEW p, NEW g, NEW h, NEW w, NEW n, NEW trades, Sound(p, g, w, n, trades),
           h.key = g.key, h.life = g.life, h.busy = g.busy, h.complete = g.complete,
           Len(g.inbox) \in Nat, Len(h.inbox) \in Nat, Len(g.inbox) = Len(h.inbox) + 1,
           \A i \in 1 .. Len(h.inbox) : h.inbox[i] = g.inbox[i + 1]
    PROVE  Sound(p, h, w, n, trades)
<1>1. \A i \in 1 .. Len(h.inbox) : i + 1 \in 1 .. Len(g.inbox)
    OBVIOUS
<1>2. OwnDraws(p, h, w, n) /\ Truthful(h, w, trades)
    BY DEF Sound, OwnDraws, Truthful
<1>3. OwnClicks(p, h, n)
    BY <1>1 DEF Sound, OwnClicks
<1>4. DisplayedOnce(h, w, trades)
    BY <1>1 DEF Sound, DisplayedOnce
<1>5. ClickedOnce(h, trades)
    BY <1>1 DEF Sound, ClickedOnce
<1>6. ASSUME NEW i \in 1 .. Len(h.inbox), NEW j \in 1 .. Len(h.inbox), i < j,
             IsTrade(h.inbox[i]), h.inbox[j].kind = "new_trade"
      PROVE  h.inbox[i].attempt # w.attempt
  <2>1. i + 1 < j + 1
      BY <1>6
  <2> QED
      BY <1>1, <1>6, <2>1 DEF Sound, RenewedLast
<1>7. Lagging(h, w, trades)
    BY <1>1 DEF Sound, Lagging
<1> QED
    BY <1>2, <1>3, <1>4, <1>5, <1>6, <1>7 DEF Sound, RenewedLast

\* A notification is put into it.
LEMMA SoundTold ==
    ASSUME NEW p, NEW g, NEW h, NEW w, NEW n, NEW trades, Sound(p, g, w, n, trades),
           h.key = g.key, h.life = g.life, h.busy = g.busy, h.complete = g.complete,
           Len(g.inbox) \in Nat, Len(h.inbox) = Len(g.inbox) + 1,
           \A i \in 1 .. Len(g.inbox) : h.inbox[i] = g.inbox[i],
           h.inbox[Len(g.inbox) + 1].kind \in {"portfolio", "order", "found"}
    PROVE  Sound(p, h, w, n, trades)
<1> DEFINE z == Len(g.inbox) + 1
<1>1. \A i \in 1 .. Len(h.inbox) : i = z \/ (i \in 1 .. Len(g.inbox) /\ h.inbox[i] = g.inbox[i])
    OBVIOUS
<1>2. ~IsTrade(h.inbox[z]) /\ h.inbox[z].kind # "new_trade"
    BY DEF IsTrade
<1> HIDE DEF z
<1>3. OwnDraws(p, h, w, n) /\ Truthful(h, w, trades)
    BY DEF Sound, OwnDraws, Truthful
<1>4. OwnClicks(p, h, n)
    BY <1>1, <1>2 DEF Sound, OwnClicks
<1>5. DisplayedOnce(h, w, trades)
    BY <1>1, <1>2 DEF Sound, DisplayedOnce
<1>6. ClickedOnce(h, trades)
    BY <1>1, <1>2 DEF Sound, ClickedOnce
<1>7. ASSUME NEW i \in 1 .. Len(h.inbox), NEW j \in 1 .. Len(h.inbox), i < j,
             IsTrade(h.inbox[i]), h.inbox[j].kind = "new_trade"
      PROVE  h.inbox[i].attempt # w.attempt
  <2>1. i # z /\ j # z
      BY <1>2, <1>7
  <2>2. /\ i \in 1 .. Len(g.inbox) /\ h.inbox[i] = g.inbox[i]
        /\ j \in 1 .. Len(g.inbox) /\ h.inbox[j] = g.inbox[j]
      BY <1>1, <2>1
  <2> QED
      BY <2>2, <1>7 DEF Sound, RenewedLast
<1>8. Lagging(h, w, trades)
    BY <1>1, <1>2 DEF Sound, Lagging
<1> QED
    BY <1>3, <1>4, <1>5, <1>6, <1>7, <1>8 DEF Sound, RenewedLast

\* What a page has drawn is a key, and its attempts are at what it has drawn.
LEMMA AttemptTypes ==
    ASSUME NEW p \in Pages, NEW n \in Nat
    PROVE  /\ Own(p, n) \subseteq Pages \X Nat /\ NoKey \notin Own(p, n)
           /\ Attempts(p, n) \subseteq [op : Pages \X Nat, losses : Nat]
           /\ NoKey \notin Attempts(p, n)
           /\ \A a \in Attempts(p, n) : a.op \in Own(p, n) /\ a.losses \in Nat
<1>1. Own(p, n) \subseteq Pages \X Nat
    BY DEF Own
<1>2. Attempts(p, n) \subseteq [op : Pages \X Nat, losses : Nat]
    BY <1>1 DEF Attempts
<1>3. \A a \in Attempts(p, n) : a.op \in Own(p, n) /\ a.losses \in Nat
    BY DEF Attempts
<1> QED
    BY <1>1, <1>2, <1>3, DeskAssumption

\* Another page has a trade recorded.
LEMMA SoundBeside ==
    ASSUME NEW p \in Pages, NEW q \in Pages \ {p}, NEW g, NEW w, NEW n \in Nat, NEW m \in Nat,
           NEW trades, Sound(p, g, w, n, trades),
           NEW r, r.key \in Own(q, m), r.attempt \in Attempts(q, m), Len(g.inbox) \in Nat
    PROVE  Sound(p, g, w, n, trades \cup {r})
<1>1. r.key \notin Own(p, n) /\ r.attempt.op \notin Own(p, n)
    BY DEF Own, Attempts
<1>2. r.attempt # NoKey /\ r.key # NoKey
    BY AttemptTypes
<1>3. \A a \in Attempts(p, n) : a.op # r.attempt.op /\ a # r.attempt
    BY <1>1, AttemptTypes
<1>4. r.attempt # w.attempt /\ r.key # g.key /\ Behind(r.attempt, w)
    BY <1>1, <1>2, <1>3 DEF Sound, OwnDraws, Behind
<1>5. \A i \in 1 .. Len(g.inbox) : IsTrade(g.inbox[i]) => g.inbox[i].attempt # r.attempt
    BY <1>3 DEF Sound, OwnClicks
<1>6. \A k : Done(k, trades) => Done(k, trades \cup {r})
    BY DEF Done
<1>7. Done(g.key, trades \cup {r}) => Done(g.key, trades)
    BY <1>4 DEF Done
<1>8. Lagging(g, w, trades \cup {r})
    BY <1>4 DEF Sound, Lagging
<1> QED
    BY <1>4, <1>5, <1>6, <1>7, <1>8 DEF Sound, Truthful, DisplayedOnce, ClickedOnce

\* A page is opened or left: its messages are gone, and no trade is of the
\* attempt that its view remembers.
LEMMA SoundReset ==
    ASSUME NEW p \in Pages, NEW h, NEW v, NEW n, NEW trades,
           h.life \in {"closed", "rendered"}, h.key = NoKey, h.busy = NoKey, ~h.complete,
           Len(h.inbox) = 0, v.life = "closed", ~v.complete,
           v.attempt \in Attempts(p, n) \cup {NoKey},
           \A r \in trades : r.attempt # v.attempt /\ Behind(r.attempt, v)
    PROVE  Sound(p, h, v, n, trades)
<1>1. OwnDraws(p, h, v, n)
    BY DEF OwnDraws
<1>2. /\ OwnClicks(p, h, n) /\ ClickedOnce(h, trades) /\ RenewedLast(h, v)
      /\ Lagging(h, v, trades)
    BY DEF OwnClicks, ClickedOnce, RenewedLast, Lagging
<1>3. Truthful(h, v, trades)
    BY DeskAssumption DEF Truthful
<1>4. DisplayedOnce(h, v, trades)
    BY DEF DisplayedOnce
<1> QED
    BY <1>1, <1>2, <1>3, <1>4 DEF Sound

\* A view that remembers nothing.
LEMMA SoundForgotten ==
    ASSUME NEW p \in Pages, NEW h, NEW n, NEW trades,
           h.life \in {"closed", "rendered"}, h.key = NoKey, h.busy = NoKey, ~h.complete,
           Len(h.inbox) = 0, \A r \in trades : r.attempt # NoKey
    PROVE  Sound(p, h, NoView, n, trades)
<1>1. NoView.attempt = NoKey /\ NoView.life = "closed" /\ ~NoView.complete
    BY DEF NoView
<1>2. \A r \in trades : Behind(r.attempt, NoView)
    BY <1>1 DEF Behind
<1> QED
    BY <1>1, <1>2, SoundReset

\* No trade is of the attempt of a view that is gone and not live again.
LEMMA NotYetTried ==
    ASSUME NEW p \in Pages, NEW g, NEW w, NEW n \in Nat, NEW trades, Sound(p, g, w, n, trades),
           w.life # "live", \A r \in trades : r.attempt # NoKey
    PROVE  \A r \in trades : r.attempt # w.attempt
<1> SUFFICES ASSUME NEW r \in trades, r.attempt = w.attempt
             PROVE  FALSE
    OBVIOUS
<1>1. w.attempt \in Attempts(p, n)
    BY DEF Sound, OwnDraws
<1>2. r.attempt.losses < w.attempt.losses
    BY DEF Sound, Lagging, Behind
<1>3. w.attempt.losses \in Nat
    BY <1>1, AttemptTypes
<1> QED
    BY <1>2, <1>3

\* What was drawn before is not the next draw, and still drawn after it.
LEMMA DrawsGrow ==
    ASSUME NEW p \in Pages, NEW n \in Nat
    PROVE  /\ <<p, n + 1>> \in Own(p, n + 1) /\ <<p, n + 1>> \notin Own(p, n)
           /\ Own(p, n) \subseteq Own(p, n + 1) /\ <<p, n + 1>> \in Pages \X Nat
           /\ <<p, n + 1>> # NoKey
           /\ Attempts(p, n) \subseteq Attempts(p, n + 1)
           /\ [op |-> <<p, n + 1>>, losses |-> 0] \in Attempts(p, n + 1)
           /\ \A a \in Attempts(p, n) : a.op # <<p, n + 1>>
<1>1. n + 1 \in Nat /\ 1 .. n \subseteq 1 .. (n + 1) /\ n + 1 \in 1 .. (n + 1) /\ n + 1 \notin 1 .. n
    OBVIOUS
<1>2. <<p, n + 1>> \in Pages \X Nat
    BY <1>1
<1>3. /\ <<p, n + 1>> \in Own(p, n + 1) /\ <<p, n + 1>> \notin Own(p, n)
      /\ Own(p, n) \subseteq Own(p, n + 1)
    BY <1>1 DEF Own
<1>4. /\ Attempts(p, n) \subseteq Attempts(p, n + 1)
      /\ [op |-> <<p, n + 1>>, losses |-> 0] \in Attempts(p, n + 1)
    BY <1>3 DEF Attempts
<1>5. \A a \in Attempts(p, n) : a.op # <<p, n + 1>>
    BY <1>3 DEF Attempts
<1> QED
    BY <1>1, <1>2, <1>3, <1>4, <1>5, AttemptTypes, DeskAssumption

\* A new key, when the attempt on display is not recorded.
LEMMA SoundNewKey ==
    ASSUME NEW p \in Pages, NEW g, NEW h, NEW w, NEW n \in Nat, NEW trades,
           Sound(p, g, w, n, trades), \A r \in trades : r.attempt # w.attempt,
           h.key = <<p, n + 1>>, h.busy = NoKey, ~h.complete, h.inbox = g.inbox,
           h.life \in {"joined", "live"}, g.life = "live" <=> h.life = "live"
    PROVE  Sound(p, h, w, n + 1, trades)
<1>1. /\ <<p, n + 1>> \in Own(p, n + 1) /\ <<p, n + 1>> \notin Own(p, n)
      /\ Own(p, n) \subseteq Own(p, n + 1) /\ Attempts(p, n) \subseteq Attempts(p, n + 1)
    BY DrawsGrow
<1>2. OwnDraws(p, h, w, n + 1)
    BY <1>1 DEF Sound, OwnDraws
<1>3. OwnClicks(p, h, n + 1) /\ RenewedLast(h, w)
    BY <1>1 DEF Sound, OwnClicks, RenewedLast
<1>4. Truthful(h, w, trades)
    BY DeskAssumption DEF Sound, Truthful
<1>5. DisplayedOnce(h, w, trades)
    BY DEF DisplayedOnce
<1>6. \A i \in 1 .. Len(h.inbox) : IsTrade(h.inbox[i]) => h.inbox[i].key # h.key
    BY <1>1 DEF Sound, OwnClicks
<1>7. Lagging(h, w, trades)
    BY DEF Sound, Lagging
<1> QED
    BY <1>2, <1>3, <1>4, <1>5, <1>6, <1>7 DEF Sound, ClickedOnce

\* The page is loaded.
LEMMA SoundLoaded ==
    ASSUME NEW p, NEW g, NEW h, NEW w, NEW n, NEW trades, Sound(p, g, w, n, trades),
           g.life = "joined", h.life = "live", h.key = g.key, h.busy = g.busy,
           h.complete = g.complete, h.inbox = g.inbox
    PROVE  Sound(p, h, w, n, trades)
BY DEF Sound, OwnDraws, OwnClicks, Truthful, DisplayedOnce, ClickedOnce, RenewedLast,
       Lagging, Behind

\* The view is brought up to date, and is at the same attempt.
LEMMA SoundPatched ==
    ASSUME NEW p, NEW g, NEW w, NEW v, NEW n, NEW trades,
           Sound(p, g, w, n, trades), g.life = "live", w.attempt # NoKey,
           v.life = "live", v.key = g.key, v.complete = g.complete, v.attempt = w.attempt
    PROVE  Sound(p, g, v, n, trades)
BY DEF Sound, OwnDraws, Truthful, DisplayedOnce, RenewedLast, Lagging, Behind

\* The view is brought up to date, and is at a new operation.
LEMMA SoundPatchedAnew ==
    ASSUME NEW p \in Pages, NEW g, NEW w, NEW v, NEW n \in Nat, NEW trades,
           Sound(p, g, w, n, trades), g.life = "live",
           v.life = "live", v.key = g.key, v.complete = g.complete,
           v.attempt \in Attempts(p, n + 1), v.attempt.op = <<p, n + 1>>,
           \A r \in trades : r.attempt.op # <<p, n + 1>>
    PROVE  Sound(p, g, v, n + 1, trades)
<1>1. /\ Own(p, n) \subseteq Own(p, n + 1) /\ Attempts(p, n) \subseteq Attempts(p, n + 1)
      /\ v.attempt # NoKey
      /\ \A a \in Attempts(p, n) : a.op # v.attempt.op
  <2>1. n + 1 \in Nat
      OBVIOUS
  <2>2. v.attempt # NoKey
      BY <2>1, AttemptTypes
  <2>3. /\ Own(p, n) \subseteq Own(p, n + 1) /\ Attempts(p, n) \subseteq Attempts(p, n + 1)
        /\ \A a \in Attempts(p, n) : a.op # <<p, n + 1>>
      BY DrawsGrow
  <2> QED
      BY <2>2, <2>3
<1>2. OwnDraws(p, g, v, n + 1)
    BY <1>1 DEF Sound, OwnDraws
<1>3. OwnClicks(p, g, n + 1) /\ ClickedOnce(g, trades)
    BY <1>1 DEF Sound, OwnClicks
<1>4. Truthful(g, v, trades)
    BY DEF Sound, Truthful
<1>5. DisplayedOnce(g, v, trades)
    BY <1>1 DEF DisplayedOnce
<1>6. RenewedLast(g, v)
    BY <1>1 DEF Sound, RenewedLast, OwnClicks
<1>7. Lagging(g, v, trades)
    BY <1>1 DEF Sound, Lagging, Behind, OwnClicks
<1> QED
    BY <1>2, <1>3, <1>4, <1>5, <1>6, <1>7 DEF Sound

\* A trade is clicked, some number of times.
LEMMA SoundClicked ==
    ASSUME NEW p, NEW g, NEW h, NEW w, NEW n, NEW trades, Sound(p, g, w, n, trades),
           w.life = "live",
           h.key = g.key, h.life = g.life, h.busy = g.busy, h.complete = g.complete,
           Len(g.inbox) \in Nat, Len(h.inbox) \in Nat,
           \A i \in 1 .. Len(h.inbox) :
               \/ i \in 1 .. Len(g.inbox) /\ h.inbox[i] = g.inbox[i]
               \/ /\ i > Len(g.inbox) /\ IsTrade(h.inbox[i])
                  /\ h.inbox[i].key = w.key /\ h.inbox[i].attempt = w.attempt
    PROVE  Sound(p, h, w, n, trades)
<1>1. OwnDraws(p, h, w, n) /\ Truthful(h, w, trades)
    BY DEF Sound, OwnDraws, Truthful
<1>2. w.key \in Own(p, n) /\ w.attempt \in Attempts(p, n)
    BY DEF Sound, OwnDraws
<1>3. OwnClicks(p, h, n)
    BY <1>2 DEF Sound, OwnClicks
<1>4. DisplayedOnce(h, w, trades)
    BY DEF Sound, DisplayedOnce, IsTrade
<1>5. ClickedOnce(h, trades)
    BY DEF Sound, ClickedOnce, DisplayedOnce
<1>6. ASSUME NEW i \in 1 .. Len(h.inbox), NEW j \in 1 .. Len(h.inbox), i < j,
             IsTrade(h.inbox[i]), h.inbox[j].kind = "new_trade"
      PROVE  h.inbox[i].attempt # w.attempt
  <2>1. j \in 1 .. Len(g.inbox) /\ h.inbox[j] = g.inbox[j]
      BY <1>6 DEF IsTrade
  <2>2. i \in 1 .. Len(g.inbox) /\ h.inbox[i] = g.inbox[i]
      BY <1>6, <2>1
  <2> QED
      BY <2>1, <2>2, <1>6 DEF Sound, RenewedLast
<1>7. Lagging(h, w, trades)
    BY DEF Sound, Lagging, Behind
<1> QED
    BY <1>1, <1>3, <1>4, <1>5, <1>6, <1>7 DEF Sound, RenewedLast

\* What the view shows otherwise does not matter.
LEMMA SoundView ==
    ASSUME NEW p, NEW g, NEW w, NEW v, NEW n, NEW trades, Sound(p, g, w, n, trades),
           v.life = w.life, v.key = w.key, v.complete = w.complete, v.attempt = w.attempt
    PROVE  Sound(p, g, v, n, trades)
BY DEF Sound, OwnDraws, Truthful, DisplayedOnce, RenewedLast, Lagging, Behind

\* "Nueva operación" is clicked.
LEMMA SoundRenewing ==
    ASSUME NEW p \in Pages, NEW g, NEW h, NEW w, NEW v, NEW n \in Nat, NEW trades,
           Sound(p, g, w, n, trades), w.life = "live", w.complete,
           h.key = g.key, h.life = g.life, h.busy = g.busy, h.complete = g.complete,
           Len(g.inbox) \in Nat, Len(h.inbox) = Len(g.inbox) + 1,
           \A i \in 1 .. Len(g.inbox) : h.inbox[i] = g.inbox[i],
           h.inbox[Len(g.inbox) + 1].kind = "new_trade",
           v.life = w.life, v.key = w.key, v.complete = w.complete,
           v.attempt \in Attempts(p, n + 1), v.attempt.op = <<p, n + 1>>,
           \A r \in trades : r.attempt.op # <<p, n + 1>>
    PROVE  Sound(p, h, v, n + 1, trades)
<1> DEFINE z == Len(g.inbox) + 1
<1>1. /\ Own(p, n) \subseteq Own(p, n + 1) /\ Attempts(p, n) \subseteq Attempts(p, n + 1)
      /\ v.attempt # NoKey
      /\ \A a \in Attempts(p, n) : a.op # v.attempt.op
  <2>1. n + 1 \in Nat
      OBVIOUS
  <2>2. v.attempt # NoKey
      BY <2>1, AttemptTypes
  <2>3. /\ Own(p, n) \subseteq Own(p, n + 1) /\ Attempts(p, n) \subseteq Attempts(p, n + 1)
        /\ \A a \in Attempts(p, n) : a.op # <<p, n + 1>>
      BY DrawsGrow
  <2> QED
      BY <2>2, <2>3
<1>2. \A i \in 1 .. Len(h.inbox) : i = z \/ (i \in 1 .. Len(g.inbox) /\ h.inbox[i] = g.inbox[i])
    OBVIOUS
<1>3. ~IsTrade(h.inbox[z])
    BY DEF IsTrade
<1> HIDE DEF z
<1>4. OwnDraws(p, h, v, n + 1)
  <2>1. g.life = "live"
      BY DEF Sound, OwnDraws
  <2>2. g.key \in Own(p, n) /\ w.key \in Own(p, n)
      BY <2>1 DEF Sound, OwnDraws
  <2> QED
      BY <1>1, <2>1, <2>2 DEF OwnDraws
<1>5. OwnClicks(p, h, n + 1) /\ ClickedOnce(h, trades)
    BY <1>1, <1>2, <1>3 DEF Sound, OwnClicks, ClickedOnce
<1>6. Truthful(h, v, trades) /\ DisplayedOnce(h, v, trades)
    BY <1>1 DEF Sound, Truthful, DisplayedOnce
<1>7. \A i \in 1 .. Len(h.inbox) : IsTrade(h.inbox[i]) =>
          h.inbox[i].attempt # v.attempt /\ h.inbox[i].attempt.op # v.attempt.op
    BY <1>1, <1>2, <1>3 DEF Sound, OwnClicks
<1>8. Lagging(h, v, trades)
    BY <1>1, <1>7 DEF Lagging, Behind
<1> QED
    BY <1>4, <1>5, <1>6, <1>7, <1>8 DEF Sound, RenewedLast

\* The market's answer is there, and is true.
LEMMA SoundAnswered ==
    ASSUME NEW p, NEW g, NEW h, NEW w, NEW n, NEW trades, Sound(p, g, w, n, trades),
           g.life = "live", h.life = "live", h.key = g.key, h.inbox = g.inbox,
           h.busy = "rejected" => ~Done(g.key, trades),
           h.busy = "confirmed" \/ h.complete => Done(g.key, trades)
    PROVE  Sound(p, h, w, n, trades)
BY DEF Sound, OwnDraws, OwnClicks, Truthful, DisplayedOnce, ClickedOnce, RenewedLast,
       Lagging, Behind

\* A click is recorded: no other trade is of its attempt.
LEMMA SoundRecorded ==
    ASSUME NEW p, NEW g, NEW h, NEW w, NEW n, NEW trades, Sound(p, g, w, n, trades),
           h.key = g.key, h.life = g.life, h.busy = g.busy, h.complete = g.complete,
           Len(g.inbox) \in Nat, Len(h.inbox) \in Nat, Len(g.inbox) = Len(h.inbox) + 1,
           \A i \in 1 .. Len(h.inbox) : h.inbox[i] = g.inbox[i + 1],
           g.busy = NoKey, IsTrade(g.inbox[1]), g.inbox[1].key = g.key, ~Done(g.key, trades),
           NEW r, r.key = g.key, r.attempt = g.inbox[1].attempt
    PROVE  Sound(p, h, w, n, trades \cup {r})
<1>1. Sound(p, h, w, n, trades)
    BY SoundTaken
<1>2. 1 \in 1 .. Len(g.inbox)
    OBVIOUS
<1>4. \A k : Done(k, trades) => Done(k, trades \cup {r})
    BY DEF Done
<1>5. Truthful(h, w, trades \cup {r})
    BY <1>1, <1>4, DeskAssumption DEF Sound, Truthful
<1>6. ClickedOnce(h, trades \cup {r})
    BY <1>1 DEF Sound, ClickedOnce
<1>7. ASSUME r.attempt = w.attempt, NEW i \in 1 .. Len(h.inbox)
      PROVE  h.inbox[i].kind # "new_trade"
  <2>1. i + 1 \in 1 .. Len(g.inbox) /\ 1 < i + 1
      OBVIOUS
  <2> QED
      BY <1>2, <1>7, <2>1 DEF Sound, RenewedLast
<1>8. DisplayedOnce(h, w, trades \cup {r})
    BY <1>1, <1>7 DEF Sound, DisplayedOnce
<1>9. Lagging(h, w, trades \cup {r})
    BY <1>1, <1>2 DEF Sound, Lagging
<1> QED
    BY <1>1, <1>5, <1>6, <1>8, <1>9 DEF Sound

-----------------------------------------------------------------------------
(* Types *)

LEMMA ConstantTypes ==
    /\ NoView \in Views
    /\ \A d \in Destinations, l \in {"closed", "rendered"}, c \in Contents :
           [Closed EXCEPT !.life = l, !.dest = d, !.shows = c] \in Processes
    /\ Closed \in Processes
<1>1. <<>> \in Seq(Events) /\ NoKey \in Drawn /\ NoKey \in Outcomes /\ NoKey \in Errors
      /\ NoKey \in Contents /\ "portfolio" \in Destinations
    BY DEF Drawn, Outcomes, Errors, Contents, Destinations
<1> QED
    BY <1>1 DEF NoView, Views, Closed, Processes

LEMMA ShownTypes ==
    ASSUME Typed, NEW d \in Destinations
    PROVE  Shown(d) \in Contents
BY DEF Typed, Destinations, Shown, Contents, DeskAssumption

\* A broadcast leaves all of a process but its inbox alone, which may get one
\* notification more.
LEMMA ToldTypes ==
    ASSUME NEW pages \in [Pages -> Processes], NEW ps, NEW k \in {"portfolio", "order", "found"}
    PROVE  /\ Told(pages, ps, k) \in [Pages -> Processes]
           /\ \A p \in Pages : Told(pages, ps, k)[p] =
                  IF p \in ps /\ Subscribed(p)
                  THEN [pages[p] EXCEPT !.inbox = Append(@, [kind |-> k])] ELSE pages[p]
<1>1. [kind |-> k] \in Events
    BY DEF Events
<1>2. ASSUME NEW p \in Pages
      PROVE  [pages[p] EXCEPT !.inbox = Append(@, [kind |-> k])] \in Processes
  <2>1. pages[p] \in Processes /\ pages[p].inbox \in Seq(Events)
      BY DEF Processes
  <2>2. Append(pages[p].inbox, [kind |-> k]) \in Seq(Events)
      BY <1>1, <2>1
  <2> QED
      BY <2>1, <2>2 DEF Processes
<1> QED
    BY <1>2 DEF Told

\* What a broadcast does to a page keeps it sound.
LEMMA SoundAfterTold ==
    ASSUME NEW p, NEW g \in Processes, NEW h, NEW w, NEW n, NEW trades, Sound(p, g, w, n, trades),
           NEW k \in {"portfolio", "order", "found"},
           h = g \/ h = [g EXCEPT !.inbox = Append(@, [kind |-> k])]
    PROVE  Sound(p, h, w, n, trades)
<1>1. CASE h = g
    BY <1>1
<1>2. CASE h = [g EXCEPT !.inbox = Append(@, [kind |-> k])]
  <2>1. g.inbox \in Seq(Events)
      BY DEF Processes
  <2>2. h.inbox = Append(g.inbox, [kind |-> k])
      BY <1>2 DEF Processes
  <2>3. /\ h.key = g.key /\ h.life = g.life /\ h.busy = g.busy /\ h.complete = g.complete
      BY <1>2 DEF Processes
  <2>4. /\ Len(g.inbox) \in Nat /\ Len(h.inbox) = Len(g.inbox) + 1
        /\ \A i \in 1 .. Len(g.inbox) : h.inbox[i] = g.inbox[i]
        /\ h.inbox[Len(g.inbox) + 1] = [kind |-> k]
      BY <2>1, <2>2
  <2>5. h.inbox[Len(g.inbox) + 1].kind \in {"portfolio", "order", "found"}
      BY <2>4
  <2> QED
      BY <2>3, <2>4, <2>5, SoundTold
<1> QED
    BY <1>1, <1>2

\* What taking the first message does to an inbox.
LEMMA Taken ==
    ASSUME NEW s \in Seq(Events), s # <<>>
    PROVE  /\ Tail(s) \in Seq(Events) /\ Head(s) = s[1] /\ s[1] \in Events
           /\ Len(s) \in Nat /\ Len(Tail(s)) \in Nat /\ Len(s) = Len(Tail(s)) + 1
           /\ \A i \in 1 .. Len(Tail(s)) : Tail(s)[i] = s[i + 1]
OBVIOUS

\* A new operation is of the page's next draw.
LEMMA AnewTypes ==
    ASSUME NEW p \in Pages, serial[p] \in Nat
    PROVE  /\ Anew(p) \in Attempts(p, serial[p] + 1) /\ Anew(p).op = <<p, serial[p] + 1>>
           /\ Anew(p) \in [op : Pages \X Nat, losses : Nat]
<1>1. Fresh(p) = <<p, serial[p] + 1>> /\ serial[p] + 1 \in Nat
    BY DEF Fresh
<1>2. serial[p] + 1 \in 1 .. serial[p] + 1
    OBVIOUS
<1>3. Fresh(p) \in Own(p, serial[p] + 1)
    BY <1>1, <1>2, SMTT(30) DEF Own
<1>4. Fresh(p) \in Pages \X Nat
    BY <1>1, SMTT(30)
<1> QED
    BY <1>1, <1>3, <1>4 DEF Anew, Attempts

\* Nothing recorded is of the operation a page draws next.
LEMMA FreshOperation ==
    ASSUME Typed, Owned, NEW p \in Pages
    PROVE  \A r \in recorded : r.attempt.op # Fresh(p) /\ r.attempt # NoKey
<1>1. serial[p] \in Nat
    BY DEF Typed
<1>2. ASSUME NEW r \in recorded
      PROVE  r.attempt.op # Fresh(p) /\ r.attempt # NoKey
  <2>1. PICK q \in Pages : r.attempt \in Attempts(q, serial[q])
      BY DEF Owned
  <2>2. serial[q] \in Nat
      BY DEF Typed
  <2>3. r.attempt # NoKey /\ r.attempt.op \in Own(q, serial[q])
      BY <2>1, <2>2, AttemptTypes
  <2>4. r.attempt.op # <<p, serial[p] + 1>>
      BY <1>1, <2>2, <2>3 DEF Own
  <2> QED
      BY <2>3, <2>4 DEF Fresh
<1> QED
    BY <1>2

-----------------------------------------------------------------------------
(* Steps of the desk *)

\* A step at one page that records nothing: what is left to show is that the
\* page stays sound.  The others may be told something.
LEMMA OnePage ==
    ASSUME DeskInv, Typed', NEW p \in Pages, NEW k \in {"portfolio", "order", "found"},
           \A q \in Pages \ {p} :
               /\ page'[q] = page[q] \/ page'[q] = [page[q] EXCEPT !.inbox = Append(@, [kind |-> k])]
               /\ view'[q] = view[q] /\ serial'[q] = serial[q],
           serial'[p] \in {serial[p], serial[p] + 1}, recorded' = recorded,
           Sound(p, page'[p], view'[p], serial'[p], recorded)
    PROVE  DeskInv'
<1>1. \A q \in Pages : Sound(q, page[q], view[q], serial[q], recorded) /\ page[q] \in Processes
    BY DEF DeskInv, AllSound, Typed
<1>2. \A q \in Pages \ {p} : Sound(q, page'[q], view'[q], serial'[q], recorded)
    BY <1>1, SoundAfterTold
<1>3. AllSound'
    BY <1>2 DEF AllSound
<1>4. \A q \in Pages : /\ serial[q] \in Nat /\ Own(q, serial[q]) \subseteq Own(q, serial'[q])
                        /\ Attempts(q, serial[q]) \subseteq Attempts(q, serial'[q])
  <2>1. \A q \in Pages : serial[q] \in Nat /\ serial'[q] \in {serial[q], serial[q] + 1}
      BY DEF DeskInv, Typed
  <2> QED
      BY <2>1, DrawsGrow
<1>5. Owned'
  <2>1. \A r \in recorded : \E q \in Pages :
            r.key \in Own(q, serial'[q]) /\ r.attempt \in Attempts(q, serial'[q])
      BY <1>4 DEF DeskInv, Owned
  <2> QED
      BY <2>1 DEF Owned
<1> QED
    BY <1>3, <1>5 DEF DeskInv

\* A step that changes no page beyond what it shows or is told.
LEMMA NoPage ==
    ASSUME DeskInv, Typed', NEW k \in {"portfolio", "order", "found"},
           \A q \in Pages :
               page'[q] = page[q] \/ page'[q] = [page[q] EXCEPT !.inbox = Append(@, [kind |-> k])],
           UNCHANGED <<view, serial, recorded>>
    PROVE  DeskInv'
<1>1. \A q \in Pages : Sound(q, page[q], view[q], serial[q], recorded) /\ page[q] \in Processes
    BY DEF DeskInv, AllSound, Typed
<1>2. \A q \in Pages : Sound(q, page'[q], view[q], serial[q], recorded)
    BY <1>1, SoundAfterTold
<1>3. AllSound'
    BY <1>2 DEF AllSound
<1>4. Owned'
    BY DEF DeskInv, Owned
<1> QED
    BY <1>3, <1>4 DEF DeskInv

\* What is known of a page before a step.
LEMMA PageFacts ==
    ASSUME DeskInv, NEW p \in Pages
    PROVE  /\ Typed /\ page[p] \in Processes /\ view[p] \in Views /\ serial[p] \in Nat
           /\ Sound(p, page[p], view[p], serial[p], recorded)
           /\ page[p].inbox \in Seq(Events) /\ page[p].dest \in Destinations
           /\ page[p].key \in Drawn /\ page[p].complete \in BOOLEAN
           /\ Shown(page[p].dest) \in Contents
           /\ Fresh(p) = <<p, serial[p] + 1>> /\ Fresh(p) \in Drawn
           /\ \A r \in recorded : r.attempt.op # Fresh(p) /\ r.attempt # NoKey
<1>1. /\ Typed /\ page[p] \in Processes /\ view[p] \in Views /\ serial[p] \in Nat
      /\ Sound(p, page[p], view[p], serial[p], recorded)
    BY DEF DeskInv, AllSound, Typed
<1>2. /\ page[p].inbox \in Seq(Events) /\ page[p].dest \in Destinations
      /\ page[p].key \in Drawn /\ page[p].complete \in BOOLEAN
    BY <1>1 DEF Processes
<1>3. Fresh(p) = <<p, serial[p] + 1>> /\ Fresh(p) \in Drawn
    BY <1>1 DEF Fresh, Drawn
<1> QED
    BY <1>1, <1>2, <1>3, FreshOperation, ShownTypes DEF DeskInv

\* A page that is gone remembers no attempt that was recorded.
LEMMA ViewLost ==
    ASSUME DeskInv, NEW p \in Pages, LoseView(p), NEW h,
           h.life \in {"closed", "rendered"}, h.key = NoKey, h.busy = NoKey, ~h.complete,
           Len(h.inbox) = 0
    PROVE  /\ view' \in [Pages -> Views] /\ \A q \in Pages \ {p} : view'[q] = view[q]
           /\ Sound(p, h, view'[p], serial[p], recorded)
<1> DEFINE w == view[p]
<1>1. /\ Typed /\ w \in Views /\ serial[p] \in Nat /\ Sound(p, page[p], w, serial[p], recorded)
      /\ \A r \in recorded : r.attempt # NoKey
    BY PageFacts
<1>2. CASE view' = [view EXCEPT ![p] = NoView]
  <2>1. view'[p] = NoView /\ view' \in [Pages -> Views]
      BY <1>1, <1>2, ConstantTypes DEF Typed
  <2>2. Sound(p, h, NoView, serial[p], recorded)
      BY <1>1, SoundForgotten
  <2> QED
      BY <1>1, <1>2, <2>1, <2>2 DEF Typed
<1>3. CASE w.life # "live" /\ view' = [view EXCEPT ![p] = Remembered(p)]
  <2>1. Remembered(p) = w
      BY <1>3 DEF Remembered
  <2>2. view'[p] = w /\ view' \in [Pages -> Views]
      BY <1>1, <1>3, <2>1 DEF Typed
  <2>3. w.life = "closed" /\ ~w.complete /\ w.attempt \in Attempts(p, serial[p]) \cup {NoKey}
      BY <1>1, <1>3 DEF Views, Sound, OwnDraws
  <2>4. \A r \in recorded : r.attempt # w.attempt /\ Behind(r.attempt, w)
      BY <1>1, <1>3, NotYetTried DEF Sound, Lagging
  <2>5. Sound(p, h, w, serial[p], recorded)
      BY <2>3, <2>4, SoundReset
  <2> QED
      BY <1>1, <1>3, <2>2, <2>5 DEF Typed
<1>4. CASE w.life = "live" /\ view' = [view EXCEPT ![p] = Remembered(p)]
  <2> DEFINE a == [op |-> w.attempt.op, losses |-> w.attempt.losses + 1]
             v == [NoView EXCEPT !.asked = TRUE, !.attempt = a]
  <2>1. w.attempt \in Attempts(p, serial[p])
      BY <1>1, <1>4 DEF Sound, OwnDraws
  <2>2. w.attempt.op \in Own(p, serial[p]) /\ w.attempt.losses \in Nat
      BY <1>1, <2>1, AttemptTypes
  <2>3. a \in Attempts(p, serial[p])
      BY <2>2 DEF Attempts
  <2>4. a \in [op : Pages \X Nat, losses : Nat]
      BY <1>1, <2>3, AttemptTypes
  <2>5. v \in Views
      BY <2>4 DEF NoView, Views, Drawn, Errors, Contents
  <2>6. v.life = "closed" /\ ~v.complete /\ v.attempt = a
      BY DEF NoView
  <2>7. Remembered(p) = v
      BY <1>4 DEF Remembered
  <2>8. a.op = w.attempt.op /\ a.losses = w.attempt.losses + 1
      OBVIOUS
  <2> HIDE DEF v, a
  <2>9. view'[p] = v /\ view' \in [Pages -> Views]
      BY <1>1, <1>4, <2>5, <2>7 DEF Typed
  <2>10. ASSUME NEW r \in recorded
         PROVE  r.attempt # a /\ Behind(r.attempt, v)
    <3>1. Behind(r.attempt, w) /\ w.attempt # NoKey
        BY <1>1, <1>4 DEF Sound, Lagging, OwnDraws
    <3>2. CASE r.attempt.op = w.attempt.op
      <4>1. r.attempt.losses < w.attempt.losses \/ r.attempt.losses = w.attempt.losses
          BY <3>1, <3>2 DEF Behind
      <4>2. r.attempt.losses \in Nat
        <5>1. PICK q \in Pages : r.attempt \in Attempts(q, serial[q])
            BY DEF DeskInv, Owned
        <5> QED
            BY <5>1 DEF Attempts
      <4>3. r.attempt.losses < a.losses /\ r.attempt.losses # a.losses
          BY <2>2, <2>8, <4>1, <4>2
      <4> QED
          BY <2>6, <4>3 DEF Behind
    <3>3. CASE r.attempt.op # w.attempt.op
        BY <2>6, <2>8, <3>3 DEF Behind
    <3> QED
        BY <3>2, <3>3
  <2>11. Sound(p, h, v, serial[p], recorded)
      BY <2>3, <2>6, <2>10, SoundReset
  <2> QED
      BY <1>1, <1>4, <2>9, <2>11 DEF Typed
<1> QED
    BY <1>2, <1>3, <1>4 DEF LoseView

LEMMA StepOpen ==
    ASSUME DeskInv, NEW p \in Pages, NEW dest \in Destinations, Open(p, dest),
           deskActs' \in 0 .. MaxDeskActs
    PROVE  DeskInv'
<1> DEFINE h == [Closed EXCEPT !.life = "rendered", !.dest = dest, !.shows = Shown(dest)]
<1>1. Typed
    BY DEF DeskInv
<1>2. h \in Processes
    BY <1>1, ConstantTypes, ShownTypes
<1>3. /\ h.life = "rendered" /\ h.key = NoKey /\ h.busy = NoKey /\ ~h.complete
      /\ Len(h.inbox) = 0
    BY DEF Closed
<1>4. page' = [page EXCEPT ![p] = h] /\ LoseView(p)
      /\ UNCHANGED <<store, recorded, hints, lost, serial>>
    BY DEF Open
<1> HIDE DEF h
<1>5. /\ view' \in [Pages -> Views] /\ \A q \in Pages \ {p} : view'[q] = view[q]
      /\ Sound(p, h, view'[p], serial[p], recorded)
    BY <1>3, <1>4, ViewLost
<1>6. Typed' /\ page'[p] = h
    BY <1>1, <1>2, <1>4, <1>5 DEF Typed
<1> QED
    BY <1>1, <1>4, <1>5, <1>6, OnePage DEF Typed

LEMMA StepLeave ==
    ASSUME DeskInv, NEW p \in Pages, Leave(p), deskActs' \in 0 .. MaxDeskActs
    PROVE  DeskInv'
<1>1. Typed
    BY DEF DeskInv
<1>2. page' = [page EXCEPT ![p] = Closed] /\ LoseView(p)
      /\ UNCHANGED <<store, recorded, hints, lost, serial>>
    BY DEF Leave
<1>3. /\ Closed.life = "closed" /\ Closed.key = NoKey /\ Closed.busy = NoKey
      /\ ~Closed.complete /\ Len(Closed.inbox) = 0
    BY DEF Closed
<1>4. /\ view' \in [Pages -> Views] /\ \A q \in Pages \ {p} : view'[q] = view[q]
      /\ Sound(p, Closed, view'[p], serial[p], recorded)
    BY <1>2, <1>3, ViewLost
<1>5. Typed' /\ page'[p] = Closed
    BY <1>1, <1>2, <1>4, ConstantTypes DEF Typed
<1> QED
    BY <1>1, <1>2, <1>4, <1>5, OnePage DEF Typed

LEMMA StepJoin ==
    ASSUME DeskInv, NEW p \in Pages, Join(p)
    PROVE  DeskInv'
<1> DEFINE h == [page[p] EXCEPT !.life = "joined", !.key = Fresh(p)]
<1>1. /\ Typed /\ page[p] \in Processes /\ serial[p] \in Nat
      /\ Sound(p, page[p], view[p], serial[p], recorded)
      /\ Fresh(p) = <<p, serial[p] + 1>> /\ Fresh(p) \in Drawn
      /\ \A r \in recorded : r.attempt # NoKey
    BY PageFacts
<1>2. page[p].life = "rendered" /\ page' = [page EXCEPT ![p] = h] /\ h \in Processes
    BY <1>1 DEF Join, Processes
<1>3. /\ serial' = [serial EXCEPT ![p] = @ + 1]
      /\ UNCHANGED <<store, recorded, view, hints, lost, deskActs>>
    BY DEF Join, Draw, usage
<1>4. /\ h.life = "joined" /\ h.key = <<p, serial[p] + 1>> /\ h.busy = page[p].busy
      /\ h.complete = page[p].complete /\ h.inbox = page[p].inbox
    BY <1>1 DEF Processes
<1> HIDE DEF h
<1>5. Typed'
    BY <1>1, <1>2, <1>3 DEF Typed
<1>6. page[p].busy = NoKey /\ ~page[p].complete /\ view[p].life # "live"
  <2>1. page[p].complete \in BOOLEAN
      BY <1>1 DEF Processes
  <2> QED
      BY <1>1, <1>2, <2>1 DEF Sound, OwnDraws
<1>7. Sound(p, h, view[p], serial[p] + 1, recorded)
  <2>1. \A r \in recorded : r.attempt # view[p].attempt
      BY <1>1, <1>6, NotYetTried
  <2> QED
      BY <1>1, <1>2, <1>4, <1>6, <2>1, SoundNewKey
<1>8. page'[p] = h /\ serial'[p] = serial[p] + 1
    BY <1>1, <1>2, <1>3 DEF Typed
<1> QED
    BY <1>1, <1>2, <1>3, <1>5, <1>7, <1>8, OnePage DEF Typed

LEMMA StepLoad ==
    ASSUME DeskInv, NEW p \in Pages, Load(p)
    PROVE  DeskInv'
<1> DEFINE h == [page[p] EXCEPT !.life = "live", !.shows = Shown(page[p].dest)]
<1>1. /\ Typed /\ page[p] \in Processes /\ Shown(page[p].dest) \in Contents
      /\ Sound(p, page[p], view[p], serial[p], recorded)
    BY PageFacts
<1>2. page[p].life = "joined" /\ page' = [page EXCEPT ![p] = h] /\ h \in Processes
    BY <1>1 DEF Load, Processes
<1>3. UNCHANGED <<store, recorded, view, hints, lost, serial, deskActs>>
    BY DEF Load, usage
<1>4. /\ h.life = "live" /\ h.key = page[p].key /\ h.busy = page[p].busy
      /\ h.complete = page[p].complete /\ h.inbox = page[p].inbox
    BY <1>1 DEF Processes
<1> HIDE DEF h
<1>5. Typed'
    BY <1>1, <1>2, <1>3 DEF Typed
<1>6. Sound(p, h, view[p], serial[p], recorded)
    BY <1>1, <1>2, <1>4, SoundLoaded
<1>7. page'[p] = h
    BY <1>1, <1>2 DEF Typed
<1> QED
    BY <1>1, <1>2, <1>3, <1>5, <1>6, <1>7, OnePage DEF Typed

LEMMA StepPatch ==
    ASSUME DeskInv, NEW p \in Pages, Patch(p)
    PROVE  DeskInv'
<1> DEFINE g == page[p]
           new == view[p].attempt = NoKey \/ (g.error = "rejected" /\ g.key # view[p].key)
           v == [life |-> "live", key |-> g.key, complete |-> g.complete, error |-> g.error,
                 shows |-> g.shows, attempt |-> IF new THEN Anew(p) ELSE view[p].attempt,
                 asked |-> IF new THEN FALSE ELSE view[p].asked]
<1>1. /\ Typed /\ page[p] \in Processes /\ view[p] \in Views /\ serial[p] \in Nat
      /\ Sound(p, page[p], view[p], serial[p], recorded)
      /\ Fresh(p) = <<p, serial[p] + 1>> /\ Fresh(p) \in Drawn
      /\ \A r \in recorded : r.attempt.op # Fresh(p)
    BY PageFacts
<1>2. /\ g.life = "live" /\ view' = [view EXCEPT ![p] = v]
      /\ IF new THEN Draw(p) ELSE UNCHANGED serial
      /\ UNCHANGED <<store, recorded, page, hints, lost, deskActs>>
    BY DEF Patch, usage
<1>3. v \in Views
  <2>1. Anew(p) \in [op : Pages \X Nat, losses : Nat]
      BY <1>1, AnewTypes
  <2> HIDE DEF new
  <2> QED
      BY <1>1, <2>1 DEF Processes, Views
<1>4. v.life = "live" /\ v.key = g.key /\ v.complete = g.complete
      /\ v.attempt = IF new THEN Anew(p) ELSE view[p].attempt
    OBVIOUS
<1>5. ~new => view[p].attempt # NoKey
    OBVIOUS
<1> HIDE DEF v, new
<1>6. view'[p] = v /\ serial' \in [Pages -> Nat] /\ \A q \in Pages \ {p} :
          view'[q] = view[q] /\ serial'[q] = serial[q]
    BY <1>1, <1>2 DEF Typed, Draw
<1>7. Typed'
    BY <1>1, <1>2, <1>3, <1>6 DEF Typed
<1>8. CASE new
  <2>1. serial'[p] = serial[p] + 1
      BY <1>1, <1>2, <1>8 DEF Typed, Draw
  <2>2. /\ v.attempt \in Attempts(p, serial[p] + 1) /\ v.attempt.op = <<p, serial[p] + 1>>
        /\ \A r \in recorded : r.attempt.op # <<p, serial[p] + 1>>
      BY <1>1, <1>4, <1>8, AnewTypes
  <2>3. v.life = "live" /\ v.key = g.key /\ v.complete = g.complete
      BY <1>1, <1>4
  <2>4. Sound(p, g, v, serial[p] + 1, recorded)
      BY <1>1, <1>2, <2>2, <2>3, SoundPatchedAnew
  <2> QED
      BY <1>2, <1>6, <1>7, <2>1, <2>4, OnePage
<1>9. CASE ~new
  <2>1. serial'[p] = serial[p]
      BY <1>2, <1>9
  <2>2. Sound(p, g, v, serial[p], recorded)
      BY <1>1, <1>2, <1>4, <1>5, <1>9, SoundPatched
  <2> QED
      BY <1>2, <1>6, <1>7, <2>1, <2>2, OnePage
<1> QED
    BY <1>8, <1>9

LEMMA StepBroadcast ==
    ASSUME DeskInv, NEW k \in {"order", "found"}, Broadcast(k)
    PROVE  DeskInv'
<1>1. Typed
    BY DEF DeskInv
<1>2. /\ hints' = hints \ {k} /\ page' = Told(page, Pages, k)
      /\ UNCHANGED <<store, recorded, view, lost, serial, deskActs>>
    BY DEF Broadcast, usage
<1>3. /\ page' \in [Pages -> Processes]
      /\ \A q \in Pages :
             page'[q] = page[q] \/ page'[q] = [page[q] EXCEPT !.inbox = Append(@, [kind |-> k])]
  <2>1. page \in [Pages -> Processes] /\ k \in {"portfolio", "order", "found"}
      BY <1>1 DEF Typed
  <2>2. page' \in [Pages -> Processes]
      BY <1>2, <2>1, ToldTypes
  <2>3. \A q \in Pages : page'[q] = IF q \in Pages /\ Subscribed(q)
            THEN [page[q] EXCEPT !.inbox = Append(@, [kind |-> k])] ELSE page[q]
      BY <1>2, <2>1, ToldTypes
  <2> QED
      BY <2>2, <2>3
<1>4. Typed'
    BY <1>1, <1>2, <1>3 DEF Typed
<1> QED
    BY <1>2, <1>3, <1>4, NoPage

LEMMA StepHear ==
    ASSUME DeskInv, NEW p \in Pages, Hear(p)
    PROVE  DeskInv'
<1> DEFINE g == page[p]
           c == IF Concerns(Head(g.inbox).kind, g.dest) THEN Shown(g.dest) ELSE g.shows
           h == [g EXCEPT !.inbox = Tail(@), !.shows = c]
<1>1. /\ Typed /\ g \in Processes /\ Shown(g.dest) \in Contents /\ g.inbox \in Seq(Events)
      /\ Sound(p, g, view[p], serial[p], recorded)
    BY PageFacts
<1>2. /\ g.inbox # <<>> /\ page' = [page EXCEPT ![p] = h]
      /\ UNCHANGED <<store, recorded, view, hints, lost, serial, deskActs>>
    BY DEF Hear, usage
<1>3. /\ Tail(g.inbox) \in Seq(Events)
      /\ Len(g.inbox) \in Nat /\ Len(Tail(g.inbox)) \in Nat /\ Len(g.inbox) = Len(Tail(g.inbox)) + 1
      /\ \A i \in 1 .. Len(Tail(g.inbox)) : Tail(g.inbox)[i] = g.inbox[i + 1]
    BY <1>1, <1>2, Taken
<1>4. c \in Contents
    BY <1>1 DEF Processes
<1> HIDE DEF c
<1>5. /\ h \in Processes /\ h.inbox = Tail(g.inbox)
      /\ h.key = g.key /\ h.life = g.life /\ h.busy = g.busy /\ h.complete = g.complete
    BY <1>1, <1>3, <1>4 DEF Processes
<1> HIDE DEF h
<1>6. Typed'
    BY <1>1, <1>2, <1>5 DEF Typed
<1>7. Sound(p, h, view[p], serial[p], recorded)
    BY <1>1, <1>3, <1>5, SoundTaken
<1>8. page'[p] = h
    BY <1>1, <1>2 DEF Typed
<1> QED
    BY <1>1, <1>2, <1>6, <1>7, <1>8, OnePage DEF Typed

LEMMA StepFinish ==
    ASSUME DeskInv, NEW p \in Pages, Finish(p)
    PROVE  DeskInv'
<1> DEFINE g == page[p]
<1>1. /\ Typed /\ g \in Processes /\ serial[p] \in Nat /\ Shown(g.dest) \in Contents
      /\ Sound(p, g, view[p], serial[p], recorded) /\ g.complete \in BOOLEAN
      /\ Fresh(p) = <<p, serial[p] + 1>> /\ Fresh(p) \in Drawn
    BY PageFacts
<1>2. /\ g.busy # NoKey /\ UNCHANGED <<store, recorded, view, hints, lost, deskActs>>
    BY DEF Finish, usage
<1>3. g.life = "live"
    BY <1>1, <1>2 DEF Sound, OwnDraws
<1>4. CASE g.busy = "confirmed"
  <2> DEFINE told == Told(page, Pages \ {p}, "portfolio")
             h == [told[p] EXCEPT !.busy = NoKey, !.complete = TRUE, !.error = NoKey,
                                  !.shows = Shown(g.dest)]
  <2>1. page' = [told EXCEPT ![p] = h] /\ serial' = serial
      BY <1>4 DEF Finish
  <2>2. /\ told \in [Pages -> Processes] /\ told[p] = g
        /\ \A q \in Pages :
               told[q] = page[q] \/ told[q] = [page[q] EXCEPT !.inbox = Append(@, [kind |-> "portfolio"])]
    <3>1. page \in [Pages -> Processes]
        BY <1>1 DEF Typed
    <3>2. told \in [Pages -> Processes]
        BY <3>1, ToldTypes
    <3>3. \A q \in Pages : told[q] = IF q \in Pages \ {p} /\ Subscribed(q)
              THEN [page[q] EXCEPT !.inbox = Append(@, [kind |-> "portfolio"])] ELSE page[q]
        BY <3>1, ToldTypes
    <3> QED
        BY <3>2, <3>3
  <2> HIDE DEF told
  <2>3. h \in Processes
      BY <1>1, <2>2 DEF Processes, Outcomes, Errors
  <2>4. /\ h.life = "live" /\ h.key = g.key /\ h.inbox = g.inbox /\ h.busy = NoKey
      BY <1>1, <1>3, <2>2 DEF Processes
  <2> HIDE DEF h
  <2>5. Typed'
      BY <1>1, <1>2, <2>1, <2>2, <2>3 DEF Typed
  <2>6. Done(g.key, recorded)
      BY <1>1, <1>4 DEF Sound, Truthful
  <2>7. Sound(p, h, view[p], serial[p], recorded)
      BY <1>1, <1>3, <2>4, <2>6, SoundAnswered, DeskAssumption
  <2>8. page'[p] = h /\ \A q \in Pages \ {p} : page'[q] = told[q]
      BY <2>1, <2>2
  <2>9. \A q \in Pages \ {p} :
            /\ page'[q] = page[q]
                   \/ page'[q] = [page[q] EXCEPT !.inbox = Append(@, [kind |-> "portfolio"])]
            /\ view'[q] = view[q] /\ serial'[q] = serial[q]
      BY <1>2, <2>1, <2>2, <2>8
  <2>10. Sound(p, page'[p], view'[p], serial'[p], recorded)
      BY <1>2, <2>1, <2>7, <2>8
  <2> QED
      BY <1>2, <2>1, <2>5, <2>9, <2>10, OnePage
<1>5. CASE g.busy = "rejected"
  <2> DEFINE h == [g EXCEPT !.busy = NoKey, !.error = "rejected", !.intent = NoKey, !.key = Fresh(p)]
  <2>1. page' = [page EXCEPT ![p] = h] /\ serial' = [serial EXCEPT ![p] = @ + 1]
      BY <1>5 DEF Finish, Definitive, Draw
  <2>2. /\ h \in Processes /\ h.life = "live" /\ h.key = <<p, serial[p] + 1>> /\ h.inbox = g.inbox
        /\ h.busy = NoKey /\ h.complete = g.complete
      BY <1>1, <1>3 DEF Processes, Outcomes, Errors
  <2> HIDE DEF h
  <2>3. Typed'
      BY <1>1, <1>2, <2>1, <2>2 DEF Typed
  <2>4. ~Done(g.key, recorded) /\ ~g.complete
      BY <1>1, <1>5 DEF Sound, Truthful
  <2>5. \A r \in recorded : r.attempt # view[p].attempt
      BY <1>1, <2>4 DEF Sound, DisplayedOnce, Done
  <2>6. Sound(p, h, view[p], serial[p] + 1, recorded)
      BY <1>1, <1>3, <2>2, <2>4, <2>5, SoundNewKey
  <2>7. page'[p] = h /\ serial'[p] = serial[p] + 1
      BY <1>1, <2>1 DEF Typed
  <2> QED
      BY <1>1, <1>2, <2>1, <2>3, <2>6, <2>7, OnePage DEF Typed
<1>6. CASE g.busy = "unconfirmed"
  <2> DEFINE h == [g EXCEPT !.busy = NoKey, !.error = "unconfirmed", !.intent = g.intent, !.key = g.key]
  <2>1. page' = [page EXCEPT ![p] = h] /\ serial' = serial
      BY <1>6 DEF Finish, Definitive
  <2>2. /\ h \in Processes /\ h.life = "live" /\ h.key = g.key /\ h.inbox = g.inbox
        /\ h.busy = NoKey /\ h.complete = g.complete
      BY <1>1, <1>3 DEF Processes, Outcomes, Errors
  <2> HIDE DEF h
  <2>3. Typed'
      BY <1>1, <1>2, <2>1, <2>2 DEF Typed
  <2>4. g.complete => Done(g.key, recorded)
      BY <1>1 DEF Sound, Truthful
  <2>5. Sound(p, h, view[p], serial[p], recorded)
      BY <1>1, <1>3, <2>2, <2>4, SoundAnswered, DeskAssumption
  <2>6. page'[p] = h
      BY <1>1, <2>1 DEF Typed
  <2> QED
      BY <1>1, <1>2, <2>1, <2>3, <2>5, <2>6, OnePage DEF Typed
<1> QED
    BY <1>1, <1>2, <1>4, <1>5, <1>6 DEF Processes, Outcomes

LEMMA StepRenew ==
    ASSUME DeskInv, NEW p \in Pages, Renew(p)
    PROVE  DeskInv'
<1> DEFINE g == page[p]
           t == [g EXCEPT !.inbox = Tail(@)]
<1>1. /\ Typed /\ g \in Processes /\ serial[p] \in Nat /\ g.inbox \in Seq(Events)
      /\ Sound(p, g, view[p], serial[p], recorded)
      /\ Fresh(p) = <<p, serial[p] + 1>> /\ Fresh(p) \in Drawn
    BY PageFacts
<1>2. /\ g.life = "live" /\ g.busy = NoKey
      /\ g.inbox # <<>> /\ Head(g.inbox).kind = "new_trade"
      /\ UNCHANGED <<store, recorded, view, hints, lost, deskActs>>
    BY DEF Renew, usage
<1>3. /\ Tail(g.inbox) \in Seq(Events) /\ Head(g.inbox) = g.inbox[1]
      /\ Len(g.inbox) \in Nat /\ Len(Tail(g.inbox)) \in Nat /\ Len(g.inbox) = Len(Tail(g.inbox)) + 1
      /\ \A i \in 1 .. Len(Tail(g.inbox)) : Tail(g.inbox)[i] = g.inbox[i + 1]
    BY <1>1, <1>2, Taken
<1>4. /\ t \in Processes /\ t.inbox = Tail(g.inbox)
      /\ t.key = g.key /\ t.life = g.life /\ t.busy = g.busy /\ t.complete = g.complete
    BY <1>1, <1>3 DEF Processes
<1>5. Sound(p, t, view[p], serial[p], recorded)
    BY <1>1, <1>3, <1>4, SoundTaken
<1>6. CASE g.intent # NoKey /\ ~g.complete
  <2>1. page' = [page EXCEPT ![p] = t] /\ serial' = serial
      BY <1>6 DEF Renew
  <2> HIDE DEF t
  <2>2. Typed' /\ page'[p] = t
      BY <1>1, <1>2, <1>4, <2>1 DEF Typed
  <2> QED
      BY <1>1, <1>2, <1>5, <2>1, <2>2, OnePage DEF Typed
<1>7. CASE ~(g.intent # NoKey /\ ~g.complete)
  <2> DEFINE h == [g EXCEPT !.inbox = Tail(@), !.key = Fresh(p), !.intent = NoKey,
                            !.complete = FALSE, !.error = NoKey]
  <2>1. page' = [page EXCEPT ![p] = h] /\ serial' = [serial EXCEPT ![p] = @ + 1]
      BY <1>7 DEF Renew, Draw
  <2>2. /\ h \in Processes /\ h.life = "live" /\ h.key = <<p, serial[p] + 1>>
        /\ h.inbox = t.inbox /\ h.busy = NoKey /\ ~h.complete
      BY <1>1, <1>2, <1>3, <1>4 DEF Processes, Errors
  <2> HIDE DEF t, h
  <2>3. /\ Typed' /\ page'[p] = h /\ serial'[p] = serial[p] + 1
      BY <1>1, <1>2, <2>1, <2>2 DEF Typed
  <2>4. 1 \in 1 .. Len(g.inbox)
      BY <1>3
  <2>5. \A r \in recorded : r.attempt # view[p].attempt
      BY <1>1, <1>2, <1>3, <2>4 DEF Sound, DisplayedOnce
  <2>6. Sound(p, h, view[p], serial[p] + 1, recorded)
      BY <1>1, <1>2, <1>4, <1>5, <2>2, <2>5, SoundNewKey
  <2> QED
      BY <1>1, <1>2, <2>1, <2>3, <2>6, OnePage DEF Typed
<1> QED
    BY <1>6, <1>7

LEMMA StepClick ==
    ASSUME DeskInv, NEW p \in Pages, NEW side \in {"buy", "sell"}, NEW n \in Nat, NEW clicks \in Nat,
           Click(p, side, n, clicks), deskActs' \in 0 .. MaxDeskActs
    PROVE  DeskInv'
<1> DEFINE g == page[p]
           e == [kind |-> "trade", side |-> side, n |-> n, key |-> view[p].key, attempt |-> view[p].attempt]
           new == [i \in 1 .. clicks |-> e]
           h == [g EXCEPT !.inbox = @ \o new]
           v == [view[p] EXCEPT !.asked = TRUE]
<1>1. /\ Typed /\ g \in Processes /\ view[p] \in Views /\ serial[p] \in Nat /\ g.inbox \in Seq(Events)
      /\ Sound(p, g, view[p], serial[p], recorded)
    BY PageFacts
<1>2. /\ view[p].life = "live" /\ page' = [page EXCEPT ![p] = h] /\ view' = [view EXCEPT ![p] = v]
      /\ UNCHANGED <<store, recorded, hints, lost, serial>>
    BY DEF Click, Pushed
<1>3. view[p].key \in Pages \X Nat /\ view[p].attempt \in [op : Pages \X Nat, losses : Nat]
  <2>1. view[p].key \in Own(p, serial[p]) /\ view[p].attempt \in Attempts(p, serial[p])
      BY <1>1, <1>2 DEF Sound, OwnDraws
  <2> QED
      BY <1>1, <2>1, AttemptTypes
<1>4. e \in Events
    BY <1>3 DEF Events
<1>5. e.kind = "trade" /\ e.key = view[p].key /\ e.attempt = view[p].attempt
    OBVIOUS
<1> HIDE DEF e
<1>6. new \in Seq(Events) /\ Len(new) = clicks /\ \A i \in 1 .. clicks : new[i] = e
    BY <1>4
<1> HIDE DEF new
<1>7. /\ h \in Processes /\ h.inbox = g.inbox \o new
      /\ h.key = g.key /\ h.life = g.life /\ h.busy = g.busy /\ h.complete = g.complete
  <2>1. g.inbox \o new \in Seq(Events)
      BY <1>1, <1>6
  <2> QED
      BY <1>1, <2>1 DEF Processes
<1> HIDE DEF h
<1>8. /\ Len(g.inbox) \in Nat /\ Len(h.inbox) = Len(g.inbox) + clicks
      /\ \A i \in 1 .. Len(h.inbox) :
             \/ i \in 1 .. Len(g.inbox) /\ h.inbox[i] = g.inbox[i]
             \/ i > Len(g.inbox) /\ h.inbox[i] = e
  <2>1. /\ Len(g.inbox) \in Nat /\ Len(g.inbox \o new) = Len(g.inbox) + clicks
        /\ Len(h.inbox) = Len(g.inbox) + clicks
    <3>1. /\ Len(g.inbox) \in Nat /\ Len(g.inbox \o new) = Len(g.inbox) + clicks
        BY <1>1, <1>6
    <3> QED
        BY <1>7, <3>1
  <2>2. ASSUME NEW i \in 1 .. Len(h.inbox), i <= Len(g.inbox)
        PROVE  i \in 1 .. Len(g.inbox) /\ h.inbox[i] = g.inbox[i]
      BY <1>1, <1>6, <1>7, <2>1, <2>2
  <2>3. ASSUME NEW i \in 1 .. Len(h.inbox), i > Len(g.inbox)
        PROVE  h.inbox[i] = e
    <3>1. i - Len(g.inbox) \in 1 .. clicks
        BY <2>1, <2>3
    <3>2. h.inbox[i] = new[i - Len(g.inbox)]
        BY <1>1, <1>6, <1>7, <2>1, <2>3
    <3> QED
        BY <1>6, <3>1, <3>2
  <2> QED
      BY <2>1, <2>2, <2>3
<1>9. v \in Views /\ Sound(p, h, v, serial[p], recorded)
  <2>1. Len(h.inbox) \in Nat
      BY <1>8
  <2>2. IsTrade(e)
      BY <1>5 DEF IsTrade
  <2>3. \A i \in 1 .. Len(h.inbox) :
            \/ i \in 1 .. Len(g.inbox) /\ h.inbox[i] = g.inbox[i]
            \/ /\ i > Len(g.inbox) /\ IsTrade(h.inbox[i])
               /\ h.inbox[i].key = view[p].key /\ h.inbox[i].attempt = view[p].attempt
      BY <1>5, <1>8, <2>2
  <2>4. Sound(p, h, view[p], serial[p], recorded)
      BY <1>1, <1>2, <1>7, <1>8, <2>1, <2>3, SoundClicked
  <2>5. /\ v \in Views /\ v.life = view[p].life /\ v.key = view[p].key
        /\ v.complete = view[p].complete /\ v.attempt = view[p].attempt
      BY <1>1 DEF Views
  <2> HIDE DEF v
  <2> QED
      BY <2>4, <2>5, SoundView
<1> HIDE DEF v
<1>10. Typed' /\ page'[p] = h /\ view'[p] = v
    BY <1>1, <1>2, <1>7, <1>9 DEF Typed
<1> QED
    BY <1>1, <1>2, <1>9, <1>10, OnePage DEF Typed

LEMMA StepClickNew ==
    ASSUME DeskInv, NEW p \in Pages, ClickNew(p), deskActs' \in 0 .. MaxDeskActs
    PROVE  DeskInv'
<1> DEFINE g == page[p]
           e == [kind |-> "new_trade"]
           h == [g EXCEPT !.inbox = @ \o <<e>>]
           v == [view[p] EXCEPT !.attempt = Anew(p), !.asked = FALSE]
<1>1. /\ Typed /\ g \in Processes /\ view[p] \in Views /\ serial[p] \in Nat /\ g.inbox \in Seq(Events)
      /\ Sound(p, g, view[p], serial[p], recorded)
      /\ Fresh(p) = <<p, serial[p] + 1>> /\ Fresh(p) \in Drawn
      /\ \A r \in recorded : r.attempt.op # Fresh(p)
    BY PageFacts
<1>2. /\ view[p].complete /\ page' = [page EXCEPT ![p] = h] /\ view' = [view EXCEPT ![p] = v]
      /\ serial' = [serial EXCEPT ![p] = @ + 1]
      /\ UNCHANGED <<store, recorded, hints, lost>>
    BY DEF ClickNew, Pushed, Draw
<1>3. e \in Events /\ e.kind = "new_trade"
    BY DEF Events
<1> HIDE DEF e
<1>4. <<e>> \in Seq(Events) /\ Len(<<e>>) = 1 /\ <<e>>[1] = e
    BY <1>3
<1>5. /\ h \in Processes /\ h.inbox = g.inbox \o <<e>>
      /\ h.key = g.key /\ h.life = g.life /\ h.busy = g.busy /\ h.complete = g.complete
  <2>1. g.inbox \o <<e>> \in Seq(Events)
      BY <1>1, <1>4
  <2> QED
      BY <1>1, <2>1 DEF Processes
<1>6. /\ v \in Views /\ v.life = view[p].life /\ v.key = view[p].key
      /\ v.complete = view[p].complete
      /\ v.attempt \in Attempts(p, serial[p] + 1) /\ v.attempt.op = <<p, serial[p] + 1>>
  <2>1. v.attempt = Anew(p)
      BY <1>1 DEF Views
  <2> QED
      BY <1>1, <2>1, AnewTypes DEF Views
<1> HIDE DEF h, v
<1>7. /\ Len(g.inbox) \in Nat /\ Len(h.inbox) = Len(g.inbox) + 1
      /\ \A i \in 1 .. Len(g.inbox) : h.inbox[i] = g.inbox[i]
      /\ h.inbox[Len(g.inbox) + 1] = e
    BY <1>1, <1>4, <1>5
<1>8. view[p].life = "live"
    BY <1>1, <1>2 DEF Sound, OwnDraws
<1>9. Sound(p, h, v, serial[p] + 1, recorded)
    BY <1>1, <1>2, <1>3, <1>5, <1>6, <1>7, <1>8, SoundRenewing
<1>10. Typed' /\ page'[p] = h /\ view'[p] = v /\ serial'[p] = serial[p] + 1
    BY <1>1, <1>2, <1>5, <1>6 DEF Typed
<1> QED
    BY <1>1, <1>2, <1>9, <1>10, OnePage DEF Typed

LEMMA StepCreateOrder ==
    ASSUME DeskInv, NEW p \in Pages, CreateOrder(p), deskActs' \in 0 .. MaxDeskActs
    PROVE  DeskInv'
<1> DEFINE h == [page[p] EXCEPT !.shows = "pending"]
<1>1. /\ Typed /\ page[p] \in Processes /\ Sound(p, page[p], view[p], serial[p], recorded)
    BY PageFacts
<1>2. store' = [store EXCEPT !.order = "pending"] /\ store'.order = "pending"
    BY <1>1 DEF CreateOrder, Typed
<1>3. page' = [page EXCEPT ![p] = h] /\ UNCHANGED <<recorded, view, hints, lost, serial>>
    BY <1>2 DEF CreateOrder
<1>4. /\ h \in Processes /\ h.inbox = page[p].inbox /\ h.key = page[p].key
      /\ h.life = page[p].life /\ h.busy = page[p].busy /\ h.complete = page[p].complete
    BY <1>1 DEF Processes, Contents
<1> HIDE DEF h
<1>5. Sound(p, h, view[p], serial[p], recorded)
    BY <1>1, <1>4, SoundKept
<1>6. Typed' /\ page'[p] = h
    BY <1>1, <1>2, <1>3, <1>4 DEF Typed
<1> QED
    BY <1>1, <1>3, <1>5, <1>6, OnePage DEF Typed

\* Steps that only change what is committed, announced or counted.
LEMMA StepElsewhere ==
    ASSUME DeskInv, Typed', UNCHANGED <<page, view, serial, recorded>>
    PROVE  DeskInv'
BY NoPage

LEMMA StepBegin ==
    ASSUME DeskInv, NEW p \in Pages, Begin(p)
    PROVE  DeskInv'
<1> DEFINE g == page[p]
           e == Head(g.inbox)
           t == [g EXCEPT !.inbox = Tail(@)]
           Refused(x) == [g EXCEPT !.inbox = Tail(@), !.error = x]
           Answer(x) == [g EXCEPT !.inbox = Tail(@), !.intent = <<e.side, e.n>>, !.busy = x]
<1>1. /\ Typed /\ g \in Processes /\ serial[p] \in Nat /\ g.inbox \in Seq(Events)
      /\ Sound(p, g, view[p], serial[p], recorded)
    BY PageFacts
<1>2. /\ g.life = "live" /\ g.busy = NoKey /\ g.inbox # <<>> /\ e.kind = "trade"
      /\ UNCHANGED <<view, hints, serial, deskActs>>
    BY DEF Begin, usage
<1>3. /\ Tail(g.inbox) \in Seq(Events) /\ e = g.inbox[1] /\ e \in Events
      /\ Len(g.inbox) \in Nat /\ Len(Tail(g.inbox)) \in Nat /\ Len(g.inbox) = Len(Tail(g.inbox)) + 1
      /\ \A i \in 1 .. Len(Tail(g.inbox)) : Tail(g.inbox)[i] = g.inbox[i + 1]
    BY <1>1, <1>2, Taken
<1>4. e.side \in {"buy", "sell"} /\ e.n \in Nat
    BY <1>2, <1>3 DEF Events
<1>5. \A x \in Errors : /\ Refused(x) \in Processes /\ Refused(x).inbox = Tail(g.inbox)
                        /\ Refused(x).key = g.key /\ Refused(x).life = g.life
                        /\ Refused(x).busy = g.busy /\ Refused(x).complete = g.complete
    BY <1>1, <1>3 DEF Processes
<1>6. \A x \in Outcomes : /\ Answer(x) \in Processes /\ Answer(x).inbox = Tail(g.inbox)
                          /\ Answer(x).key = g.key /\ Answer(x).life = g.life
                          /\ Answer(x).busy = x /\ Answer(x).complete = g.complete
    BY <1>1, <1>3, <1>4 DEF Processes
<1>7. /\ t \in Processes /\ t.inbox = Tail(g.inbox)
      /\ t.key = g.key /\ t.life = g.life /\ t.busy = g.busy /\ t.complete = g.complete
    BY <1>1, <1>3 DEF Processes
<1>8. Sound(p, t, view[p], serial[p], recorded)
    BY <1>1, <1>3, <1>7, SoundTaken
<1>9. g.complete => Done(g.key, recorded)
    BY <1>1 DEF Sound, Truthful
<1>10. Refusal(p, e) = NoKey => e.key = g.key
    BY DeskAssumption DEF Refusal
<1>11. \/ \E x \in Errors : page' = [page EXCEPT ![p] = Refused(x)] /\ UNCHANGED <<store, recorded, lost>>
       \/ /\ e.key = g.key /\ Done(g.key, recorded)
          /\ page' = [page EXCEPT ![p] = Answer("confirmed")] /\ UNCHANGED <<store, recorded, lost>>
       \/ /\ e.key = g.key /\ ~Done(g.key, recorded)
          /\ page' = [page EXCEPT ![p] = Answer("rejected")] /\ UNCHANGED <<store, recorded, lost>>
       \/ /\ page' = [page EXCEPT ![p] = Answer("unconfirmed")] /\ UNCHANGED <<store, recorded, lost>>
       \/ /\ e.key = g.key /\ ~Done(g.key, recorded) /\ Affordable(e)
          /\ recorded' = recorded \cup {Trade(e)} /\ store' = [store EXCEPT !.held = Held(e)]
          /\ lost' \in {lost, TRUE}
          /\ \E x \in {"confirmed", "unconfirmed"} : page' = [page EXCEPT ![p] = Answer(x)]
  <2>1. Refusal(p, e) # NoKey => Refusal(p, e) \in {"refused", "conflict"}
      BY DEF Refusal
  <2>2. {"refused", "conflict"} \subseteq Errors
      BY DEF Errors
  <2>3. Refusal(p, e) = NoKey => (Done(g.key, recorded) <=> Recorded(e.key) # {})
      BY <1>10 DEF Recorded, Done
  <2> QED
      BY <1>10, <2>1, <2>2, <2>3 DEF Begin
<1> HIDE DEF t, Refused, Answer
<1>12. CASE \E x \in Errors : page' = [page EXCEPT ![p] = Refused(x)]
                             /\ UNCHANGED <<store, recorded, lost>>
  <2>1. PICK x \in Errors : page' = [page EXCEPT ![p] = Refused(x)]
      BY <1>12
  <2>2. UNCHANGED <<store, recorded, lost>>
      BY <1>12
  <2>3. Typed' /\ page'[p] = Refused(x)
      BY <1>1, <1>2, <1>5, <2>1, <2>2 DEF Typed
  <2>4. Sound(p, Refused(x), view[p], serial[p], recorded)
      BY <1>5, <1>7, <1>8, SoundKept
  <2> QED
      BY <1>1, <1>2, <2>1, <2>2, <2>3, <2>4, OnePage DEF Typed
<1>13. ASSUME NEW x \in {"confirmed", "rejected", "unconfirmed"},
              x = "confirmed" => Done(g.key, recorded), x = "rejected" => ~Done(g.key, recorded),
              page' = [page EXCEPT ![p] = Answer(x)], UNCHANGED <<store, recorded, lost>>
       PROVE  DeskInv'
  <2>1. x \in Outcomes
      BY DEF Outcomes
  <2>2. Typed' /\ page'[p] = Answer(x)
      BY <1>1, <1>2, <1>6, <1>13, <2>1 DEF Typed
  <2>3. Sound(p, Answer(x), view[p], serial[p], recorded)
      BY <1>2, <1>6, <1>7, <1>8, <1>9, <1>13, <2>1, SoundAnswered
  <2> QED
      BY <1>1, <1>2, <1>13, <2>2, <2>3, OnePage DEF Typed
<1>14. ASSUME e.key = g.key, ~Done(g.key, recorded), Affordable(e),
              recorded' = recorded \cup {Trade(e)}, store' = [store EXCEPT !.held = Held(e)],
              lost' \in {lost, TRUE},
              NEW x \in {"confirmed", "unconfirmed"}, page' = [page EXCEPT ![p] = Answer(x)]
       PROVE  DeskInv'
  <2> DEFINE r == Trade(e)
  <2>1. r.key = g.key /\ r.attempt = e.attempt
      BY <1>14 DEF Trade
  <2> HIDE DEF r
  <2>2. x \in Outcomes
      BY DEF Outcomes
  <2>3. Held(e) \in 0 .. Stock
    <3>1. store.held \in 0 .. Stock /\ Stock \in Nat
        BY <1>1, DeskAssumption DEF Typed
    <3>2. CASE e.side = "buy"
        BY <1>4, <1>14, <3>1, <3>2 DEF Affordable, Held
    <3>3. CASE e.side = "sell"
        BY <1>4, <1>14, <3>1, <3>3 DEF Affordable, Held
    <3> QED
        BY <1>4, <3>2, <3>3
  <2>4. Typed' /\ page'[p] = Answer(x)
      BY <1>1, <1>2, <1>6, <1>14, <2>2, <2>3 DEF Typed
  <2>5. IsTrade(g.inbox[1]) /\ g.inbox[1].key = g.key /\ r.attempt = g.inbox[1].attempt
      BY <1>2, <1>3, <1>14, <2>1 DEF IsTrade
  <2>6. /\ Sound(p, t, view[p], serial[p], recorded \cup {r})
        /\ \A s \in recorded : s.attempt # r.attempt
    <3>1. /\ Len(g.inbox) \in Nat /\ Len(t.inbox) \in Nat /\ Len(g.inbox) = Len(t.inbox) + 1
          /\ \A i \in 1 .. Len(t.inbox) : t.inbox[i] = g.inbox[i + 1]
        BY <1>3, <1>7
    <3>2. /\ t.key = g.key /\ t.life = g.life /\ t.busy = g.busy /\ t.complete = g.complete
          /\ g.busy = NoKey /\ ~Done(g.key, recorded) /\ r.key = g.key
        BY <1>2, <1>7, <1>14, <2>1
    <3>3. Sound(p, t, view[p], serial[p], recorded \cup {r})
        BY <1>1, <2>5, <3>1, <3>2, SoundRecorded
    <3>4. 1 \in 1 .. Len(g.inbox)
        BY <1>3
    <3>5. \A s \in recorded : s.attempt # r.attempt
        BY <1>1, <1>14, <2>5, <3>4 DEF Sound, ClickedOnce, Done
    <3> QED
        BY <3>3, <3>5
  <2>7. Done(g.key, recorded \cup {r})
      BY <2>1 DEF Done
  <2>8. Sound(p, Answer(x), view[p], serial[p], recorded \cup {r})
      BY <1>2, <1>6, <1>7, <2>2, <2>6, <2>7, SoundAnswered
  <2>9. r.key \in Own(p, serial[p]) /\ r.attempt \in Attempts(p, serial[p])
    <3>1. 1 \in 1 .. Len(g.inbox)
        BY <1>3
    <3> QED
        BY <1>1, <1>14, <2>1, <2>5, <3>1 DEF Sound, OwnClicks
  <2>10. ASSUME NEW q \in Pages \ {p}
         PROVE  Sound(q, page[q], view[q], serial[q], recorded \cup {r})
    <3>1. /\ Sound(q, page[q], view[q], serial[q], recorded)
          /\ page[q].inbox \in Seq(Events) /\ serial[q] \in Nat
        BY PageFacts
    <3>2. Len(page[q].inbox) \in Nat
        BY <3>1
    <3> QED
        BY <1>1, <2>9, <3>1, <3>2, SoundBeside
  <2>11. AllSound'
    <3>1. /\ view' = view /\ serial' = serial /\ recorded' = recorded \cup {r}
          /\ \A q \in Pages \ {p} : page'[q] = page[q]
        BY <1>1, <1>2, <1>14 DEF r, Typed
    <3> QED
        BY <2>4, <2>8, <2>10, <3>1 DEF AllSound
  <2>12. Owned'
      BY <1>2, <1>14, <2>9 DEF DeskInv, Owned, r
  <2>13. \A a, b \in recorded' : a.attempt = b.attempt => a = b
      BY <1>14, <2>6 DEF DeskInv, r
  <2> QED
      BY <2>4, <2>11, <2>12, <2>13 DEF DeskInv
<1> QED
    BY <1>11, <1>12, <1>13, <1>14

LEMMA StepOpenDesk ==
    ASSUME DeskInv, OpenDesk
    PROVE  DeskInv'
<1>1. Typed
    BY DEF DeskInv
<1>2. PICK dests \in Layouts :
          page' = [p \in Pages |-> [Closed EXCEPT !.life = "rendered",
                       !.dest = dests[p], !.shows = Shown(dests[p])]]
    BY DEF OpenDesk
<1>3. /\ view' = [p \in Pages |-> NoView]
      /\ UNCHANGED <<store, recorded, hints, lost, serial, deskActs>>
    BY DEF OpenDesk
<1>4. ASSUME NEW p \in Pages
      PROVE  /\ page'[p] \in Processes
             /\ Sound(p, page'[p], NoView, serial[p], recorded)
  <2>1. dests[p] \in Destinations
      BY DEF Layouts, Destinations
  <2>2. Shown(dests[p]) \in Contents
      BY <1>1, <2>1, ShownTypes
  <2> DEFINE h == [Closed EXCEPT !.life = "rendered", !.dest = dests[p], !.shows = Shown(dests[p])]
  <2>3. page'[p] = h
      BY <1>2
  <2>4. h \in Processes
      BY <2>1, <2>2, ConstantTypes
  <2>5. /\ h.life = "rendered" /\ h.key = NoKey /\ h.busy = NoKey /\ ~h.complete
        /\ Len(h.inbox) = 0
      BY DEF Closed
  <2>6. \A r \in recorded : r.attempt # NoKey
      BY PageFacts
  <2> HIDE DEF h
  <2>7. Sound(p, h, NoView, serial[p], recorded)
      BY <2>5, <2>6, SoundForgotten
  <2> QED
      BY <2>3, <2>4, <2>7
<1>5. page' \in [Pages -> Processes]
    BY <1>2, <1>4
<1>6. Typed'
    BY <1>1, <1>3, <1>5, ConstantTypes DEF Typed
<1>7. AllSound'
    BY <1>3, <1>4 DEF AllSound
<1> QED
    BY <1>3, <1>6, <1>7 DEF DeskInv, Owned

LEMMA StepExecuteOrder ==
    ASSUME DeskInv, ExecuteOrder, deskActs' \in 0 .. MaxDeskActs
    PROVE  DeskInv'
<1>1. Typed
    BY DEF DeskInv
<1>2. Stock \in 0 .. Stock
    BY DeskAssumption
<1>3. store' \in [held : 0 .. Stock, order : {"none", "pending", "executed"},
                 found : {"unlisted", "listed"}]
    BY <1>1, <1>2 DEF Typed, ExecuteOrder
<1>4. hints' \subseteq {"order", "found"}
    BY <1>1 DEF Typed, ExecuteOrder
<1>5. Typed'
    BY <1>1, <1>3, <1>4 DEF Typed, ExecuteOrder
<1> QED
    BY <1>5, StepElsewhere DEF ExecuteOrder

LEMMA StepPublish ==
    ASSUME DeskInv, Publish, deskActs' \in 0 .. MaxDeskActs
    PROVE  DeskInv'
<1>1. Typed
    BY DEF DeskInv
<1>2. Typed'
    BY <1>1 DEF Typed, Publish
<1> QED
    BY <1>2, StepElsewhere DEF Publish

LEMMA StepLoseHint ==
    ASSUME DeskInv, LoseHint, deskActs' \in 0 .. MaxDeskActs
    PROVE  DeskInv'
<1>1. Typed
    BY DEF DeskInv
<1>2. Typed'
    BY <1>1 DEF Typed, LoseHint
<1> QED
    BY <1>2, StepElsewhere DEF LoseHint

LEMMA StepPerson ==
    ASSUME DeskInv, DeskPerson
    PROVE  DeskInv'
<1>1. deskActs' \in 0 .. MaxDeskActs
    BY DeskAssumption DEF DeskPerson, DeskInv, Typed
<1>2. \/ \E p \in Pages : Leave(p) \/ Click(p, "buy", 1, 1) \/ Click(p, "sell", 1, 1)
                            \/ ClickNew(p) \/ CreateOrder(p)
                            \/ Open(p, "card") \/ Open(p, "portfolio")
      \/ ExecuteOrder \/ Publish \/ LoseHint
    BY DEF DeskPerson
<1>3. ASSUME NEW p \in Pages, Leave(p)
      PROVE  DeskInv'
    BY <1>1, <1>3, StepLeave
<1>4. ASSUME NEW p \in Pages, NEW side \in {"buy", "sell"}, Click(p, side, 1, 1)
      PROVE  DeskInv'
    BY <1>1, <1>4, StepClick
<1>5. ASSUME NEW p \in Pages, ClickNew(p)
      PROVE  DeskInv'
    BY <1>1, <1>5, StepClickNew
<1>6. ASSUME NEW p \in Pages, CreateOrder(p)
      PROVE  DeskInv'
    BY <1>1, <1>6, StepCreateOrder
<1>7. ASSUME NEW p \in Pages, NEW dest \in {"card", "portfolio"}, Open(p, dest)
      PROVE  DeskInv'
  <2>1. dest \in Destinations
      BY DEF Destinations
  <2> QED
      BY <1>1, <1>7, <2>1, StepOpen
<1>8. ASSUME ExecuteOrder \/ Publish \/ LoseHint
      PROVE  DeskInv'
    BY <1>1, <1>8, StepExecuteOrder, StepPublish, StepLoseHint
<1> QED
    BY <1>2, <1>3, <1>4, <1>5, <1>6, <1>7, <1>8

LEMMA StepWork ==
    ASSUME DeskInv, DeskWork
    PROVE  DeskInv'
<1>1. ASSUME NEW p \in Pages, PageWork(p)
      PROVE  DeskInv'
  <2>1. CASE Join(p)
      BY <2>1, StepJoin
  <2>2. CASE Load(p)
      BY <2>2, StepLoad
  <2>3. CASE Patch(p)
      BY <2>3, StepPatch
  <2>4. CASE Begin(p)
      BY <2>4, StepBegin
  <2>5. CASE Finish(p)
      BY <2>5, StepFinish
  <2>6. CASE Renew(p)
      BY <2>6, StepRenew
  <2>7. CASE Hear(p)
      BY <2>7, StepHear
  <2> QED
      BY <1>1, <2>1, <2>2, <2>3, <2>4, <2>5, <2>6, <2>7 DEF PageWork
<1>2. ASSUME NEW k \in {"order", "found"}, Broadcast(k)
      PROVE  DeskInv'
    BY <1>2, StepBroadcast
<1> QED
    BY <1>1, <1>2 DEF DeskWork

LEMMA InitDesk == DeskInit => DeskInv
<1> SUFFICES ASSUME DeskInit
             PROVE  DeskInv
    OBVIOUS
<1>1. Typed
  <2>1. store \in [held : 0 .. Stock, order : {"none", "pending", "executed"},
                   found : {"unlisted", "listed"}]
      BY DeskAssumption DEF DeskInit
  <2>2. page \in [Pages -> Processes] /\ view \in [Pages -> Views] /\ serial \in [Pages -> Nat]
    <3>1. page \in [Pages -> Processes]
        BY ConstantTypes DEF DeskInit
    <3>2. view \in [Pages -> Views]
        BY ConstantTypes DEF DeskInit
    <3>3. serial \in [Pages -> Nat]
        BY DEF DeskInit
    <3> QED
        BY <3>1, <3>2, <3>3
  <2>3. hints \subseteq {"order", "found"} /\ lost \in BOOLEAN /\ deskActs \in 0 .. MaxDeskActs
    <3>1. hints \subseteq {"order", "found"} /\ lost \in BOOLEAN
        BY DEF DeskInit
    <3>2. deskActs \in 0 .. MaxDeskActs
        BY DeskAssumption DEF DeskInit
    <3> QED
        BY <3>1, <3>2
  <2> QED
      BY <2>1, <2>2, <2>3 DEF Typed
<1>2. recorded = {}
    BY DEF DeskInit
<1>3. ASSUME NEW p \in Pages
      PROVE  Sound(p, page[p], view[p], serial[p], recorded)
  <2>1. page[p] = Closed /\ view[p] = NoView
      BY DEF DeskInit
  <2>2. /\ Closed.life = "closed" /\ Closed.key = NoKey /\ Closed.busy = NoKey
        /\ ~Closed.complete /\ Len(Closed.inbox) = 0
      BY DEF Closed
  <2>3. Sound(p, Closed, NoView, serial[p], recorded)
      BY <1>2, <2>2, SoundForgotten
  <2> QED
      BY <2>1, <2>3
<1> QED
    BY <1>1, <1>2, <1>3 DEF DeskInv, Owned, AllSound

LEMMA StepDesk == DeskInv /\ [DeskNext]_deskVars => DeskInv'
<1> SUFFICES ASSUME DeskInv, [DeskNext]_deskVars
             PROVE  DeskInv'
    OBVIOUS
<1>1. CASE OpenDesk
    BY <1>1, StepOpenDesk
<1>2. CASE DeskPerson
    BY <1>2, StepPerson
<1>3. CASE DeskWork
    BY <1>3, StepWork
<1>4. CASE UNCHANGED deskVars
    BY <1>4 DEF DeskInv, deskVars, usage, Typed, Owned, AllSound
<1> QED
    BY <1>1, <1>2, <1>3, <1>4 DEF DeskNext

\* The invariant behind the theorems: whatever the desk does, each page's keys
\* and operations are its own and what it takes for done is recorded.
THEOREM DeskInvariance == DeskSpec => []DeskInv
<1> QED
    BY InitDesk, StepDesk, PTL DEF DeskSpec

LEMMA DeskOperations == DeskInv => AttemptOnce
<1> SUFFICES ASSUME DeskInv
             PROVE  AttemptOnce
    OBVIOUS
<1>1. \A p \in Pages : view[p].complete => Done(view[p].key, recorded)
    BY DEF DeskInv, AllSound, Sound, Truthful
<1> QED
    BY <1>1 DEF DeskInv, AttemptOnce, Done

\* A person's operation is recorded at most once while its page lives and at most
\* once more for each time the page was lost before its answer was shown, and a
\* page that shows it complete has its trade (workspace_live.ex: mount,
\* trade_result, definitive_rejection?).
THEOREM AttemptsOnce == DeskSpec => []AttemptOnce
<1> QED
    BY DeskOperations, DeskInvariance, PTL

LEMMA DeskTypes == DeskInv => DeskTypeOK
<1> SUFFICES ASSUME DeskInv
             PROVE  DeskTypeOK
    OBVIOUS
<1>1. Typed
    BY DEF DeskInv
<1>2. ASSUME NEW p \in Pages
      PROVE  /\ page[p].life \in {"closed", "rendered", "joined", "live"}
             /\ page[p].dest \in Destinations
             /\ page[p].key \in Own(p, serial[p]) \cup {NoKey}
             /\ page[p].busy \in {NoKey, "confirmed", "unconfirmed", "rejected"}
             /\ page[p].error \in {NoKey, "unconfirmed", "rejected", "refused", "conflict"}
             /\ view[p].attempt \in Attempts(p, serial[p]) \cup {NoKey}
  <2>1. page[p] \in Processes /\ Sound(p, page[p], view[p], serial[p], recorded)
      BY PageFacts
  <2> QED
      BY <2>1 DEF Processes, Outcomes, Errors, Sound, OwnDraws
<1> QED
    BY <1>1, <1>2 DEF Typed, DeskTypeOK

\* The desk's variables have their types.
THEOREM DeskTypesKept == DeskSpec => []DeskTypeOK
<1> QED
    BY DeskTypes, DeskInvariance, PTL

-----------------------------------------------------------------------------
(* Pages that follow what is committed *)

\* Messages behind the ones there are leave a notification where it is.
LEMMA NotifiedBefore ==
    ASSUME NEW g, NEW h, h.dest = g.dest, Len(g.inbox) \in Nat, Len(h.inbox) \in Nat,
           \A i \in 1 .. Len(g.inbox) : i \in 1 .. Len(h.inbox) /\ h.inbox[i] = g.inbox[i],
           Notified(g)
    PROVE  Notified(h)
BY DEF Notified

\* Taking another message leaves it, too.
LEMMA NotifiedAfter ==
    ASSUME NEW g, NEW h, h.dest = g.dest,
           Len(g.inbox) \in Nat, Len(h.inbox) \in Nat, Len(g.inbox) = Len(h.inbox) + 1,
           \A i \in 1 .. Len(h.inbox) : h.inbox[i] = g.inbox[i + 1],
           g.inbox[1].kind \notin {"portfolio", "order", "found"}
               \/ ~Concerns(g.inbox[1].kind, g.dest),
           Notified(g)
    PROVE  Notified(h)
<1>1. PICK i \in 1 .. Len(g.inbox) :
          /\ g.inbox[i].kind \in {"portfolio", "order", "found"}
          /\ Concerns(g.inbox[i].kind, g.dest)
    BY DEF Notified
<1>2. i # 1
    BY <1>1
<1>3. i - 1 \in 1 .. Len(h.inbox) /\ (i - 1) + 1 = i
    BY <1>2
<1>4. h.inbox[i - 1] = g.inbox[i]
    BY <1>3
<1> QED
    BY <1>1, <1>3, <1>4 DEF Notified

\* So is a page that is told something; and then it is notified.
LEMMA NotifiedTold ==
    ASSUME NEW g \in Processes, NEW h, NEW k \in {"portfolio", "order", "found"},
           h = [g EXCEPT !.inbox = Append(@, [kind |-> k])]
    PROVE  /\ h.dest = g.dest /\ h.shows = g.shows /\ h.life = g.life /\ h.busy = g.busy
           /\ Notified(g) => Notified(h)
           /\ Concerns(k, g.dest) => Notified(h)
<1>1. /\ g.inbox \in Seq(Events) /\ h.inbox = Append(g.inbox, [kind |-> k])
      /\ h.dest = g.dest /\ h.shows = g.shows /\ h.life = g.life /\ h.busy = g.busy
    BY DEF Processes
<1>2. /\ Len(g.inbox) \in Nat /\ Len(h.inbox) \in Nat /\ Len(h.inbox) = Len(g.inbox) + 1
      /\ \A i \in 1 .. Len(g.inbox) : h.inbox[i] = g.inbox[i]
      /\ h.inbox[Len(g.inbox) + 1] = [kind |-> k]
    BY <1>1
<1>3. \A i \in 1 .. Len(g.inbox) : i \in 1 .. Len(h.inbox) /\ h.inbox[i] = g.inbox[i]
    BY <1>2
<1>4. Notified(g) => Notified(h)
    BY <1>1, <1>2, <1>3, NotifiedBefore
<1>5. ASSUME Concerns(k, g.dest)
      PROVE  Notified(h)
  <2>1. Len(g.inbox) + 1 \in 1 .. Len(h.inbox)
      BY <1>2
  <2>2. h.inbox[Len(g.inbox) + 1].kind = k
      BY <1>2
  <2> QED
      BY <1>1, <1>5, <2>1, <2>2 DEF Notified
<1> QED
    BY <1>1, <1>4, <1>5

\* What a page waits for is still to come.
LEMMA PendingKept ==
    ASSUME NEW q \in Pages, Pending(q), Current(q) => Current(q)', lost => lost',
           page'[q].dest = page[q].dest, hints \subseteq hints',
           Notified(page[q]) => Notified(page'[q]),
           \A r \in Pages : page[r].busy = "confirmed" => page'[r].busy = "confirmed"
    PROVE  Pending(q)'
<1>1. CASE Current(q) \/ lost
    BY <1>1 DEF Pending
<1>2. CASE \E k \in hints : Concerns(k, page[q].dest)
    BY <1>2 DEF Pending, Concerns
<1>3. CASE Notified(page[q])
    BY <1>3 DEF Pending
<1>4. CASE \E r \in Pages : page[r].busy = "confirmed" /\ (r = q \/ Concerns("portfolio", page[q].dest))
  <2>1. PICK r \in Pages : page[r].busy = "confirmed" /\ (r = q \/ Concerns("portfolio", page[q].dest))
      BY <1>4
  <2>2. page'[r].busy = "confirmed" /\ (r = q \/ Concerns("portfolio", page'[q].dest))
      BY <2>1
  <2> QED
      BY <2>2 DEF Pending, Concerns
<1> QED
    BY <1>1, <1>2, <1>3, <1>4 DEF Pending

LEMMA CurrentKept ==
    ASSUME NEW q \in Pages, page'[q].dest = page[q].dest, page'[q].shows = page[q].shows,
           store' = store
    PROVE  Current(q) => Current(q)'
BY DEF Current, Shown

\* A step at one page that commits nothing: it is current or waits, and the
\* others may be told something.
LEMMA OnePageFollows ==
    ASSUME DeskInv, Followed, NEW p \in Pages, NEW k \in {"portfolio", "order", "found"},
           store' = store, hints' = hints, lost => lost',
           page[p].busy = "confirmed" => page'[p].busy = "confirmed",
           \A q \in Pages \ {p} :
               page'[q] = page[q] \/ page'[q] = [page[q] EXCEPT !.inbox = Append(@, [kind |-> k])],
           page'[p].life = "live" => Pending(p)'
    PROVE  Followed'
<1>1. ASSUME NEW q \in Pages \ {p}
      PROVE  /\ page'[q].dest = page[q].dest /\ page'[q].shows = page[q].shows
             /\ page'[q].life = page[q].life /\ page'[q].busy = page[q].busy
             /\ Notified(page[q]) => Notified(page'[q])
  <2>1. page[q] \in Processes
      BY PageFacts
  <2>2. CASE page'[q] = page[q]
      BY <2>2
  <2>3. CASE page'[q] = [page[q] EXCEPT !.inbox = Append(@, [kind |-> k])]
      BY <2>1, <2>3, NotifiedTold
  <2> QED
      BY <2>2, <2>3
<1>2. \A r \in Pages : page[r].busy = "confirmed" => page'[r].busy = "confirmed"
    BY <1>1
<1>3. ASSUME NEW q \in Pages \ {p}, page'[q].life = "live"
      PROVE  Pending(q)'
  <2>1. Pending(q)
      BY <1>1, <1>3 DEF Followed
  <2>2. Current(q) => Current(q)'
      BY <1>1, CurrentKept
  <2> QED
      BY <1>1, <1>2, <2>1, <2>2, PendingKept
<1> QED
    BY <1>3 DEF Followed

\* A step after which its page is as it was for those who follow, or is not live.
LEMMA OnlyPage ==
    ASSUME DeskInv, Followed, NEW p \in Pages, NEW h, page' = [page EXCEPT ![p] = h],
           store' = store, hints' = hints, lost => lost',
           page[p].busy = "confirmed" => h.busy = "confirmed",
           h.life = "live" => Pending(p)'
    PROVE  Followed'
<1>1. page'[p] = h /\ \A q \in Pages \ {p} : page'[q] = page[q]
    BY DEF DeskInv, Typed
<1> QED
    BY <1>1, OnePageFollows

\* It keeps what it shows, its messages and its outcome, or gets messages.
LEMMA FollowSame ==
    ASSUME DeskInv, Followed, NEW p \in Pages, NEW h, page' = [page EXCEPT ![p] = h],
           store' = store, hints' = hints, lost => lost',
           h.dest = page[p].dest, h.shows = page[p].shows, page[p].life = "live",
           page[p].busy = "confirmed" => h.busy = "confirmed",
           Notified(page[p]) => Notified(h)
    PROVE  Followed'
<1>1. page'[p] = h /\ \A q \in Pages \ {p} : page'[q] = page[q]
    BY DEF DeskInv, Typed
<1>2. Pending(p) /\ \A r \in Pages : page[r].busy = "confirmed" => page'[r].busy = "confirmed"
    BY <1>1 DEF Followed
<1>3. Current(p) => Current(p)'
    BY <1>1, CurrentKept
<1>4. Pending(p)'
    BY <1>1, <1>2, <1>3, PendingKept
<1> QED
    BY <1>4, OnlyPage

\* A step that changes no page.
LEMMA FollowElsewhere ==
    ASSUME DeskInv, Followed, page' = page, lost => lost', hints \subseteq hints',
           \A q \in Pages : Current(q) => Current(q)' \/ lost'
                                \/ \E k \in hints' : Concerns(k, page[q].dest)
    PROVE  Followed'
<1>1. ASSUME NEW q \in Pages, page'[q].life = "live"
      PROVE  Pending(q)'
  <2>1. Pending(q)
      BY <1>1 DEF Followed
  <2>2. CASE lost' \/ \E k \in hints' : Concerns(k, page[q].dest)
      BY <2>2 DEF Pending, Concerns
  <2>3. CASE ~(lost' \/ \E k \in hints' : Concerns(k, page[q].dest))
    <3>1. Current(q) => Current(q)'
        BY <2>3
    <3> QED
        BY <2>1, <3>1, PendingKept
  <2> QED
      BY <2>2, <2>3
<1> QED
    BY <1>1 DEF Followed

LEMMA FollowOpen ==
    ASSUME DeskInv, Followed, NEW p \in Pages, NEW dest \in Destinations, Open(p, dest)
    PROVE  Followed'
<1> DEFINE h == [Closed EXCEPT !.life = "rendered", !.dest = dest, !.shows = Shown(dest)]
<1>1. h.life = "rendered"
    BY DEF Closed
<1>2. page' = [page EXCEPT ![p] = h] /\ page[p].busy = NoKey
      /\ UNCHANGED <<store, hints, lost>>
    BY DEF Open
<1> QED
    BY <1>1, <1>2, OnlyPage, DeskAssumption

LEMMA FollowLeave ==
    ASSUME DeskInv, Followed, NEW p \in Pages, Leave(p)
    PROVE  Followed'
<1>1. Closed.life = "closed"
    BY DEF Closed
<1>2. page' = [page EXCEPT ![p] = Closed] /\ page[p].busy = NoKey
      /\ UNCHANGED <<store, hints, lost>>
    BY DEF Leave
<1> QED
    BY <1>1, <1>2, OnlyPage, DeskAssumption

LEMMA FollowJoin ==
    ASSUME DeskInv, Followed, NEW p \in Pages, Join(p)
    PROVE  Followed'
<1> DEFINE h == [page[p] EXCEPT !.life = "joined", !.key = Fresh(p)]
<1>1. page[p] \in Processes /\ Sound(p, page[p], view[p], serial[p], recorded)
    BY PageFacts
<1>2. h.life = "joined" /\ page' = [page EXCEPT ![p] = h] /\ page[p].life = "rendered"
      /\ UNCHANGED <<store, hints, lost>>
    BY <1>1 DEF Join, Processes
<1>3. page[p].busy = NoKey
    BY <1>1, <1>2 DEF Sound, OwnDraws
<1> QED
    BY <1>2, <1>3, OnlyPage, DeskAssumption

LEMMA FollowLoad ==
    ASSUME DeskInv, Followed, NEW p \in Pages, Load(p)
    PROVE  Followed'
<1> DEFINE h == [page[p] EXCEPT !.life = "live", !.shows = Shown(page[p].dest)]
<1>1. page[p] \in Processes /\ Sound(p, page[p], view[p], serial[p], recorded) /\ Typed
    BY PageFacts
<1>2. /\ h.shows = Shown(page[p].dest) /\ h.dest = page[p].dest
      /\ page' = [page EXCEPT ![p] = h] /\ page[p].life = "joined"
      /\ UNCHANGED <<store, hints, lost>>
    BY <1>1 DEF Load, Processes
<1> HIDE DEF h
<1>3. page[p].busy = NoKey
    BY <1>1, <1>2 DEF Sound, OwnDraws
<1>4. page'[p] = h
    BY <1>1, <1>2 DEF Typed
<1>5. Current(p)'
    BY <1>2, <1>4 DEF Current, Shown
<1>6. Pending(p)'
    BY <1>5 DEF Pending
<1> QED
    BY <1>2, <1>3, <1>6, OnlyPage, DeskAssumption

LEMMA FollowHear ==
    ASSUME DeskInv, Followed, NEW p \in Pages, Hear(p)
    PROVE  Followed'
<1> DEFINE g == page[p]
           c == IF Concerns(Head(g.inbox).kind, g.dest) THEN Shown(g.dest) ELSE g.shows
           h == [g EXCEPT !.inbox = Tail(@), !.shows = c]
<1>1. Typed /\ g \in Processes /\ g.inbox \in Seq(Events)
    BY PageFacts
<1>2. /\ g.inbox # <<>> /\ page' = [page EXCEPT ![p] = h] /\ g.life = "live" /\ g.busy = NoKey
      /\ UNCHANGED <<store, hints, lost>>
    BY DEF Hear, usage
<1>3. /\ Head(g.inbox) = g.inbox[1]
      /\ Len(g.inbox) \in Nat /\ Len(Tail(g.inbox)) \in Nat /\ Len(g.inbox) = Len(Tail(g.inbox)) + 1
      /\ \A i \in 1 .. Len(Tail(g.inbox)) : Tail(g.inbox)[i] = g.inbox[i + 1]
    BY <1>1, <1>2, Taken
<1>4. h.inbox = Tail(g.inbox) /\ h.shows = c /\ h.dest = g.dest /\ h.life = g.life
    BY <1>1 DEF Processes
<1> HIDE DEF h
<1>5. page'[p] = h
    BY <1>1, <1>2 DEF Typed
<1>6. CASE Concerns(Head(g.inbox).kind, g.dest)
  <2>1. h.shows = Shown(g.dest)
      BY <1>4, <1>6
  <2>2. Current(p)'
      BY <1>2, <1>4, <1>5, <2>1 DEF Current, Shown
  <2>3. Pending(p)'
      BY <2>2 DEF Pending
  <2> QED
      BY <1>2, <2>3, OnlyPage, DeskAssumption
<1>7. CASE ~Concerns(Head(g.inbox).kind, g.dest)
  <2>1. h.shows = g.shows
      BY <1>4, <1>7
  <2>2. ~Concerns(g.inbox[1].kind, g.dest)
      BY <1>3, <1>7
  <2>3. /\ Len(g.inbox) \in Nat /\ Len(h.inbox) \in Nat /\ Len(g.inbox) = Len(h.inbox) + 1
        /\ \A i \in 1 .. Len(h.inbox) : h.inbox[i] = g.inbox[i + 1]
      BY <1>3, <1>4
  <2>4. Notified(g) => Notified(h)
      BY <1>4, <2>2, <2>3, NotifiedAfter
  <2> QED
      BY <1>2, <1>4, <2>1, <2>4, FollowSame, DeskAssumption
<1> QED
    BY <1>6, <1>7

LEMMA FollowRenew ==
    ASSUME DeskInv, Followed, NEW p \in Pages, Renew(p)
    PROVE  Followed'
<1> DEFINE g == page[p]
<1>1. Typed /\ g \in Processes /\ g.inbox \in Seq(Events)
    BY PageFacts
<1>2. /\ g.inbox # <<>> /\ g.life = "live" /\ g.busy = NoKey /\ Head(g.inbox).kind = "new_trade"
      /\ UNCHANGED <<store, hints, lost>>
    BY DEF Renew
<1>3. /\ Head(g.inbox) = g.inbox[1]
      /\ Len(g.inbox) \in Nat /\ Len(Tail(g.inbox)) \in Nat /\ Len(g.inbox) = Len(Tail(g.inbox)) + 1
      /\ \A i \in 1 .. Len(Tail(g.inbox)) : Tail(g.inbox)[i] = g.inbox[i + 1]
    BY <1>1, <1>2, Taken
<1>4. PICK h : /\ page' = [page EXCEPT ![p] = h]
               /\ h.inbox = Tail(g.inbox) /\ h.shows = g.shows /\ h.dest = g.dest
  <2>1. CASE g.intent # NoKey /\ ~g.complete
    <3> DEFINE h == [g EXCEPT !.inbox = Tail(@)]
    <3>1. page' = [page EXCEPT ![p] = h]
        BY <2>1 DEF Renew
    <3>2. h.inbox = Tail(g.inbox) /\ h.shows = g.shows /\ h.dest = g.dest
        BY <1>1 DEF Processes
    <3> HIDE DEF h
    <3> QED
        BY <3>1, <3>2
  <2>2. CASE ~(g.intent # NoKey /\ ~g.complete)
    <3> DEFINE h == [g EXCEPT !.inbox = Tail(@), !.key = Fresh(p), !.intent = NoKey,
                              !.complete = FALSE, !.error = NoKey]
    <3>1. page' = [page EXCEPT ![p] = h]
        BY <2>2 DEF Renew
    <3>2. h.inbox = Tail(g.inbox) /\ h.shows = g.shows /\ h.dest = g.dest
        BY <1>1 DEF Processes
    <3> HIDE DEF h
    <3> QED
        BY <3>1, <3>2
  <2> QED
      BY <2>1, <2>2
<1>5. g.inbox[1].kind \notin {"portfolio", "order", "found"}
    BY <1>2, <1>3
<1>6. /\ Len(g.inbox) \in Nat /\ Len(h.inbox) \in Nat /\ Len(g.inbox) = Len(h.inbox) + 1
      /\ \A i \in 1 .. Len(h.inbox) : h.inbox[i] = g.inbox[i + 1]
    BY <1>3, <1>4
<1>7. Notified(g) => Notified(h)
    BY <1>4, <1>5, <1>6, NotifiedAfter
<1> QED
    BY <1>2, <1>4, <1>7, FollowSame, DeskAssumption

\* Messages are put behind the others.
LEMMA FollowPushed ==
    ASSUME DeskInv, Followed, NEW p \in Pages, NEW new \in Seq(Events), Pushed(p, new),
           UNCHANGED <<store, hints, lost>>, page[p].life = "live"
    PROVE  Followed'
<1> DEFINE g == page[p]
           h == [g EXCEPT !.inbox = @ \o new]
<1>1. Typed /\ g \in Processes /\ g.inbox \in Seq(Events)
    BY PageFacts
<1>2. page' = [page EXCEPT ![p] = h] /\ h.inbox = g.inbox \o new /\ h.dest = g.dest
      /\ h.shows = g.shows /\ h.busy = g.busy
    BY <1>1 DEF Pushed, Processes
<1> HIDE DEF h
<1>3. /\ Len(g.inbox) \in Nat /\ Len(h.inbox) \in Nat
      /\ \A i \in 1 .. Len(g.inbox) : i \in 1 .. Len(h.inbox) /\ h.inbox[i] = g.inbox[i]
    BY <1>1, <1>2
<1>4. Notified(g) => Notified(h)
    BY <1>2, <1>3, NotifiedBefore
<1> QED
    BY <1>2, <1>4, FollowSame

LEMMA FollowClick ==
    ASSUME DeskInv, Followed, NEW p \in Pages, NEW side \in {"buy", "sell"},
           NEW n \in Nat, NEW clicks \in Nat, Click(p, side, n, clicks)
    PROVE  Followed'
<1> DEFINE e == [kind |-> "trade", side |-> side, n |-> n, key |-> view[p].key, attempt |-> view[p].attempt]
           new == [i \in 1 .. clicks |-> e]
<1>1. Typed /\ serial[p] \in Nat /\ Sound(p, page[p], view[p], serial[p], recorded)
    BY PageFacts
<1>2. view[p].life = "live" /\ Pushed(p, new) /\ UNCHANGED <<store, hints, lost>>
    BY DEF Click
<1>3. page[p].life = "live"
    BY <1>1, <1>2 DEF Sound, OwnDraws
<1>4. view[p].key \in Pages \X Nat /\ view[p].attempt \in [op : Pages \X Nat, losses : Nat]
  <2>1. view[p].key \in Own(p, serial[p]) /\ view[p].attempt \in Attempts(p, serial[p])
      BY <1>1, <1>2 DEF Sound, OwnDraws
  <2> QED
      BY <1>1, <2>1, AttemptTypes
<1>5. e \in Events
    BY <1>4 DEF Events
<1> HIDE DEF e
<1>6. new \in Seq(Events)
    BY <1>5
<1> HIDE DEF new
<1> QED
    BY <1>2, <1>3, <1>6, FollowPushed

LEMMA FollowClickNew ==
    ASSUME DeskInv, Followed, NEW p \in Pages, ClickNew(p)
    PROVE  Followed'
<1> DEFINE new == <<[kind |-> "new_trade"]>>
<1>1. view[p].complete /\ Pushed(p, new) /\ UNCHANGED <<store, hints, lost>>
    BY DEF ClickNew
<1>2. Sound(p, page[p], view[p], serial[p], recorded)
    BY PageFacts
<1>3. page[p].life = "live"
    BY <1>1, <1>2 DEF Sound, OwnDraws
<1>4. [kind |-> "new_trade"] \in Events
    BY DEF Events
<1>5. new \in Seq(Events)
    BY <1>4
<1> HIDE DEF new
<1> QED
    BY <1>1, <1>3, <1>5, FollowPushed

LEMMA FollowPatch ==
    ASSUME DeskInv, Followed, NEW p \in Pages, Patch(p)
    PROVE  Followed'
<1>1. UNCHANGED <<store, page, hints, lost>>
    BY DEF Patch
<1>2. \A q \in Pages : Current(q) => Current(q)'
    BY <1>1, CurrentKept
<1> QED
    BY <1>1, <1>2, FollowElsewhere

\* An order that one page creates is not told to others, which go on showing
\* that there is none.
LEMMA FollowCreateOrder ==
    ASSUME DeskInv, Followed, NEW p \in Pages, CreateOrder(p)
    PROVE  Followed'
<1> DEFINE h == [page[p] EXCEPT !.shows = "pending"]
<1>1. Typed /\ page[p] \in Processes
    BY PageFacts
<1>2. /\ store.order = "none" /\ store'.order = "pending"
      /\ store'.held = store.held /\ store'.found = store.found
      /\ page[p].dest = "orders" /\ page' = [page EXCEPT ![p] = h]
      /\ UNCHANGED <<hints, lost>>
    BY <1>1 DEF CreateOrder, Typed
<1>3. h.dest = "orders" /\ h.shows = "pending" /\ h.inbox = page[p].inbox /\ h.busy = page[p].busy
    BY <1>1, <1>2 DEF Processes
<1> HIDE DEF h
<1>4. page'[p] = h /\ \A q \in Pages \ {p} : page'[q] = page[q]
    BY <1>1, <1>2 DEF Typed
<1>5. Pending(p)'
    BY <1>2, <1>3, <1>4 DEF Pending, Current, Shown
<1>6. \A r \in Pages : page[r].busy = "confirmed" => page'[r].busy = "confirmed"
    BY <1>3, <1>4
<1>7. ASSUME NEW q \in Pages \ {p}, page'[q].life = "live"
      PROVE  Pending(q)'
  <2>1. Pending(q)
      BY <1>4, <1>7 DEF Followed
  <2>2. page[q].dest \in Destinations
      BY PageFacts
  <2>3. Current(q) => Current(q)'
    <3>1. CASE page[q].dest = "orders"
        BY <1>2, <1>4, <3>1 DEF Current, Shown
    <3>2. CASE page[q].dest # "orders"
        BY <1>2, <1>4, <2>2, <3>2 DEF Current, Shown, Destinations
    <3> QED
        BY <3>1, <3>2
  <2> QED
      BY <1>2, <1>4, <1>6, <2>1, <2>3, PendingKept
<1> QED
    BY <1>5, <1>7 DEF Followed

LEMMA FollowExecuteOrder ==
    ASSUME DeskInv, Followed, ExecuteOrder
    PROVE  Followed'
<1>1. /\ "order" \in hints' /\ hints \subseteq hints' /\ UNCHANGED <<page, lost>>
      /\ store'.found = store.found
    BY DEF ExecuteOrder, DeskInv, Typed
<1>2. ASSUME NEW q \in Pages, Current(q), ~\E k \in hints' : Concerns(k, page[q].dest)
      PROVE  Current(q)'
  <2>1. page[q].dest = "players"
      BY <1>1, <1>2 DEF Concerns
  <2> QED
      BY <1>1, <1>2, <2>1 DEF Current, Shown
<1> QED
    BY <1>1, <1>2, FollowElsewhere

LEMMA FollowPublish ==
    ASSUME DeskInv, Followed, Publish
    PROVE  Followed'
<1>1. /\ "found" \in hints' /\ hints \subseteq hints' /\ UNCHANGED <<page, lost>>
      /\ store'.held = store.held /\ store'.order = store.order
    BY DEF Publish, DeskInv, Typed
<1>2. ASSUME NEW q \in Pages, Current(q), ~\E k \in hints' : Concerns(k, page[q].dest)
      PROVE  Current(q)'
  <2>1. page[q].dest # "players"
      BY <1>1, <1>2 DEF Concerns
  <2>2. page[q].dest \in Destinations
      BY PageFacts
  <2> QED
      BY <1>1, <1>2, <2>1, <2>2 DEF Current, Shown, Destinations
<1> QED
    BY <1>1, <1>2, FollowElsewhere

LEMMA FollowLoseHint ==
    ASSUME DeskInv, Followed, LoseHint
    PROVE  Followed'
BY DEF LoseHint, Followed, Pending

\* Every live page is told what was committed.
LEMMA FollowBroadcast ==
    ASSUME DeskInv, Followed, NEW k \in {"order", "found"}, Broadcast(k)
    PROVE  Followed'
<1>1. /\ hints' = hints \ {k} /\ page' = Told(page, Pages, k) /\ UNCHANGED <<store, lost>>
    BY DEF Broadcast
<1>2. page \in [Pages -> Processes] /\ k \in {"portfolio", "order", "found"}
    BY DEF DeskInv, Typed
<1>3. \A q \in Pages : page'[q] = IF q \in Pages /\ Subscribed(q)
          THEN [page[q] EXCEPT !.inbox = Append(@, [kind |-> k])] ELSE page[q]
    BY <1>1, <1>2, ToldTypes
<1>4. ASSUME NEW q \in Pages
      PROVE  /\ page'[q].dest = page[q].dest /\ page'[q].shows = page[q].shows
             /\ page'[q].life = page[q].life /\ page'[q].busy = page[q].busy
             /\ Notified(page[q]) => Notified(page'[q])
             /\ page[q].life = "live" /\ Concerns(k, page[q].dest) => Notified(page'[q])
  <2>1. page[q] \in Processes
      BY <1>2
  <2>2. CASE Subscribed(q)
    <3>1. page'[q] = [page[q] EXCEPT !.inbox = Append(@, [kind |-> k])]
        BY <1>3, <2>2
    <3> QED
        BY <2>1, <3>1, NotifiedTold
  <2>3. CASE ~Subscribed(q)
      BY <1>3, <2>3 DEF Subscribed
  <2> QED
      BY <2>2, <2>3
<1>5. ASSUME NEW q \in Pages, page'[q].life = "live"
      PROVE  Pending(q)'
  <2>1. Pending(q)
      BY <1>4, <1>5 DEF Followed
  <2>2. Current(q) => Current(q)'
      BY <1>1, <1>4, CurrentKept
  <2>3. CASE Current(q) \/ lost \/ Notified(page[q])
      BY <1>1, <1>4, <2>2, <2>3 DEF Pending
  <2>4. CASE \E j \in hints : Concerns(j, page[q].dest)
    <3>1. PICK j \in hints : Concerns(j, page[q].dest)
        BY <2>4
    <3>2. CASE j = k
      <4>1. Notified(page'[q])
          BY <1>4, <1>5, <3>1, <3>2
      <4> QED
          BY <4>1 DEF Pending
    <3>3. CASE j # k
      <4>1. j \in hints' /\ Concerns(j, page'[q].dest)
          BY <1>1, <1>4, <3>1, <3>3
      <4> QED
          BY <4>1 DEF Pending, Concerns
    <3> QED
        BY <3>2, <3>3
  <2>5. CASE \E r \in Pages : page[r].busy = "confirmed" /\ (r = q \/ Concerns("portfolio", page[q].dest))
    <3>1. PICK r \in Pages : page[r].busy = "confirmed" /\ (r = q \/ Concerns("portfolio", page[q].dest))
        BY <2>5
    <3>2. page'[r].busy = "confirmed" /\ (r = q \/ Concerns("portfolio", page'[q].dest))
        BY <1>4, <3>1
    <3> QED
        BY <3>2 DEF Pending, Concerns
  <2> QED
      BY <2>1, <2>3, <2>4, <2>5 DEF Pending
<1> QED
    BY <1>5 DEF Followed

LEMMA FollowOpenDesk ==
    ASSUME DeskInv, OpenDesk
    PROVE  Followed'
<1>1. PICK dests \in Layouts :
          page' = [p \in Pages |-> [Closed EXCEPT !.life = "rendered",
                       !.dest = dests[p], !.shows = Shown(dests[p])]]
    BY DEF OpenDesk
<1>2. \A p \in Pages : page'[p].life = "rendered"
    BY <1>1 DEF Closed
<1> QED
    BY <1>2 DEF Followed

\* A recorded trade concerns the card and the portfolio; until it is answered
\* the page that handles it is about to reload and to tell the others.
LEMMA FollowBegin ==
    ASSUME DeskInv, Followed, NEW p \in Pages, Begin(p)
    PROVE  Followed'
<1> DEFINE g == page[p]
           e == Head(g.inbox)
           Refused(x) == [g EXCEPT !.inbox = Tail(@), !.error = x]
           Answer(x) == [g EXCEPT !.inbox = Tail(@), !.intent = <<e.side, e.n>>, !.busy = x]
<1>1. Typed /\ g \in Processes /\ g.inbox \in Seq(Events)
    BY PageFacts
<1>2. /\ g.inbox # <<>> /\ g.life = "live" /\ g.busy = NoKey /\ e.kind = "trade"
      /\ hints' = hints
    BY DEF Begin
<1>3. /\ e = g.inbox[1]
      /\ Len(g.inbox) \in Nat /\ Len(Tail(g.inbox)) \in Nat /\ Len(g.inbox) = Len(Tail(g.inbox)) + 1
      /\ \A i \in 1 .. Len(Tail(g.inbox)) : Tail(g.inbox)[i] = g.inbox[i + 1]
    BY <1>1, <1>2, Taken
<1>4. \A x : /\ Refused(x).inbox = Tail(g.inbox) /\ Refused(x).dest = g.dest
             /\ Refused(x).shows = g.shows
    BY <1>1 DEF Processes
<1>5. \A x : /\ Answer(x).inbox = Tail(g.inbox) /\ Answer(x).dest = g.dest
             /\ Answer(x).shows = g.shows /\ Answer(x).busy = x
    BY <1>1 DEF Processes
<1>6. \/ UNCHANGED <<store, lost>> /\ page' = [page EXCEPT ![p] = Refused(Refusal(p, e))]
      \/ /\ UNCHANGED <<store, lost>>
         /\ \E x \in {"confirmed", "rejected", "unconfirmed"} : page' = [page EXCEPT ![p] = Answer(x)]
      \/ lost' = TRUE
      \/ /\ store' = [store EXCEPT !.held = Held(e)] /\ lost' = lost
         /\ page' = [page EXCEPT ![p] = Answer("confirmed")]
    BY DEF Begin
<1> HIDE DEF Refused, Answer
<1>7. ASSUME NEW h, page' = [page EXCEPT ![p] = h], UNCHANGED <<store, lost>>,
             h.inbox = Tail(g.inbox), h.dest = g.dest, h.shows = g.shows
      PROVE  Followed'
  <2>1. g.inbox[1].kind \notin {"portfolio", "order", "found"}
      BY <1>2, <1>3
  <2>2. /\ Len(g.inbox) \in Nat /\ Len(h.inbox) \in Nat /\ Len(g.inbox) = Len(h.inbox) + 1
        /\ \A i \in 1 .. Len(h.inbox) : h.inbox[i] = g.inbox[i + 1]
      BY <1>3, <1>7
  <2>3. Notified(g) => Notified(h)
      BY <1>7, <2>1, <2>2, NotifiedAfter
  <2> QED
      BY <1>2, <1>7, <2>3, FollowSame, DeskAssumption
<1>8. CASE lost' = TRUE
    BY <1>8 DEF Followed, Pending
<1>9. CASE /\ store' = [store EXCEPT !.held = Held(e)] /\ lost' = lost
           /\ page' = [page EXCEPT ![p] = Answer("confirmed")]
  <2>1. /\ page'[p] = Answer("confirmed") /\ \A q \in Pages \ {p} : page'[q] = page[q]
        /\ store'.order = store.order /\ store'.found = store.found
      BY <1>1, <1>9 DEF Typed
  <2>2. page'[p].busy = "confirmed"
      BY <1>5, <2>1
  <2>3. ASSUME NEW q \in Pages \ {p}, page'[q].life = "live"
        PROVE  Pending(q)'
    <3>1. page[q].dest \in Destinations /\ Pending(q)
        BY <2>1, <2>3, PageFacts DEF Followed
    <3>2. CASE page[q].dest \in {"card", "portfolio"}
      <4>1. Concerns("portfolio", page'[q].dest)
          BY <2>1, <3>2 DEF Concerns
      <4> QED
          BY <2>2, <4>1 DEF Pending, Concerns
    <3>3. CASE page[q].dest \notin {"card", "portfolio"}
      <4>1. Current(q) => Current(q)'
          BY <2>1, <3>1, <3>3 DEF Current, Shown, Destinations
      <4>2. \A r \in Pages : page[r].busy = "confirmed" => page'[r].busy = "confirmed"
          BY <2>1, <2>2
      <4> QED
          BY <1>2, <1>9, <2>1, <3>1, <4>1, <4>2, PendingKept
    <3> QED
        BY <3>2, <3>3
  <2>4. Pending(p)'
      BY <2>2 DEF Pending
  <2> QED
      BY <2>3, <2>4 DEF Followed
<1> QED
    BY <1>4, <1>5, <1>6, <1>7, <1>8, <1>9

LEMMA FollowFinish ==
    ASSUME DeskInv, Followed, NEW p \in Pages, Finish(p)
    PROVE  Followed'
<1> DEFINE g == page[p]
<1>1. Typed /\ g \in Processes /\ Sound(p, g, view[p], serial[p], recorded)
    BY PageFacts
<1>2. g.busy # NoKey /\ UNCHANGED <<store, hints, lost>>
    BY DEF Finish
<1>3. g.life = "live"
    BY <1>1, <1>2 DEF Sound, OwnDraws
<1>4. CASE g.busy = "confirmed"
  <2> DEFINE told == Told(page, Pages \ {p}, "portfolio")
             h == [told[p] EXCEPT !.busy = NoKey, !.complete = TRUE, !.error = NoKey,
                                  !.shows = Shown(g.dest)]
  <2>1. page' = [told EXCEPT ![p] = h]
      BY <1>4 DEF Finish
  <2>2. /\ told \in [Pages -> Processes]
        /\ \A q \in Pages : told[q] = IF q \in Pages \ {p} /\ Subscribed(q)
              THEN [page[q] EXCEPT !.inbox = Append(@, [kind |-> "portfolio"])] ELSE page[q]
    <3>1. page \in [Pages -> Processes]
        BY <1>1 DEF Typed
    <3>2. told \in [Pages -> Processes]
        BY <3>1, ToldTypes
    <3>3. \A q \in Pages : told[q] = IF q \in Pages \ {p} /\ Subscribed(q)
              THEN [page[q] EXCEPT !.inbox = Append(@, [kind |-> "portfolio"])] ELSE page[q]
        BY <3>1, ToldTypes
    <3> QED
        BY <3>2, <3>3
  <2> HIDE DEF told
  <2>3. h.shows = Shown(g.dest) /\ h.dest = g.dest
      BY <1>1, <2>2 DEF Processes
  <2> HIDE DEF h
  <2>4. page'[p] = h /\ \A q \in Pages \ {p} : page'[q] =
            IF Subscribed(q) THEN [page[q] EXCEPT !.inbox = Append(@, [kind |-> "portfolio"])] ELSE page[q]
      BY <2>1, <2>2
  <2>5. Current(p)'
      BY <1>2, <2>3, <2>4 DEF Current, Shown
  <2>6. ASSUME NEW q \in Pages \ {p}
        PROVE  /\ page'[q].dest = page[q].dest /\ page'[q].shows = page[q].shows
               /\ page'[q].life = page[q].life /\ page'[q].busy = page[q].busy
               /\ Notified(page[q]) => Notified(page'[q])
               /\ page[q].life = "live" /\ Concerns("portfolio", page[q].dest) => Notified(page'[q])
    <3>1. page[q] \in Processes
        BY PageFacts
    <3>2. CASE Subscribed(q)
      <4>1. page'[q] = [page[q] EXCEPT !.inbox = Append(@, [kind |-> "portfolio"])]
          BY <2>4, <3>2
      <4> QED
          BY <3>1, <4>1, NotifiedTold
    <3>3. CASE ~Subscribed(q)
        BY <2>4, <3>3 DEF Subscribed
    <3> QED
        BY <3>2, <3>3
  <2>7. ASSUME NEW q \in Pages \ {p}, page'[q].life = "live"
        PROVE  Pending(q)'
    <3>1. Pending(q)
        BY <2>6, <2>7 DEF Followed
    <3>2. Current(q) => Current(q)'
        BY <1>2, <2>6, CurrentKept
    <3>3. CASE Current(q) \/ lost \/ Notified(page[q])
        BY <1>2, <2>6, <3>2, <3>3 DEF Pending
    <3>4. CASE \E j \in hints : Concerns(j, page[q].dest)
        BY <1>2, <2>6, <3>4 DEF Pending, Concerns
    <3>5. CASE \E r \in Pages : page[r].busy = "confirmed" /\ (r = q \/ Concerns("portfolio", page[q].dest))
      <4>1. PICK r \in Pages : page[r].busy = "confirmed" /\ (r = q \/ Concerns("portfolio", page[q].dest))
          BY <3>5
      <4>2. CASE Concerns("portfolio", page[q].dest)
        <5>1. Notified(page'[q])
            BY <2>6, <2>7, <4>2
        <5> QED
            BY <5>1 DEF Pending
      <4>3. CASE ~Concerns("portfolio", page[q].dest)
        <5>1. r = q /\ page'[q].busy = "confirmed"
            BY <2>6, <4>1, <4>3
        <5> QED
            BY <5>1 DEF Pending
      <4> QED
          BY <4>2, <4>3
    <3> QED
        BY <3>1, <3>3, <3>4, <3>5 DEF Pending
  <2>8. Pending(p)'
      BY <2>5 DEF Pending
  <2> QED
      BY <2>7, <2>8 DEF Followed
<1>5. CASE g.busy # "confirmed"
  <2>1. PICK h : /\ page' = [page EXCEPT ![p] = h] /\ h.inbox = g.inbox
                 /\ h.dest = g.dest /\ h.shows = g.shows
    <3> DEFINE h == [g EXCEPT !.busy = NoKey, !.error = g.busy,
                          !.intent = IF Definitive(g.busy) THEN NoKey ELSE @,
                          !.key = IF Definitive(g.busy) THEN Fresh(p) ELSE @]
    <3>1. page' = [page EXCEPT ![p] = h]
        BY <1>5 DEF Finish
    <3>2. h.inbox = g.inbox /\ h.dest = g.dest /\ h.shows = g.shows
        BY <1>1 DEF Processes
    <3> HIDE DEF h
    <3> QED
        BY <3>1, <3>2
  <2>2. Notified(g) => Notified(h)
      BY <2>1 DEF Notified
  <2> QED
      BY <1>2, <1>3, <1>5, <2>1, <2>2, FollowSame
<1> QED
    BY <1>4, <1>5

LEMMA FollowDesk == DeskInv /\ Followed /\ [DeskNext]_deskVars => Followed'
<1> SUFFICES ASSUME DeskInv, Followed, [DeskNext]_deskVars
             PROVE  Followed'
    OBVIOUS
<1>1. CASE OpenDesk
    BY <1>1, FollowOpenDesk
<1>2. CASE DeskPerson
  <2>1. \/ \E p \in Pages : Leave(p) \/ Click(p, "buy", 1, 1) \/ Click(p, "sell", 1, 1)
                              \/ ClickNew(p) \/ CreateOrder(p)
                              \/ Open(p, "card") \/ Open(p, "portfolio")
        \/ ExecuteOrder \/ Publish \/ LoseHint
      BY <1>2 DEF DeskPerson
  <2>2. ASSUME NEW p \in Pages, Leave(p) \/ ClickNew(p) \/ CreateOrder(p)
        PROVE  Followed'
      BY <2>2, FollowLeave, FollowClickNew, FollowCreateOrder
  <2>3. ASSUME NEW p \in Pages, NEW side \in {"buy", "sell"}, Click(p, side, 1, 1)
        PROVE  Followed'
      BY <2>3, FollowClick
  <2>4. ASSUME NEW p \in Pages, NEW dest \in {"card", "portfolio"}, Open(p, dest)
        PROVE  Followed'
    <3>1. dest \in Destinations
        BY DEF Destinations
    <3> QED
        BY <2>4, <3>1, FollowOpen
  <2>5. ASSUME ExecuteOrder \/ Publish \/ LoseHint
        PROVE  Followed'
      BY <2>5, FollowExecuteOrder, FollowPublish, FollowLoseHint
  <2> QED
      BY <2>1, <2>2, <2>3, <2>4, <2>5
<1>3. ASSUME NEW p \in Pages, PageWork(p)
      PROVE  Followed'
  <2>1. CASE Join(p) \/ Load(p) \/ Patch(p)
      BY <2>1, FollowJoin, FollowLoad, FollowPatch
  <2>2. CASE Begin(p)
      BY <2>2, FollowBegin
  <2>3. CASE Finish(p)
      BY <2>3, FollowFinish
  <2>4. CASE Renew(p) \/ Hear(p)
      BY <2>4, FollowRenew, FollowHear
  <2> QED
      BY <1>3, <2>1, <2>2, <2>3, <2>4 DEF PageWork
<1>4. ASSUME NEW k \in {"order", "found"}, Broadcast(k)
      PROVE  Followed'
    BY <1>4, FollowBroadcast
<1>5. CASE UNCHANGED deskVars
    BY <1>5 DEF deskVars, usage, Followed, Pending, Current, Shown
<1> QED
    BY <1>1, <1>2, <1>3, <1>4, <1>5 DEF DeskNext, DeskWork

LEMMA FollowStarts == DeskInit => Followed
BY DEF DeskInit, Followed, Closed

LEMMA QuietFacts == Followed => QuietPagesAreCurrent
<1> SUFFICES ASSUME Followed, hints = {}, ~lost, \A p \in Pages : page[p].busy = NoKey,
                    NEW p \in Pages, page[p].life = "live", page[p].inbox = <<>>
             PROVE  Current(p)
    BY DEF QuietPagesAreCurrent
<1>1. Pending(p)
    BY DEF Followed
<1>2. ~Notified(page[p])
    BY DEF Notified
<1>3. ~\E q \in Pages : page[q].busy = "confirmed"
    BY DeskAssumption
<1> QED
    BY <1>1, <1>2, <1>3 DEF Pending

\* A live page that has heard everything shows what is committed
\* (workspace_live.ex: mount, handle_params, handle_info, trade_result).
THEOREM QuietPages == DeskSpec => []QuietPagesAreCurrent
<1> QED
    BY FollowStarts, QuietFacts, InitDesk, StepDesk, FollowDesk, PTL DEF DeskSpec

=============================================================================
