----------------------------- MODULE OrderReads -----------------------------
(***************************************************************************)
(* The owner who looks at conditional orders while they are being decided. *)
(*                                                                         *)
(* A read takes no lock.  It reads the committed row and the clock in two  *)
(* statements and answers the row with a mark, expiry_reached, computed    *)
(* for every status: one order is read row first, a list clock first.  An  *)
(* owner reads again after an answer, not beside it.  What a cancellation  *)
(* answers by itself is left out: it carries the clock it decided by.      *)
(***************************************************************************)
EXTENDS ConditionalOrders

VARIABLES
    reading,  \* per order, what the read in progress has seen so far
    shown     \* per order, the latest answer its owner got

readVars == <<reading, shown>>

NoReading == [seen |-> "nothing", row |-> NoOrder, now |-> 0]

Unseen == [row |-> NoOrder, reached |-> FALSE]

ReadInit ==
    /\ reading = [o \in Orders |-> NoReading]
    /\ shown = [o \in Orders |-> Unseen]

Visible(o) == order[o].status \notin {"absent", "draft"}

\* get: the row ...
ReadRow(o) ==
    /\ reading[o] = NoReading
    /\ Visible(o)
    /\ reading' = [reading EXCEPT ![o] = [seen |-> "row", row |-> order[o], now |-> 0]]
    /\ UNCHANGED <<vars, shown>>

\* list: the clock, one sample for the response ...
ReadClock(o) ==
    /\ reading[o] = NoReading
    /\ reading' = [reading EXCEPT ![o] = [seen |-> "clock", row |-> NoOrder, now |-> clock]]
    /\ UNCHANGED <<vars, shown>>

\* Mutant: the mark is computed for pending orders only.
AtWhilePending(row, now) ==
    [row |-> row, reached |-> row.status = "pending" /\ now >= row.expires]

\* The row as it is shown at a time.
At(row, now) == [row |-> row, reached |-> now >= row.expires]

Respond(o, answer) ==
    /\ shown' = [shown EXCEPT ![o] = answer]
    /\ reading' = [reading EXCEPT ![o] = NoReading]
    /\ UNCHANGED vars

\* ... get: then the clock.
Get(o) ==
    /\ reading[o].seen = "row"
    /\ Respond(o, At(reading[o].row, clock))

\* ... list: then the rows; an order that is not committed is not among them.
List(o) ==
    /\ reading[o].seen = "clock"
    /\ Respond(o, IF Visible(o) THEN At(order[o], reading[o].now) ELSE shown[o])

ReadNext ==
    \/ Next /\ UNCHANGED readVars
    \/ \E o \in Orders : ReadRow(o) \/ ReadClock(o) \/ Get(o) \/ List(o)

ReadSpec == Init /\ ReadInit /\ [][ReadNext]_<<vars, readVars>>

-----------------------------------------------------------------------------
(* Properties *)

\* What an owner has read stands: the row of a settled order is answered the same
\* ever after, an expiry that was reached is never again ahead, and an order shown
\* as pending past its expiry is later shown as cancelled, executed or rejected
\* only with a completion before the expiry - by a transaction that had read the
\* clock in time and committed late.
ShownIsFinal ==
    [][\A o \in Orders :
        LET old == shown[o]
            new == shown'[o]
        IN  /\ old.row.status \in Terminal => new.row = old.row
            /\ old.reached => new.reached
            /\ (old.reached /\ new.row.status \in Terminal \ {"expired"})
                 => new.row.completed < old.row.expires]_<<vars, readVars>>

-----------------------------------------------------------------------------
(* The inductive invariant behind the theorem about reads *)

\* A row once read is the row of its order, and the very row if it was settled.
ReadOf(o, row) ==
    row # NoOrder =>
        /\ Visible(o)
        /\ row.status \in Terminal \cup {"pending"}
        /\ row.expires = order[o].expires
        /\ row.status \in Terminal => row = order[o]

\* A read in progress began after the latest answer: it saw neither an earlier
\* row nor an earlier clock.
ReadBehind(o) ==
    /\ reading[o].now <= clock
    /\ shown[o].reached =>
         /\ shown[o].row # NoOrder
         /\ clock >= shown[o].row.expires
         /\ reading[o].seen = "clock" => reading[o].now >= shown[o].row.expires
    /\ (reading[o].seen = "row" /\ shown[o].row.status \in Terminal)
         => reading[o].row = shown[o].row

ReadsInv ==
    /\ reading \in [Orders -> [seen: {"nothing", "row", "clock"},
                               row: Order \cup {NoOrder}, now: Nat]]
    /\ shown \in [Orders -> [row: Order \cup {NoOrder}, reached: BOOLEAN]]
    /\ \A o \in Orders :
        /\ reading[o].seen = "row" => reading[o].row # NoOrder
        /\ ReadOf(o, reading[o].row) /\ ReadOf(o, shown[o].row)
        /\ ReadBehind(o)

=============================================================================
