----------------------------- MODULE CartEdits ------------------------------
(***************************************************************************)
(* What happens to the lines of one session's cart: the till replaces the  *)
(* cart, administrators add, remove and reweigh lines (ws.py), and the     *)
(* session is paid or cancelled.  Every writer reads the row, computes,    *)
(* and stores in a later statement.  Who is told afterwards, and which     *)
(* tills are disconnected, is in LiveCheckout.                             *)
(*                                                                         *)
(* Quantities are naturals, in ten-thousandths of a piece or a kilogram;   *)
(* totals are in ten-thousandths of a cent.  A line's unit and price are   *)
(* its product's, its label and image are left out.                        *)
(***************************************************************************)
EXTENDS Integers, SequencesExt

CONSTANTS Products, Weighed,  \* the products sold by weight, the others by piece
          Price,              \* in cents
          Carts,              \* what tills send
          Typed,              \* the quantities administrators type
          Editors, MaxLines   \* bounds the cart administrators add to

Gram == 10
Piece == 10000

Line == [product : Products, quantity : Nat, total : Nat]

\* CheckoutSessionCartItem.model_validate accepts every line.
Readable(lines) == \A i \in 1..Len(lines) : lines[i].quantity > 0

ASSUME CartsAssumption ==
  /\ Weighed \subseteq Products /\ Price \in [Products -> Nat]
  /\ Typed \subseteq Nat \ {0}
  /\ \A lines \in Carts : lines \in Seq(Line) /\ Readable(lines)

VARIABLES cart, closed,  \* the row of the session
          edit           \* what each editor is doing

vars == <<cart, closed, edit>>
-----------------------------------------------------------------------------
Idle == [at |-> "idle"]
Edit == {Idle} \cup [at : {"closing"}]
          \cup [at : {"storing"}, seen : Seq(Line), new : Seq(Line)]

\* The row and the editors always have the shape they are declared with.
TypeOK ==
  /\ cart \in Seq(Line) /\ closed \in BOOLEAN
  /\ edit \in [Editors -> Edit]

Init ==
  /\ cart = <<>> /\ closed = FALSE
  /\ edit = [e \in Editors |-> Idle]

At(e, point) == edit[e].at = point
Become(e, r) == edit' = [edit EXCEPT ![e] = r]

\* round(): the nearest multiple of step; a tie falls as the binary fraction lies.
Nearest(x, step) ==
  LET low == x - (x % step)
  IN  {m \in {low, low + step} : 2 * (x - m) <= step /\ 2 * (m - x) <= step}

Total(p, quantity) == Nearest(quantity * Price[p], Piece)

\* Weights are rounded to the gram, pieces cut down to whole ones.
Taken(p, typed) ==
  IF p \in Weighed THEN Nearest(typed, Gram) ELSE {typed - (typed % Piece)}

LinesOf(p, typed) ==
  UNION {{[product |-> p, quantity |-> quantity, total |-> total] :
            total \in Total(p, quantity)} : quantity \in Taken(p, typed)}
-----------------------------------------------------------------------------
Plan(e, new) ==
  /\ At(e, "idle") /\ ~closed
  /\ Become(e, [at |-> "storing", seen |-> cart, new |-> new])
  /\ UNCHANGED <<cart, closed>>

\* An administrator's command first validates the lines it found.
Correct(e, new) == Readable(cart) /\ Plan(e, new)

UpdateCart(e, lines) == Plan(e, lines)

RemoveItem(e, i) == Correct(e, RemoveAt(cart, i))

\* mutant: the quantity typed is taken off the one there is
UpdateByDifference(e, i, typed) ==
  Correct(e, ReplaceAt(cart, i, [cart[i] EXCEPT !.quantity = @ - typed]))

\* mutant: nothing is tested after rounding
UpdateUntested(e, i, typed) ==
  \E line \in LinesOf(cart[i].product, typed) : Correct(e, ReplaceAt(cart, i, line))

\* mutant: the line keeps the total it had
UpdateKeepingTotal(e, i, typed) ==
  \E line \in LinesOf(cart[i].product, typed) :
    /\ line.product \in Weighed \/ line.quantity > 0
    /\ Correct(e, ReplaceAt(cart, i, [line EXCEPT !.total = cart[i].total]))

\* A line that rounds to nothing is refused when it is built.
AddItem(e, p, typed) ==
  \E line \in LinesOf(p, typed) :
    /\ line.quantity > 0 /\ Len(cart) < MaxLines
    /\ Correct(e, Append(cart, line))

\* A piece count is tested after cutting, a weight before rounding only.
UpdateItemQuantity(e, i, typed) ==
  \E line \in LinesOf(cart[i].product, typed) :
    /\ line.product \in Weighed \/ line.quantity > 0
    /\ Correct(e, ReplaceAt(cart, i, line))

ReadForClose(e) ==
  /\ At(e, "idle") /\ ~closed
  /\ Become(e, [at |-> "closing"])
  /\ UNCHANGED <<cart, closed>>

\* The UPDATE carries the cart only if it differs from the one that was read.
StoreCart(e) ==
  /\ At(e, "storing")
  /\ cart' = IF edit[e].new = edit[e].seen THEN cart ELSE edit[e].new
  /\ Become(e, Idle)
  /\ UNCHANGED closed

CloseSession(e) ==
  /\ At(e, "closing")
  /\ closed' = TRUE
  /\ Become(e, Idle)
  /\ UNCHANGED cart
-----------------------------------------------------------------------------
Command(e) ==
  \/ \E lines \in Carts : UpdateCart(e, lines)
  \/ \E i \in 1..Len(cart) : RemoveItem(e, i)
  \/ \E p \in Products, typed \in Typed : AddItem(e, p, typed)
  \/ \E i \in 1..Len(cart), typed \in Typed : UpdateItemQuantity(e, i, typed)
  \/ ReadForClose(e)

Proceed(e) == StoreCart(e) \/ CloseSession(e)

Next == \E e \in Editors : Command(e) \/ Proceed(e)

Spec == Init /\ [][Next]_vars
-----------------------------------------------------------------------------
\* models.py:510, quantity: float = Field(gt=0), of what is stored: whoever
\* wrote last, the cart can be read again by the routes and the sockets.
CartsAreReadable == Readable(cart)

\* However lines were added and reweighed, and whichever writer's copy won,
\* a line costs its quantity times the price of its product, to the cent.
TotalsMatch ==
  \A i \in 1..Len(cart) : cart[i].total \in Total(cart[i].product, cart[i].quantity)
=============================================================================
