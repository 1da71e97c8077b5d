-------------------------- MODULE CartEditsProofs ---------------------------
(* Which lines can get into a cart: whatever set of lines the tills' carts *)
(* and the administrators' commands draw from, the cart draws from.        *)
EXTENDS CartEdits, TLAPS

\* The carts stored and about to be stored are made of lines of S.
DrawnFrom(S) ==
  /\ cart \in Seq(S)
  /\ \A e \in Editors : At(e, "storing") => edit[e].new \in Seq(S)

\* S holds all that tills send and administrators' commands let through.
Closed(S) ==
  /\ Carts \subseteq Seq(S)
  /\ \A p \in Products, typed \in Typed : \A line \in LinesOf(p, typed) :
       p \in Weighed \/ line.quantity > 0 => line \in S

\* Removing a line leaves the others.
LEMMA Removing ==
  ASSUME NEW S, NEW s \in Seq(S), NEW i \in 1..Len(s)
  PROVE  RemoveAt(s, i) \in Seq(S)
  BY DEF RemoveAt

\* Replacing one leaves the others.
LEMMA Replacing ==
  ASSUME NEW S, NEW s \in Seq(S), NEW i \in 1..Len(s), NEW x \in S
  PROVE  ReplaceAt(s, i, x) \in Seq(S)
  BY DEF ReplaceAt

\* Rounding yields naturals, and nothing above half a step vanishes.
LEMMA Rounding ==
  ASSUME NEW x \in Nat, NEW step \in Nat \ {0}, NEW m \in Nearest(x, step)
  PROVE  m \in Nat /\ (2 * x > step => m > 0)
  BY DEF Nearest

\* A command's line is a line, of the product it names.
LEMMA LinesAreLines ==
  ASSUME NEW p \in Products, NEW typed \in Typed, NEW line \in LinesOf(p, typed)
  PROVE  line \in Line /\ line.product = p
         /\ line.quantity \in Taken(p, typed) /\ line.total \in Total(p, line.quantity)
<1>1. typed \in Nat /\ Price[p] \in Nat /\ Gram \in Nat \ {0} /\ Piece \in Nat \ {0}
  BY CartsAssumption DEF Gram, Piece
<1>2. PICK quantity \in Taken(p, typed) : \E total \in Total(p, quantity) :
        line = [product |-> p, quantity |-> quantity, total |-> total]
  BY DEF LinesOf
<1>3. PICK total \in Total(p, quantity) :
        line = [product |-> p, quantity |-> quantity, total |-> total]
  BY <1>2
<1>4. quantity \in Nat
  BY <1>1, Rounding DEF Taken, Piece
<1>5. total \in Nat
  <2>1. quantity * Price[p] \in Nat
    BY <1>1, <1>4
  <2> QED
    BY <1>1, <2>1, Rounding DEF Total
<1> QED
  BY <1>3, <1>4, <1>5 DEF Line

\* The empty cart is drawn from any set.
LEMMA DrawingInit ==
  ASSUME NEW CONSTANT S, Init
  PROVE  DrawnFrom(S)
<1>1. cart \in Seq(S)
  BY DEF Init
<1>2. \A e \in Editors : ~At(e, "storing")
  BY DEF Init, At, Idle
<1> QED
  BY <1>1, <1>2 DEF DrawnFrom

\* Every step keeps the cart within a set that is closed under the commands.
LEMMA DrawingNext ==
  ASSUME NEW CONSTANT S, Closed(S), DrawnFrom(S), edit \in [Editors -> Edit], cart \in Seq(Line),
         [Next]_vars
  PROVE  DrawnFrom(S)'
<1> USE DEF DrawnFrom
<1>1. ASSUME NEW e \in Editors, NEW new \in Seq(S), Plan(e, new)
      PROVE  DrawnFrom(S)'
  BY <1>1 DEF Plan, At, Become
<1>2. ASSUME NEW e \in Editors, NEW lines \in Carts, UpdateCart(e, lines)
      PROVE  DrawnFrom(S)'
  BY <1>1, <1>2 DEF UpdateCart, Closed
<1>3. ASSUME NEW e \in Editors, NEW i \in 1..Len(cart), RemoveItem(e, i)
      PROVE  DrawnFrom(S)'
  BY <1>1, <1>3, Removing DEF RemoveItem, Correct
<1>4. ASSUME NEW e \in Editors, NEW p \in Products, NEW typed \in Typed, AddItem(e, p, typed)
      PROVE  DrawnFrom(S)'
  <2>1. PICK line \in LinesOf(p, typed) :
          line.quantity > 0 /\ Plan(e, Append(cart, line))
    BY <1>4 DEF AddItem, Correct
  <2>2. line \in S
    BY <2>1 DEF Closed
  <2>3. Append(cart, line) \in Seq(S)
    BY <2>2
  <2> QED
    BY <1>1, <2>1, <2>3
<1>5. ASSUME NEW e \in Editors, NEW i \in 1..Len(cart), NEW typed \in Typed,
             UpdateItemQuantity(e, i, typed)
      PROVE  DrawnFrom(S)'
  <2>1. PICK line \in LinesOf(cart[i].product, typed) :
          /\ line.product \in Weighed \/ line.quantity > 0
          /\ Plan(e, ReplaceAt(cart, i, line))
    BY <1>5 DEF UpdateItemQuantity, Correct
  <2>2. cart[i].product \in Products
    <3>1. cart[i] \in Line
      OBVIOUS
    <3> QED
      BY <3>1 DEF Line
  <2>3. line \in S
    BY <2>1, <2>2, LinesAreLines DEF Closed
  <2> QED
    BY <1>1, <2>1, <2>3, Replacing
<1>6. ASSUME NEW e \in Editors, ReadForClose(e) \/ CloseSession(e)
      PROVE  DrawnFrom(S)'
  BY <1>6 DEF ReadForClose, CloseSession, At, Become, Idle
<1>7. ASSUME NEW e \in Editors, StoreCart(e)
      PROVE  DrawnFrom(S)'
  BY <1>7 DEF StoreCart, At, Become, Idle
<1>8. CASE UNCHANGED vars
  BY <1>8 DEF vars, At
<1> QED
  BY <1>2, <1>3, <1>4, <1>5, <1>6, <1>7, <1>8 DEF Next, Command, Proceed

\* The set of all lines is closed under the commands.
LEMMA AllLines == Closed(Line)
<1>1. Carts \subseteq Seq(Line)
  BY CartsAssumption
<1> QED
  BY <1>1, LinesAreLines DEF Closed

\* The row and the editors have their types in every reachable state.
THEOREM TypeCorrect == Spec => []TypeOK
<1> DEFINE Typing == TypeOK /\ DrawnFrom(Line)
<1>1. Init => Typing
  <2> SUFFICES ASSUME Init PROVE TypeOK
    BY DrawingInit
  <2>1. cart \in Seq(Line)
    BY DrawingInit DEF DrawnFrom
  <2>2. edit \in [Editors -> Edit]
    BY DEF Init, Edit
  <2> QED
    BY <2>1, <2>2 DEF Init, TypeOK
<1>2. Typing /\ [Next]_vars => Typing'
  <2> SUFFICES ASSUME Typing, [Next]_vars PROVE Typing'
    OBVIOUS
  <2>1. DrawnFrom(Line)'
    BY AllLines, DrawingNext DEF TypeOK
  <2>2. closed' \in BOOLEAN
    BY DEF TypeOK, Next, Command, Proceed, UpdateCart, RemoveItem, AddItem,
       UpdateItemQuantity, Correct, Plan, ReadForClose, StoreCart, CloseSession,
       vars
  <2>3. edit' \in [Editors -> Edit]
    <3>1. ASSUME NEW e \in Editors, NEW r \in Edit, Become(e, r)
          PROVE  edit' \in [Editors -> Edit]
      BY <3>1 DEF TypeOK, Become
    <3>2. ASSUME NEW e \in Editors, NEW new, Plan(e, new)
          PROVE  edit' \in [Editors -> Edit]
      <4>1. edit'[e] = [at |-> "storing", seen |-> cart, new |-> new]
        BY <3>2 DEF Plan, Become, TypeOK
      <4>2. new \in Seq(Line)
        BY <2>1, <4>1 DEF DrawnFrom, At
      <4>3. [at |-> "storing", seen |-> cart, new |-> new] \in Edit
        BY <4>2 DEF Edit, TypeOK
      <4> QED
        BY <3>1, <3>2, <4>3 DEF Plan
    <3>3. ASSUME NEW e \in Editors, Command(e)
          PROVE  edit' \in [Editors -> Edit]
      <4>1. CASE ReadForClose(e)
        BY <3>1, <4>1 DEF ReadForClose, Edit
      <4>2. CASE ~ReadForClose(e)
        BY <3>2, <3>3, <4>2 DEF Command, UpdateCart, RemoveItem, AddItem,
           UpdateItemQuantity, Correct
      <4> QED
        BY <4>1, <4>2
    <3>4. ASSUME NEW e \in Editors, Proceed(e)
          PROVE  edit' \in [Editors -> Edit]
      BY <3>1, <3>4 DEF Proceed, StoreCart, CloseSession, Edit
    <3> QED
      BY <3>3, <3>4 DEF Next, vars, TypeOK
  <2> QED
    BY <2>1, <2>2, <2>3 DEF TypeOK, DrawnFrom
<1> QED
  BY <1>1, <1>2, PTL DEF Spec, Typing

\* No command names a weight of less than half a gram.
NothingVanishes == \A typed \in Typed : 2 * typed > Gram

\* As long as no administrator types a weight that rounds to nothing, every
\* cart that is ever stored validates: the test after cutting pieces down and
\* the validation of new lines are all that is needed besides.
THEOREM ReadableCarts == NothingVanishes => (Spec => []CartsAreReadable)
<1> SUFFICES ASSUME NothingVanishes PROVE Spec => []CartsAreReadable
  OBVIOUS
<1> DEFINE S == {line \in Line : line.quantity > 0}
<1>1. Closed(S)
  <2>1. ASSUME NEW lines \in Carts
        PROVE  lines \in Seq(S)
    <3>1. lines \in Seq(Line) /\ \A i \in 1..Len(lines) : lines[i].quantity > 0
      BY CartsAssumption DEF Readable
    <3> QED
      BY <3>1
  <2>2. ASSUME NEW p \in Products, NEW typed \in Typed, NEW line \in LinesOf(p, typed),
               p \in Weighed \/ line.quantity > 0
        PROVE  line \in S
    <3>1. line \in Line /\ line.quantity \in Taken(p, typed)
      BY LinesAreLines
    <3>2. CASE p \in Weighed
      <4>1. typed \in Nat /\ 2 * typed > Gram /\ Gram \in Nat \ {0}
        BY CartsAssumption DEF NothingVanishes, Gram
      <4> QED
        BY <3>1, <3>2, <4>1, Rounding DEF Taken
    <3> QED
      BY <2>2, <3>1, <3>2
  <2> QED
    BY <2>1, <2>2 DEF Closed
<1>2. Init => DrawnFrom(S)
  BY DrawingInit
<1>3. TypeOK /\ DrawnFrom(S) /\ [Next]_vars => DrawnFrom(S)'
  BY <1>1, DrawingNext DEF TypeOK
<1>4. DrawnFrom(S) => CartsAreReadable
  BY DEF DrawnFrom, CartsAreReadable, Readable
<1> QED
  BY <1>2, <1>3, <1>4, TypeCorrect, PTL DEF Spec

\* The totals tills send are right.
HonestTills ==
  \A lines \in Carts : \A i \in 1..Len(lines) :
    lines[i].total \in Total(lines[i].product, lines[i].quantity)

\* Administrators' edits never put a wrong total next to honest tills' lines.
THEOREM MatchingTotals == HonestTills => (Spec => []TotalsMatch)
<1> SUFFICES ASSUME HonestTills PROVE Spec => []TotalsMatch
  OBVIOUS
<1> DEFINE S == {line \in Line : line.total \in Total(line.product, line.quantity)}
<1>1. Closed(S)
  <2>1. ASSUME NEW lines \in Carts
        PROVE  lines \in Seq(S)
    <3>1. /\ lines \in Seq(Line)
          /\ \A i \in 1..Len(lines) :
               lines[i].total \in Total(lines[i].product, lines[i].quantity)
      BY CartsAssumption DEF HonestTills
    <3> QED
      BY <3>1
  <2>2. ASSUME NEW p \in Products, NEW typed \in Typed, NEW line \in LinesOf(p, typed)
        PROVE  line \in S
    BY LinesAreLines
  <2> QED
    BY <2>1, <2>2 DEF Closed
<1>2. Init => DrawnFrom(S)
  BY DrawingInit
<1>3. TypeOK /\ DrawnFrom(S) /\ [Next]_vars => DrawnFrom(S)'
  BY <1>1, DrawingNext DEF TypeOK
<1>4. DrawnFrom(S) => TotalsMatch
  BY DEF DrawnFrom, TotalsMatch
<1> QED
  BY <1>2, <1>3, <1>4, TypeCorrect, PTL DEF Spec
=============================================================================
