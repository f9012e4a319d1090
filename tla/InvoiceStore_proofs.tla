-------------------------- MODULE InvoiceStore_proofs --------------------------
(***************************************************************************)
(* For any number of invoices, commands and dunning runs that overlap in   *)
(* any way: codes are distinct, dates fit the status, what was finalized   *)
(* has lines and net prices that fit their rates.  A row is written from   *)
(* copies, so every copy must fit as the rows do, and the copies of one    *)
(* invoice must agree on its code.                                         *)
(***************************************************************************)
EXTENDS InvoiceStore, SumTheorems, TLAPS

\* An invoice in order, on its own: its fields go together,
Shaped(inv) ==
    /\ IsInvoice(inv)
    /\ inv.paidAt <=> inv.status = "paid"
    /\ inv.status = "draft" => inv.reminder = Never
    /\ inv.status \in {"finalized", "paid"} => DOMAIN inv.items # {}

\* its amounts are those of its lines,
AddsUp(inv) ==
    /\ inv.total = SumItems(inv.items, TotalGross)
    /\ inv.sub = SumItems(inv.items, TotalPrice)
    /\ inv.sub + inv.vat = inv.total

\* and their prices fit their rates.  Only a draft may have a line without VAT:
\* it will be stored with another rate.
PricesFit(inv) ==
    \A k \in DOMAIN inv.items :
       LET l == inv.items[k] IN
       /\ FitsRate(l) \/ (inv.status \in {"draft", "void"} /\ Defaulted(l))
       /\ l.vat = 0 => inv.status = "draft"

Fit(inv) == Shaped(inv) /\ AddsUp(inv) /\ PricesFit(inv)

\* No line is stored with the rate 0.
Rated(inv) == \A k \in DOMAIN inv.items : inv.items[k].vat # 0

RowsOK ==
    /\ DOMAIN rows \subseteq InvoiceIds
    /\ \A i \in DOMAIN rows : Fit(rows[i]) /\ Rated(rows[i])

\* A dunning run lists finalized invoices only, and nothing deletes an invoice.
ListOK(list) ==
    /\ DOMAIN list \subseteq DOMAIN rows
    /\ \A i \in DOMAIN list :
          Fit(list[i]) /\ list[i].status = "finalized" /\ list[i].code = rows[i].code

ProcsOK ==
    /\ pc \in [Procs -> {"idle", "saving", "dunning", "mailed"}]
    /\ target \in [Procs -> InvoiceIds]
    /\ DOMAIN copy = Procs /\ \A p \in Procs : Fit(copy[p])
    /\ DOMAIN todo = Procs /\ \A p \in Procs : ListOK(todo[p])
    /\ \A p \in Procs : pc[p] = "mailed" => target[p] \in DOMAIN todo[p]

\* Codes in the database and on their way there.
CodesOK ==
    /\ \A i \in DOMAIN rows : rows[i].code <= seq
    /\ \A i, j \in DOMAIN rows : rows[i].code = rows[j].code => i = j
    /\ \A p \in Procs : pc[p] = "saving" =>
          /\ copy[p].code <= seq
          /\ \A i \in DOMAIN rows : rows[i].code = copy[p].code <=> i = target[p]
    /\ \A p, q \in Procs : pc[p] = "saving" /\ pc[q] = "saving" =>
          (copy[p].code = copy[q].code <=> target[p] = target[q])

CountersOK == seq \in Nat /\ now \in Nat

\* The inductive invariant.
IInv == RowsOK /\ ProcsOK /\ CodesOK /\ CountersOK

-----------------------------------------------------------------------------
(* The arithmetic of a line *)

\* math.Round is off by half a divisor at most, on either side of zero.
LEMMA RoundIsNearest ==
    ASSUME NEW n \in Int, NEW d \in Nat, d > 0
    PROVE  /\ RoundDiv(n, d) \in Int
           /\ 2 * (d * RoundDiv(n, d) - n) \in -d..d
<1>1. ASSUME NEW m \in Nat
      PROVE  \E k \in Int : k = (2 * m + d) \div (2 * d) /\ 2 * (d * k - m) \in -d..d
    <2>1. PICK k \in Int : k = (2 * m + d) \div (2 * d)
        OBVIOUS
    <2>2. 2 * d * k <= 2 * m + d /\ 2 * m + d < 2 * d * k + 2 * d
        BY <2>1
    <2>3. PICK x \in Int : x = d * k
        OBVIOUS
    <2>4. 2 * d * k = 2 * x
        BY <2>3
    <2>5. 2 * (x - m) \in -d..d
        BY <2>2, <2>4
    <2> QED BY <2>1, <2>3, <2>5
<1>2. CASE n >= 0
    <2>1. PICK k \in Int : k = (2 * n + d) \div (2 * d) /\ 2 * (d * k - n) \in -d..d
        BY <1>1, <1>2
    <2> QED BY <1>2, <2>1 DEF RoundDiv
<1>3. CASE n < 0
    <2>1. PICK m \in Nat : m = -n
        BY <1>3
    <2>2. PICK k \in Int : k = (2 * m + d) \div (2 * d) /\ 2 * (d * k - m) \in -d..d
        BY <1>1
    <2>3. RoundDiv(n, d) = -k
        BY <1>3, <2>1, <2>2 DEF RoundDiv
    <2>4. PICK x \in Int : x = d * k
        OBVIOUS
    <2>5. d * (-k) = -x
        BY <2>4
    <2>6. 2 * (-x - n) \in -d..d
        BY <2>1, <2>2, <2>4
    <2> QED BY <2>3, <2>5, <2>6
<1> QED BY <1>2, <1>3

\* A line priced at its rate fits it, and nothing else about it has changed.
LEMMA PriceFits ==
    ASSUME NEW l \in Line, NEW new, new = Price(l)
    PROVE  /\ new \in Line /\ FitsRate(new)
           /\ new.qty = l.qty /\ new.gross = l.gross /\ new.vat = l.vat
<1>1. PICK gross \in Int, vat \in Int : gross = l.gross /\ vat = l.vat
      BY DEF Line
<1>2. PICK net : net = NetFromGross(gross, vat)
      OBVIOUS
<1>3. new = [l EXCEPT !.net = net]
      BY <1>1, <1>2 DEF Price
<1>4. new.qty = l.qty /\ new.gross = gross /\ new.vat = vat /\ new.net = net
      BY <1>1, <1>3 DEF Line
<1>5. CASE vat <= 0
  <2>1. net = gross
        BY <1>2, <1>5 DEF NetFromGross
  <2>2. FitsRate(new)
        BY <1>4, <1>5, <2>1 DEF FitsRate
  <2>. QED BY <1>1, <1>3, <1>4, <2>1, <2>2 DEF Line
<1>6. CASE vat > 0
  <2>1. PICK d \in Nat, n \in Int : d = 100 + vat /\ d > 0 /\ n = gross * 100
        BY <1>6
  <2>2. net = RoundDiv(n, d)
        BY <1>2, <1>6, <2>1 DEF NetFromGross
  <2>3. net \in Int /\ 2 * (d * net - n) \in -d..d
        BY <2>1, <2>2, RoundIsNearest
  <2>4. n = 100 * gross /\ ~(vat <= 0)
        BY <1>6, <2>1
  <2>5. FitsRate(new)
        BY <1>4, <2>1, <2>3, <2>4 DEF FitsRate
  <2>. QED BY <1>1, <1>3, <1>4, <2>3, <2>5 DEF Line
<1>. QED BY <1>5, <1>6

-----------------------------------------------------------------------------
(* The aggregate *)

\* The three amounts of any lines, and what the column default leaves alone.
LEMMA AmountsOfLines ==
    ASSUME NEW items, DOMAIN items \subseteq ItemIds,
           \A k \in DOMAIN items : items[k] \in Line
    PROVE  /\ SumItems(items, TotalPrice) + SumItems(items, TotalVAT)
                  = SumItems(items, TotalGross)
           /\ \A more : /\ DOMAIN more = DOMAIN items
                        /\ \A k \in DOMAIN items : /\ more[k].qty = items[k].qty
                                                   /\ more[k].gross = items[k].gross
                                                   /\ more[k].net = items[k].net
                        => /\ SumItems(more, TotalGross) = SumItems(items, TotalGross)
                           /\ SumItems(more, TotalPrice) = SumItems(items, TotalPrice)
<1>. DEFINE D == DOMAIN items
            gross == [k \in D |-> TotalGross(items[k])]
            price == [k \in D |-> TotalPrice(items[k])]
            vat == [k \in D |-> TotalVAT(items[k])]
<1>1. IsFiniteSet(D)
      BY IdsAssumption, FS_Subset
<1>2. ASSUME NEW k \in D
      PROVE  price[k] \in Int /\ vat[k] \in Int /\ gross[k] = price[k] + vat[k]
  <2>1. PICK l \in Line : l = items[k]
        OBVIOUS
  <2>2. l.qty \in Int /\ l.gross \in Int /\ l.net \in Int
        BY DEF Line
  <2>3. PICK g \in Int, n \in Int : g = l.qty * l.gross /\ n = l.qty * l.net
        BY <2>2
  <2>4. TotalGross(l) = g /\ TotalPrice(l) = n /\ TotalVAT(l) = g - n
        BY <2>3 DEF TotalGross, TotalPrice, TotalVAT
  <2>. QED BY <2>1, <2>3, <2>4
<1>3. ASSUME NEW more, DOMAIN more = D,
             \A k \in D : /\ more[k].qty = items[k].qty /\ more[k].gross = items[k].gross
                         /\ more[k].net = items[k].net
      PROVE  /\ SumItems(more, TotalGross) = SumItems(items, TotalGross)
             /\ SumItems(more, TotalPrice) = SumItems(items, TotalPrice)
  <2>. DEFINE gross2 == [k \in D |-> TotalGross(more[k])]
              price2 == [k \in D |-> TotalPrice(more[k])]
  <2>1. \A k \in D : gross2[k] = gross[k] /\ price2[k] = price[k]
        BY <1>3 DEF TotalGross, TotalPrice
  <2>. HIDE DEF gross2, price2, gross, price
  <2>2. /\ SumFunctionOnSet(gross2, D) = SumFunctionOnSet(gross, D)
        /\ SumFunctionOnSet(price2, D) = SumFunctionOnSet(price, D)
    <3>. HIDE DEF D
    <3>. QED BY <1>1, <2>1, SumCongruent
  <2>. QED BY <1>3, <2>2 DEF SumItems, gross2, price2, gross, price
<1>4. SumItems(items, TotalPrice) + SumItems(items, TotalVAT) = SumItems(items, TotalGross)
  <2>. HIDE DEF price, vat, gross
  <2>1. SumFunctionOnSet(gross, D) = SumFunctionOnSet(price, D) + SumFunctionOnSet(vat, D)
    <3>. HIDE DEF D
    <3>. QED BY <1>1, <1>2, SumPointwise
  <2>. QED BY <2>1 DEF SumItems, price, vat, gross
<1>. QED BY <1>3, <1>4

\* Recalculate makes the prices of a draft fit its rates, and the amounts its
\* lines, whatever they were.
LEMMA RecalculateFits ==
    ASSUME NEW inv, Shaped(inv), inv.status = "draft", NEW new, new = Recalculate(inv)
    PROVE  /\ Fit(new)
           /\ new.code = inv.code /\ new.status = inv.status
           /\ new.paidAt = inv.paidAt /\ new.reminder = inv.reminder
           /\ DOMAIN new.items = DOMAIN inv.items
           /\ \A k \in DOMAIN inv.items :
                 FitsRate(new.items[k]) /\ new.items[k].vat = inv.items[k].vat
<1>1. PICK items : items = [k \in DOMAIN inv.items |-> Price(inv.items[k])]
      OBVIOUS
<1>2. PICK gross, price, vat :
          /\ gross = SumItems(items, TotalGross)
          /\ price = SumItems(items, TotalPrice)
          /\ vat = SumItems(items, TotalVAT)
      OBVIOUS
<1>3. new = [inv EXCEPT !.items = items, !.sub = price, !.vat = vat, !.total = gross]
      BY <1>1, <1>2 DEF Recalculate
<1>4. DOMAIN items = DOMAIN inv.items /\ DOMAIN items \subseteq ItemIds
      BY <1>1 DEF Shaped, IsInvoice
<1>5. ASSUME NEW k \in DOMAIN items
      PROVE  items[k] \in Line /\ FitsRate(items[k]) /\ items[k].vat = inv.items[k].vat
  <2>1. inv.items[k] \in Line /\ items[k] = Price(inv.items[k])
        BY <1>1, <1>5 DEF Shaped, IsInvoice
  <2>. QED BY <2>1, PriceFits
<1>6. price + vat = gross
      BY <1>2, <1>4, <1>5, AmountsOfLines
<1>7. /\ new.items = items /\ new.total = gross /\ new.sub = price /\ new.vat = vat
      /\ new.code = inv.code /\ new.status = inv.status /\ new.due = inv.due
      /\ new.paidAt = inv.paidAt /\ new.reminder = inv.reminder /\ DOMAIN new = Fields
      BY <1>3 DEF Shaped, IsInvoice, Fields
<1>8. Shaped(new)
      BY <1>4, <1>5, <1>7 DEF Shaped, IsInvoice
<1>9. AddsUp(new)
      BY <1>2, <1>6, <1>7 DEF AddsUp
<1>10. PricesFit(new)
      BY <1>5, <1>7 DEF PricesFit
<1>. QED BY <1>4, <1>5, <1>7, <1>8, <1>9, <1>10 DEF Fit

\* Changing the lines of a draft keeps it in order.
LEMMA WithItemsFits ==
    ASSUME NEW inv, Fit(inv), inv.status = "draft",
           NEW items, DOMAIN items \subseteq ItemIds,
           \A k \in DOMAIN items : items[k] \in Line,
           NEW new, new = WithItems(inv, items)
    PROVE  Fit(new) /\ new.code = inv.code
<1>1. PICK mid : mid = [inv EXCEPT !.items = items]
    OBVIOUS
<1>2. Shaped(mid) /\ mid.code = inv.code /\ mid.status = "draft"
    BY <1>1 DEF Fit, Shaped, IsInvoice, Fields
<1>3. new = Recalculate(mid)
    BY <1>1 DEF WithItems
<1> QED BY <1>2, <1>3, RecalculateFits

\* A command that leaves the lines alone leaves the amounts right.
LEMMA SameAmountsFit ==
    ASSUME NEW inv, Fit(inv), NEW new, Shaped(new), PricesFit(new), new.items = inv.items,
           new.sub = inv.sub, new.vat = inv.vat, new.total = inv.total
    PROVE  Fit(new)
BY DEF Fit, AddsUp

\* The invoice a command or a generation starts from.
LEMMA NewFits ==
    ASSUME NEW code \in Nat, NEW items, DOMAIN items \subseteq ItemIds,
           \A k \in DOMAIN items : items[k] \in Line, NEW due \in Nat,
           NEW new, new = NewInvoice(code, items, due)
    PROVE  Fit(new) /\ new.code = code
<1>1. PICK bare : bare = [code |-> code, status |-> "draft", items |-> items, sub |-> 0,
                          vat |-> 0, total |-> 0, due |-> due, paidAt |-> FALSE,
                          reminder |-> Never]
    OBVIOUS
<1>2. Shaped(bare) /\ bare.code = code /\ bare.status = "draft"
    BY <1>1 DEF Shaped, IsInvoice, Fields, Statuses
<1>3. new = Recalculate(bare)
    BY <1>1 DEF NewInvoice
<1> QED BY <1>2, <1>3, RecalculateFits

LEMMA NoInvoiceFits == Fit(NoInvoice)
<1>1. PICK items : items = [k \in {} |-> CHOOSE l \in Lines : TRUE]
    OBVIOUS
<1>2. DOMAIN items = {}
    BY <1>1
<1>3. PICK new : new = NewInvoice(0, items, 0)
    OBVIOUS
<1>4. Fit(new)
    BY <1>2, <1>3, NewFits
<1>5. new = NoInvoice
    BY <1>1, <1>3 DEF NoInvoice
<1> QED BY <1>4, <1>5

\* What the repository does to a copy on its way to the database: a default
\* VAT rate takes the place of a zero, and leaves the prices as they are.
LEMMA SavedFits ==
    ASSUME NEW inv, Fit(inv), NEW row, row = Saved(inv)
    PROVE  Fit(row) /\ Rated(row) /\ row.code = inv.code
<1>1. PICK items : items = [k \in DOMAIN inv.items |-> ColumnDefaults(inv.items[k])]
    OBVIOUS
<1>2. row = [inv EXCEPT !.items = items]
    BY <1>1 DEF Saved, Fit, Shaped, IsInvoice, Fields
<1>3. DOMAIN items = DOMAIN inv.items
    BY <1>1
<1>4. ASSUME NEW k \in DOMAIN items
      PROVE  /\ items[k] \in Line
             /\ items[k].qty = inv.items[k].qty /\ items[k].gross = inv.items[k].gross
             /\ items[k].net = inv.items[k].net /\ items[k].vat # 0
             /\ items[k] = inv.items[k] \/ (inv.items[k].vat = 0 /\ items[k].vat = 21)
    <2>1. inv.items[k] \in Line
        BY <1>3, <1>4 DEF Fit, Shaped, IsInvoice
    <2>2. PICK l \in Line : l = inv.items[k]
        BY <2>1
    <2>3. /\ ColumnDefaults(l) \in Line /\ ColumnDefaults(l).qty = l.qty
          /\ ColumnDefaults(l).gross = l.gross /\ ColumnDefaults(l).net = l.net
          /\ ColumnDefaults(l).vat # 0
          /\ ColumnDefaults(l) = l \/ (l.vat = 0 /\ ColumnDefaults(l).vat = 21)
        BY DEF ColumnDefaults, Line
    <2> QED BY <1>1, <1>3, <1>4, <2>2, <2>3
<1>5. Shaped(row) /\ row.code = inv.code
    BY <1>2, <1>3, <1>4 DEF Fit, Shaped, IsInvoice, Fields
<1>6. /\ row.items = items /\ row.sub = inv.sub /\ row.vat = inv.vat
      /\ row.total = inv.total /\ row.status = inv.status
    BY <1>2 DEF Fit, Shaped, IsInvoice, Fields
<1>7. /\ SumItems(items, TotalGross) = SumItems(inv.items, TotalGross)
      /\ SumItems(items, TotalPrice) = SumItems(inv.items, TotalPrice)
    BY <1>3, <1>4, AmountsOfLines DEF Fit, Shaped, IsInvoice
<1>8. AddsUp(row)
    BY <1>6, <1>7 DEF Fit, AddsUp
<1>9. ASSUME NEW k \in DOMAIN items
      PROVE  FitsRate(items[k]) \/ (row.status \in {"draft", "void"} /\ Defaulted(items[k]))
    <2>1. CASE items[k] = inv.items[k]
        BY <1>3, <1>6, <2>1 DEF Fit, PricesFit
    <2>2. CASE inv.items[k].vat = 0 /\ items[k].vat = 21
        <3>1. inv.status = "draft" /\ inv.items[k].net = inv.items[k].gross
            BY <1>3, <2>2 DEF Fit, PricesFit, FitsRate, Defaulted
        <3> QED BY <1>4, <1>6, <2>2, <3>1 DEF Defaulted
    <2> QED BY <1>4, <2>1, <2>2
<1>10. PricesFit(row) /\ Rated(row)
    BY <1>4, <1>6, <1>9 DEF PricesFit, Rated
<1> QED BY <1>5, <1>8, <1>10 DEF Fit

-----------------------------------------------------------------------------
(* Steps *)

LEMMA InitHolds == Init => IInv
<1> SUFFICES ASSUME Init PROVE IInv
    OBVIOUS
<1>1. RowsOK
    BY DEF Init, RowsOK
<1>2. ProcsOK
    BY NoInvoiceFits, IdsAssumption DEF Init, ProcsOK, ListOK, NoTarget
<1>3. CodesOK
    BY DEF Init, CodesOK
<1>4. CountersOK
    BY DEF Init, CountersOK
<1> QED BY <1>1, <1>2, <1>3, <1>4 DEF IInv

\* A command takes an invoice in hand: its copy is in order, and its code is
\* that of the invoice and of nothing else, stored or on its way.
LEMMA WorkHolds ==
    ASSUME IInv, NEW p \in Procs, NEW i \in InvoiceIds, NEW inv, Fit(inv),
           Work(p, i, inv), pc[p] = "idle",
           seq' \in Nat, seq <= seq', inv.code <= seq',
           \A j \in DOMAIN rows : rows[j].code = inv.code <=> j = i,
           \A q \in Procs : pc[q] = "saving" => (copy[q].code = inv.code <=> target[q] = i),
           rows' = rows, todo' = todo, now' = now
    PROVE  IInv'
<1>1. ASSUME NEW q \in Procs
      PROVE  /\ pc'[q] = IF q = p THEN "saving" ELSE pc[q]
             /\ target'[q] = IF q = p THEN i ELSE target[q]
             /\ copy'[q] = IF q = p THEN inv ELSE copy[q]
    BY DEF IInv, ProcsOK, Work
<1>2. RowsOK'
    BY DEF IInv, RowsOK
<1>3. ProcsOK'
    <2>1. pc' \in [Procs -> {"idle", "saving", "dunning", "mailed"}]
        BY DEF IInv, ProcsOK, Work
    <2>2. target' \in [Procs -> InvoiceIds]
        BY DEF IInv, ProcsOK, Work
    <2>3. DOMAIN copy' = Procs
        BY DEF IInv, ProcsOK, Work
    <2>4. \A q \in Procs : Fit(copy'[q])
        BY <1>1 DEF IInv, ProcsOK
    <2>5. DOMAIN todo' = Procs /\ \A q \in Procs : ListOK(todo[q])'
        BY DEF IInv, ProcsOK, ListOK
    <2>6. \A q \in Procs : pc'[q] = "mailed" => target'[q] \in DOMAIN todo'[q]
        BY <1>1 DEF IInv, ProcsOK
    <2> QED BY <2>1, <2>2, <2>3, <2>4, <2>5, <2>6 DEF ProcsOK
<1>4. CodesOK'
    <2>1. \A j \in DOMAIN rows : rows[j].code \in Nat
        BY DEF IInv, RowsOK, Fit, Shaped, IsInvoice
    <2>2. \A q \in Procs : copy[q].code \in Nat
        BY DEF IInv, ProcsOK, Fit, Shaped, IsInvoice
    <2>3. \A j \in DOMAIN rows' : rows'[j].code <= seq'
        BY <2>1 DEF IInv, CodesOK, CountersOK
    <2>4. ASSUME NEW q \in Procs, pc'[q] = "saving"
          PROVE  /\ copy'[q].code <= seq'
                 /\ \A j \in DOMAIN rows' : rows'[j].code = copy'[q].code <=> j = target'[q]
        BY <1>1, <2>2, <2>4 DEF IInv, CodesOK, CountersOK
    <2>5. ASSUME NEW q \in Procs, NEW r \in Procs, pc'[q] = "saving", pc'[r] = "saving"
          PROVE  copy'[q].code = copy'[r].code <=> target'[q] = target'[r]
        BY <1>1, <2>5 DEF IInv, CodesOK
    <2> QED BY <2>3, <2>4, <2>5 DEF IInv, CodesOK
<1> QED BY <1>2, <1>3, <1>4 DEF IInv, CountersOK

\* A new invoice: no other creation works on its id, and its code is the next.
LEMMA CreateHolds ==
    ASSUME IInv, NEW p \in Procs, NEW i \in InvoiceIds,
           NEW items, DOMAIN items \subseteq ItemIds,
           \A k \in DOMAIN items : items[k] \in Line,
           NEW due \in Nat, Create(p, i, items, due)
    PROVE  IInv'
<1>1. PICK inv : inv = NewInvoice(seq + 1, items, due)
    OBVIOUS
<1>2. Fit(inv) /\ inv.code = seq + 1
    BY <1>1, NewFits DEF IInv, CountersOK
<1>3. \A j \in DOMAIN rows : rows[j].code \in Nat /\ rows[j].code <= seq /\ j # i
    BY DEF IInv, RowsOK, Fit, Shaped, IsInvoice, CodesOK, Create
<1>4. \A q \in Procs : pc[q] = "saving" =>
          copy[q].code \in Nat /\ copy[q].code <= seq /\ target[q] # i
    BY DEF IInv, ProcsOK, Fit, Shaped, IsInvoice, CodesOK, Create
<1>5. Work(p, i, inv) /\ pc[p] = "idle" /\ seq \in Nat /\ seq' = seq + 1
    BY <1>1 DEF Create, IInv, CountersOK
<1> QED BY <1>2, <1>3, <1>4, <1>5, WorkHolds DEF Create

\* A command on a stored invoice keeps its code.
LEMMA ChangeHolds ==
    ASSUME IInv, NEW p \in Procs, NEW i \in DOMAIN rows, NEW inv, Fit(inv),
           inv.code = rows[i].code, Change(p, i, inv)
    PROVE  IInv'
<1>1. i \in InvoiceIds /\ seq \in Nat
    BY DEF IInv, RowsOK, CountersOK
<1>2. inv.code <= seq /\ \A j \in DOMAIN rows : rows[j].code = inv.code <=> j = i
    BY DEF IInv, CodesOK
<1>3. \A q \in Procs : pc[q] = "saving" => (copy[q].code = inv.code <=> target[q] = i)
    BY DEF IInv, CodesOK
<1> QED BY <1>1, <1>2, <1>3, WorkHolds DEF Change

LEMMA CommandHolds ==
    ASSUME IInv, NEW p \in Procs, NEW i \in DOMAIN rows, Edit(p, i) \/ Transition(p, i)
    PROVE  IInv'
<1>1. Fit(rows[i]) /\ Rated(rows[i])
    BY DEF IInv, RowsOK
<1>2. DOMAIN rows[i].items \subseteq ItemIds /\ \A k \in DOMAIN rows[i].items : rows[i].items[k] \in Line
    BY <1>1 DEF Fit, Shaped, IsInvoice
<1>3. CASE AddLineItem(p, i)
    <2>1. PICK k \in FreshItems, l \in Lines :
              /\ rows[i].status = "draft"
              /\ Change(p, i, WithItems(rows[i],
                    [x \in DOMAIN rows[i].items \cup {k} |->
                        IF x = k THEN l ELSE rows[i].items[x]]))
        BY <1>3 DEF AddLineItem
    <2>2. PICK items : items = [x \in DOMAIN rows[i].items \cup {k} |->
                                   IF x = k THEN l ELSE rows[i].items[x]]
        OBVIOUS
    <2>3. DOMAIN items \subseteq ItemIds /\ \A x \in DOMAIN items : items[x] \in Line
        BY <1>2, <2>2, LinesAssumption DEF FreshItems
    <2>4. PICK inv : inv = WithItems(rows[i], items)
        OBVIOUS
    <2>5. Fit(inv) /\ inv.code = rows[i].code
        BY <1>1, <2>1, <2>3, <2>4, WithItemsFits
    <2>6. Change(p, i, inv)
        BY <2>1, <2>2, <2>4
    <2> QED BY <2>5, <2>6, ChangeHolds
<1>4. CASE UpdateLineItem(p, i)
    <2>1. PICK k \in DOMAIN rows[i].items, l \in Lines :
              /\ rows[i].status = "draft"
              /\ Change(p, i, WithItems(rows[i], [rows[i].items EXCEPT ![k] = l]))
        BY <1>4 DEF UpdateLineItem
    <2>2. PICK items : items = [rows[i].items EXCEPT ![k] = l]
        OBVIOUS
    <2>3. DOMAIN items \subseteq ItemIds /\ \A x \in DOMAIN items : items[x] \in Line
        BY <1>2, <2>2, LinesAssumption
    <2>4. PICK inv : inv = WithItems(rows[i], items)
        OBVIOUS
    <2>5. Fit(inv) /\ inv.code = rows[i].code
        BY <1>1, <2>1, <2>3, <2>4, WithItemsFits
    <2>6. Change(p, i, inv)
        BY <2>1, <2>2, <2>4
    <2> QED BY <2>5, <2>6, ChangeHolds
<1>5. CASE RemoveLineItem(p, i)
    <2>1. PICK k \in DOMAIN rows[i].items :
              /\ rows[i].status = "draft"
              /\ Change(p, i, WithItems(rows[i],
                    Restrict(rows[i].items, DOMAIN rows[i].items \ {k})))
        BY <1>5 DEF RemoveLineItem
    <2>2. PICK items : items = Restrict(rows[i].items, DOMAIN rows[i].items \ {k})
        OBVIOUS
    <2>3. DOMAIN items \subseteq ItemIds /\ \A x \in DOMAIN items : items[x] \in Line
        BY <1>2, <2>2 DEF Restrict
    <2>4. PICK inv : inv = WithItems(rows[i], items)
        OBVIOUS
    <2>5. Fit(inv) /\ inv.code = rows[i].code
        BY <1>1, <2>1, <2>3, <2>4, WithItemsFits
    <2>6. Change(p, i, inv)
        BY <2>1, <2>2, <2>4
    <2> QED BY <2>5, <2>6, ChangeHolds
<1>6. CASE Finalize(p, i)
    <2>1. PICK mid : mid = Recalculate(rows[i])
        OBVIOUS
    <2>2. /\ Fit(mid) /\ mid.code = rows[i].code
          /\ mid.status = "draft" /\ DOMAIN mid.items # {}
          /\ \A k \in DOMAIN mid.items : FitsRate(mid.items[k]) /\ mid.items[k].vat # 0
        BY <1>1, <1>6, <2>1, RecalculateFits DEF Finalize, Fit, Rated
    <2>3. PICK inv : inv = [mid EXCEPT !.status = "finalized"]
        OBVIOUS
    <2>4. /\ Shaped(inv) /\ inv.code = mid.code /\ inv.items = mid.items
          /\ inv.sub = mid.sub /\ inv.vat = mid.vat /\ inv.total = mid.total
        BY <2>2, <2>3 DEF Fit, Shaped, IsInvoice, Fields, Statuses
    <2>5. PricesFit(inv)
        BY <2>2, <2>4 DEF PricesFit
    <2>6. Change(p, i, inv)
        BY <1>6, <2>1, <2>3 DEF Finalize
    <2> QED BY <2>2, <2>4, <2>5, <2>6, SameAmountsFit, ChangeHolds
<1>7. CASE MarkPaid(p, i)
    <2>1. PICK inv : inv = [rows[i] EXCEPT !.status = "paid", !.paidAt = TRUE]
        OBVIOUS
    <2>2. /\ Shaped(inv) /\ inv.code = rows[i].code /\ inv.items = rows[i].items
          /\ inv.sub = rows[i].sub /\ inv.vat = rows[i].vat /\ inv.total = rows[i].total
        BY <1>1, <1>7, <2>1 DEF MarkPaid, Fit, Shaped, IsInvoice, Fields, Statuses
    <2>3. PricesFit(inv)
        BY <1>1, <1>7, <2>2 DEF MarkPaid, Fit, PricesFit
    <2> QED BY <1>1, <1>7, <2>1, <2>2, <2>3, SameAmountsFit, ChangeHolds DEF MarkPaid
<1>8. CASE Void(p, i)
    <2>1. PICK inv : inv = [rows[i] EXCEPT !.status = "void"]
        OBVIOUS
    <2>2. /\ Shaped(inv) /\ inv.code = rows[i].code /\ inv.items = rows[i].items
          /\ inv.sub = rows[i].sub /\ inv.vat = rows[i].vat /\ inv.total = rows[i].total
        BY <1>1, <1>8, <2>1 DEF Void, Fit, Shaped, IsInvoice, Fields, Statuses
    <2>3. inv.status = "void"
        BY <1>1, <2>1 DEF Fit, Shaped, IsInvoice, Fields
    <2>4. PricesFit(inv)
        BY <1>1, <2>2, <2>3 DEF Fit, PricesFit, Rated
    <2> QED BY <1>1, <1>8, <2>1, <2>2, <2>4, SameAmountsFit, ChangeHolds DEF Void
<1> QED BY <1>3, <1>4, <1>5, <1>6, <1>7, <1>8 DEF Edit, Transition

\* A row is written.  Its code is that of the invoice and of no other, stored
\* or on its way.
LEMMA RowWritten ==
    ASSUME IInv, NEW i \in InvoiceIds, NEW row, Fit(row), Rated(row), row.code <= seq,
           rows' = [x \in DOMAIN rows \cup {i} |-> IF x = i THEN row ELSE rows[x]],
           seq' = seq,
           \A j \in DOMAIN rows : rows[j].code = row.code <=> j = i,
           \A q \in Procs : pc'[q] = "saving" =>
               /\ pc[q] = "saving" /\ copy'[q] = copy[q] /\ target'[q] = target[q]
               /\ (copy[q].code = row.code <=> target[q] = i)
    PROVE  /\ RowsOK' /\ CodesOK'
           /\ \A list : ListOK(list) => ListOK(list)'
<1>1. /\ DOMAIN rows' = DOMAIN rows \cup {i}
      /\ rows'[i] = row
      /\ \A j \in DOMAIN rows : j # i => rows'[j] = rows[j]
    OBVIOUS
<1>2. RowsOK'
    BY <1>1 DEF IInv, RowsOK
<1>3. \A j \in DOMAIN rows' : rows'[j].code <= seq'
    BY <1>1 DEF IInv, CodesOK
<1>4. \A j, k \in DOMAIN rows' : rows'[j].code = rows'[k].code => j = k
    BY <1>1 DEF IInv, CodesOK
<1>5. ASSUME NEW q \in Procs, pc'[q] = "saving"
      PROVE  /\ copy'[q].code <= seq'
             /\ \A j \in DOMAIN rows' : rows'[j].code = copy'[q].code <=> j = target'[q]
    BY <1>1, <1>5 DEF IInv, CodesOK
<1>6. ASSUME NEW q \in Procs, NEW r \in Procs, pc'[q] = "saving", pc'[r] = "saving"
      PROVE  copy'[q].code = copy'[r].code <=> target'[q] = target'[r]
    BY <1>6 DEF IInv, CodesOK
<1>7. CodesOK'
    <2>1. \A q \in Procs : pc'[q] = "saving" =>
             /\ copy'[q].code <= seq'
             /\ \A j \in DOMAIN rows' : rows'[j].code = copy'[q].code <=> j = target'[q]
        BY <1>5
    <2>2. \A q, r \in Procs : pc'[q] = "saving" /\ pc'[r] = "saving" =>
             (copy'[q].code = copy'[r].code <=> target'[q] = target'[r])
        BY <1>6
    <2> QED BY ONLY <1>3, <1>4, <2>1, <2>2 DEF CodesOK
<1>8. ASSUME NEW list, ListOK(list) PROVE ListOK(list)'
    BY <1>1, <1>8 DEF ListOK
<1> QED BY <1>2, <1>7, <1>8

\* The processes after a step in which one puts its invoice down, with what is
\* left of its list, and no row loses its code.
LEMMA PutDown ==
    ASSUME IInv, NEW p \in Procs, NEW stage \in {"idle", "dunning"}, NEW list,
           pc' = [pc EXCEPT ![p] = stage],
           todo' = [todo EXCEPT ![p] = list] \/ (todo' = todo /\ list = todo[p]),
           Forget(p), ListOK(list)',
           \A l : ListOK(l) => ListOK(l)'
    PROVE  ProcsOK'
<1>1. /\ pc' \in [Procs -> {"idle", "saving", "dunning", "mailed"}]
      /\ target' \in [Procs -> InvoiceIds]
      /\ DOMAIN copy' = Procs /\ DOMAIN todo' = Procs
    BY IdsAssumption DEF IInv, ProcsOK, Forget, NoTarget
<1>2. \A q \in Procs : Fit(copy'[q])
    BY NoInvoiceFits DEF IInv, ProcsOK, Forget
<1>3. ASSUME NEW q \in Procs PROVE ListOK(todo[q])'
    <2>1. PICK l : l = todo'[q]
        OBVIOUS
    <2>2. ListOK(l)'
        <3>1. CASE q = p
            BY <2>1, <3>1 DEF IInv, ProcsOK
        <3>2. CASE q # p
            <4>1. ListOK(l)
                BY <2>1, <3>2 DEF IInv, ProcsOK
            <4> QED BY <4>1
        <3> QED BY <3>1, <3>2
    <2> QED BY <2>1, <2>2 DEF ListOK
<1>4. \A q \in Procs : pc'[q] = "mailed" => target'[q] \in DOMAIN todo'[q]
    BY DEF IInv, ProcsOK, Forget
<1> QED BY <1>1, <1>2, <1>3, <1>4 DEF ProcsOK

\* Codes do not care for processes that stop saving.
LEMMA CodesStay ==
    ASSUME IInv, rows' = rows, seq' = seq,
           \A q \in Procs : pc'[q] = "saving" =>
               pc[q] = "saving" /\ copy'[q] = copy[q] /\ target'[q] = target[q]
    PROVE  CodesOK' /\ RowsOK' /\ \A l : ListOK(l) => ListOK(l)'
<1>1. CodesOK'
    BY DEF IInv, CodesOK
<1>2. RowsOK'
    BY DEF IInv, RowsOK
<1>3. ASSUME NEW l, ListOK(l) PROVE ListOK(l)'
    BY <1>3 DEF ListOK
<1> QED BY <1>1, <1>2, <1>3

LEMMA RestrictedList ==
    ASSUME NEW list, ListOK(list), NEW S, S \subseteq DOMAIN list,
           NEW new, new = Restrict(list, S)
    PROVE  ListOK(new)
BY DEF ListOK, Restrict

LEMMA StoreHolds ==
    ASSUME IInv, NEW p \in Procs, Store(p)
    PROVE  IInv'
<1>1. PICK i \in InvoiceIds : i = target[p]
    BY DEF IInv, ProcsOK
<1>2. PICK row : row = Saved(copy[p])
    OBVIOUS
<1>3. Fit(copy[p]) /\ pc[p] = "saving"
    BY DEF IInv, ProcsOK, Store
<1>4. Fit(row) /\ Rated(row) /\ row.code = copy[p].code
    BY <1>2, <1>3, SavedFits
<1>5. /\ row.code <= seq
      /\ \A j \in DOMAIN rows : rows[j].code = row.code <=> j = i
      /\ \A q \in Procs : pc[q] = "saving" => (copy[q].code = row.code <=> target[q] = i)
    BY <1>1, <1>3, <1>4 DEF IInv, CodesOK
<1>6. \A q \in Procs : pc'[q] = "saving" =>
          pc[q] = "saving" /\ copy'[q] = copy[q] /\ target'[q] = target[q]
    BY DEF IInv, ProcsOK, Store, Forget
<1>7. rows' = [x \in DOMAIN rows \cup {i} |-> IF x = i THEN row ELSE rows[x]]
    BY <1>1, <1>2 DEF Store
<1>8. seq' = seq /\ now' = now /\ todo' = todo /\ Forget(p) /\ pc' = [pc EXCEPT ![p] = "idle"]
    BY DEF Store
<1>9. RowsOK' /\ CodesOK' /\ \A list : ListOK(list) => ListOK(list)'
    BY <1>4, <1>5, <1>6, <1>7, <1>8, RowWritten
<1>10. ProcsOK'
    <2>1. PICK list : list = todo[p]
        OBVIOUS
    <2>2. ListOK(list)
        BY <2>1 DEF IInv, ProcsOK
    <2> QED BY <2>1, <2>2, <1>8, <1>9, PutDown
<1> QED BY <1>8, <1>9, <1>10 DEF IInv, CountersOK

\* The run lists what is finalized at that moment.
LEMMA DunningStartHolds ==
    ASSUME IInv, NEW p \in Procs, DunningStart(p)
    PROVE  IInv'
<1>1. PICK list : list = Restrict(rows, ListOverdue)
    OBVIOUS
<1>2. ListOK(list)
    BY <1>1 DEF ListOK, ListOverdue, Restrict, IInv, RowsOK
<1>3. /\ rows' = rows /\ seq' = seq /\ target' = target /\ copy' = copy /\ now' = now
      /\ pc' = [pc EXCEPT ![p] = "dunning"] /\ todo' = [todo EXCEPT ![p] = list]
    BY <1>1 DEF DunningStart
<1>4. CodesOK' /\ RowsOK' /\ \A l : ListOK(l) => ListOK(l)'
    BY <1>3, CodesStay DEF IInv, ProcsOK
<1>5. ASSUME NEW q \in Procs PROVE ListOK(todo[q])'
    <2>1. PICK l : l = todo'[q]
        OBVIOUS
    <2>2. ListOK(l)
        BY <2>1, <1>2, <1>3 DEF IInv, ProcsOK
    <2> QED BY <2>1, <2>2, <1>4 DEF ListOK
<1>6. ProcsOK'
    BY <1>3, <1>5 DEF IInv, ProcsOK
<1> QED BY <1>3, <1>4, <1>6 DEF IInv, CountersOK

\* What is left of a list when an invoice is done with.
LEMMA AfterInvoiceLists ==
    ASSUME IInv, NEW p \in Procs, NEW i, AfterInvoice(p, i)
    PROVE  /\ \E stage \in {"idle", "dunning"} : pc' = [pc EXCEPT ![p] = stage]
           /\ \E list : todo' = [todo EXCEPT ![p] = list] /\ ListOK(list)
<1>1. PICK list : list = Restrict(todo[p], DOMAIN todo[p] \ {i})
    OBVIOUS
<1>2. ListOK(list)
    BY <1>1, RestrictedList DEF IInv, ProcsOK
<1>3. todo' = [todo EXCEPT ![p] = list]
    BY <1>1 DEF AfterInvoice, Without, IInv, ProcsOK
<1>4. \E stage \in {"idle", "dunning"} : pc' = [pc EXCEPT ![p] = stage]
    BY DEF AfterInvoice
<1> QED BY <1>2, <1>3, <1>4

LEMMA DunningSkipHolds ==
    ASSUME IInv, NEW p \in Procs, NEW i, DunningSkip(p, i)
    PROVE  IInv'
<1>0. PICK stage \in {"idle", "dunning"} : pc' = [pc EXCEPT ![p] = stage]
    BY AfterInvoiceLists DEF DunningSkip
<1>1. PICK list : todo' = [todo EXCEPT ![p] = list] /\ ListOK(list)
    BY AfterInvoiceLists DEF DunningSkip
<1>2. rows' = rows /\ seq' = seq /\ target' = target /\ copy' = copy /\ now' = now
    BY DEF DunningSkip
<1>3. CodesOK' /\ RowsOK' /\ \A l : ListOK(l) => ListOK(l)'
    BY <1>0, <1>1, <1>2, CodesStay DEF IInv, ProcsOK
<1>4. ASSUME NEW q \in Procs PROVE ListOK(todo[q])'
    <2>1. PICK l : l = todo'[q]
        OBVIOUS
    <2>2. ListOK(l)
        BY <2>1, <1>1 DEF IInv, ProcsOK
    <2> QED BY <2>1, <2>2, <1>3 DEF ListOK
<1>5. ProcsOK'
    BY <1>0, <1>1, <1>2, <1>4 DEF IInv, ProcsOK
<1> QED BY <1>2, <1>3, <1>5 DEF IInv, CountersOK

LEMMA DunningMailHolds ==
    ASSUME IInv, NEW p \in Procs, NEW i \in InvoiceIds, DunningMail(p, i)
    PROVE  IInv'
<1>1. /\ rows' = rows /\ seq' = seq /\ copy' = copy /\ todo' = todo /\ now' = now
      /\ pc' = [pc EXCEPT ![p] = "mailed"] /\ target' = [target EXCEPT ![p] = i]
      /\ i \in DOMAIN todo[p]
    BY DEF DunningMail
<1>2. CodesOK' /\ RowsOK' /\ \A l : ListOK(l) => ListOK(l)'
    BY <1>1, CodesStay DEF IInv, ProcsOK
<1>3. ASSUME NEW q \in Procs PROVE ListOK(todo[q])'
    <2>1. PICK l : l = todo'[q]
        OBVIOUS
    <2>2. ListOK(l)
        BY <2>1, <1>1 DEF IInv, ProcsOK
    <2> QED BY <2>1, <2>2, <1>2 DEF ListOK
<1>4. ProcsOK'
    BY <1>1, <1>3 DEF IInv, ProcsOK
<1> QED BY <1>1, <1>2, <1>4 DEF IInv, CountersOK

\* The listed copy has the row's code, and was finalized.
LEMMA DunningSaveHolds ==
    ASSUME IInv, NEW p \in Procs, DunningSave(p)
    PROVE  IInv'
<1>1. PICK i : i = target[p]
    OBVIOUS
<1>2. PICK old : old = todo[p][i]
    OBVIOUS
<1>3. PICK inv : inv = [old EXCEPT !.reminder = now]
    OBVIOUS
<1>4. PICK row : row = Saved(inv)
    OBVIOUS
<1>5. /\ i \in InvoiceIds /\ i \in DOMAIN rows
      /\ Fit(old) /\ old.status = "finalized" /\ old.code = rows[i].code
    BY <1>1, <1>2 DEF DunningSave, IInv, ProcsOK, ListOK, RowsOK
<1>6. Fit(inv) /\ inv.code = rows[i].code
    <2>1. /\ Shaped(inv) /\ inv.code = old.code /\ inv.items = old.items
          /\ inv.sub = old.sub /\ inv.vat = old.vat /\ inv.total = old.total
        BY <1>3, <1>5 DEF Fit, Shaped, IsInvoice, Fields, IInv, CountersOK
    <2>2. inv.status = old.status
        BY <1>3, <1>5 DEF Fit, Shaped, IsInvoice, Fields
    <2>3. PricesFit(inv)
        BY <1>5, <2>1, <2>2 DEF Fit, PricesFit
    <2> QED BY <1>5, <2>1, <2>3, SameAmountsFit
<1>7. Fit(row) /\ Rated(row) /\ row.code = rows[i].code
    BY <1>4, <1>6, SavedFits
<1>8. /\ row.code <= seq
      /\ \A j \in DOMAIN rows : rows[j].code = row.code <=> j = i
      /\ \A q \in Procs : pc[q] = "saving" => (copy[q].code = row.code <=> target[q] = i)
    BY <1>5, <1>7 DEF IInv, CodesOK
<1>0. PICK stage \in {"idle", "dunning"} : pc' = [pc EXCEPT ![p] = stage]
    BY AfterInvoiceLists DEF DunningSave
<1>9. PICK list : todo' = [todo EXCEPT ![p] = list] /\ ListOK(list)
    BY AfterInvoiceLists DEF DunningSave
<1>10. /\ Forget(p) /\ seq' = seq /\ now' = now
       /\ rows' = [rows EXCEPT ![i] = row]
    BY <1>1, <1>2, <1>3, <1>4 DEF DunningSave
<1>11. rows' = [x \in DOMAIN rows \cup {i} |-> IF x = i THEN row ELSE rows[x]]
    BY <1>5, <1>10
<1>12. \A q \in Procs : pc'[q] = "saving" =>
           /\ pc[q] = "saving" /\ copy'[q] = copy[q] /\ target'[q] = target[q]
           /\ (copy[q].code = row.code <=> target[q] = i)
    BY <1>0, <1>8, <1>10 DEF IInv, ProcsOK, Forget
<1>13. RowsOK' /\ CodesOK' /\ \A l : ListOK(l) => ListOK(l)'
    BY <1>5, <1>7, <1>8, <1>10, <1>11, <1>12, RowWritten
<1>14. ProcsOK'
    BY <1>0, <1>9, <1>10, <1>13, PutDown
<1> QED BY <1>10, <1>13, <1>14 DEF IInv, CountersOK

\* A process puts its invoice down without saving it.
LEMMA FailureHolds ==
    ASSUME IInv, NEW p \in Procs, DunningSaveFails(p) \/ GiveUp(p)
    PROVE  IInv'
<1>0. PICK stage \in {"idle", "dunning"} : pc' = [pc EXCEPT ![p] = stage]
    BY AfterInvoiceLists DEF DunningSaveFails, GiveUp
<1>1. PICK list : todo' = [todo EXCEPT ![p] = list] /\ ListOK(list)
    <2>1. CASE DunningSaveFails(p)
        BY <2>1, AfterInvoiceLists DEF DunningSaveFails
    <2>2. CASE GiveUp(p)
        <3>1. PICK list : list = Restrict(todo[p], {})
            OBVIOUS
        <3>2. ListOK(list)
            BY <3>1, RestrictedList DEF IInv, ProcsOK
        <3>3. todo' = [todo EXCEPT ![p] = list]
            BY <2>2, <3>1 DEF GiveUp, IInv, ProcsOK
        <3> QED BY <3>2, <3>3
    <2> QED BY <2>1, <2>2
<1>2. Forget(p) /\ rows' = rows /\ seq' = seq /\ now' = now
    BY DEF DunningSaveFails, GiveUp
<1>3. \A q \in Procs : pc'[q] = "saving" =>
          pc[q] = "saving" /\ copy'[q] = copy[q] /\ target'[q] = target[q]
    BY <1>0, <1>2 DEF IInv, ProcsOK, Forget
<1>4. CodesOK' /\ RowsOK' /\ \A l : ListOK(l) => ListOK(l)'
    BY <1>2, <1>3, CodesStay
<1>5. ProcsOK'
    BY <1>0, <1>1, <1>2, <1>4, PutDown
<1> QED BY <1>2, <1>4, <1>5 DEF IInv, CountersOK

\* Time passes, or nothing happens.
LEMMA SameHolds ==
    ASSUME IInv, UNCHANGED <<rows, seq, procVars>>, now' \in Nat
    PROVE  IInv'
<1>1. CodesOK' /\ RowsOK' /\ \A l : ListOK(l) => ListOK(l)'
    BY CodesStay DEF procVars
<1>2. ASSUME NEW q \in Procs PROVE ListOK(todo[q])'
    <2>1. PICK l : l = todo[q]
        OBVIOUS
    <2>2. ListOK(l)'
        BY <2>1, <1>1 DEF IInv, ProcsOK
    <2> QED BY <2>1, <2>2 DEF ListOK, procVars
<1>3. ProcsOK'
    BY <1>2 DEF IInv, ProcsOK, procVars
<1> QED BY <1>1, <1>3 DEF IInv, CountersOK

LEMMA NextHolds == IInv /\ [Next]_vars => IInv'
<1> SUFFICES ASSUME IInv, [Next]_vars PROVE IInv'
    OBVIOUS
<1>1. ASSUME NEW p \in Procs, NEW i \in InvoiceIds, CreateInvoice(p, i) PROVE IInv'
    <2>1. PICK S \in SUBSET FreshItems : \E items \in [S -> Lines], due \in Times :
              Create(p, i, items, due)
        BY <1>1 DEF CreateInvoice
    <2>2. PICK items \in [S -> Lines], due \in Times : Create(p, i, items, due)
        BY <2>1
    <2>3. due \in Nat /\ DOMAIN items \subseteq ItemIds /\ \A k \in DOMAIN items : items[k] \in Line
        BY LinesAssumption, TimeAssumption DEF Times, FreshItems
    <2> QED BY <2>2, <2>3, CreateHolds
<1>2. ASSUME NEW p \in Procs, NEW i \in InvoiceIds, Generate(p, i) PROVE IInv'
    <2>1. PICK S \in SUBSET FreshItems : \E items \in [S -> {l \in Lines : l.qty = 1 /\ l.vat > 0}] :
              Create(p, i, items, now + Term)
        BY <1>2 DEF Generate
    <2>2. PICK items \in [S -> {l \in Lines : l.qty = 1 /\ l.vat > 0}] : Create(p, i, items, now + Term)
        BY <2>1
    <2>3. now + Term \in Nat
        BY TimeAssumption DEF IInv, CountersOK
    <2>4. DOMAIN items \subseteq ItemIds /\ \A k \in DOMAIN items : items[k] \in Line
        BY LinesAssumption DEF FreshItems
    <2> QED BY <2>2, <2>3, <2>4, CreateHolds
<1>3. ASSUME NEW p \in Procs, NEW i \in DOMAIN rows, Edit(p, i) \/ Transition(p, i) PROVE IInv'
    BY <1>3, CommandHolds
<1>4. ASSUME NEW p \in Procs, Dunning(p) PROVE IInv'
    BY <1>4, DunningStartHolds, DunningSkipHolds, DunningMailHolds, DunningSaveHolds DEF Dunning
<1>5. ASSUME NEW p \in Procs, Store(p) PROVE IInv'
    BY <1>5, StoreHolds
<1>6. ASSUME NEW p \in Procs, DunningSaveFails(p) \/ GiveUp(p) PROVE IInv'
    BY <1>6, FailureHolds
<1>7. CASE Tick
    BY <1>7, SameHolds DEF Tick, IInv, CountersOK
<1>8. CASE UNCHANGED vars
    BY <1>8, SameHolds DEF vars, IInv, CountersOK
<1> QED BY <1>1, <1>2, <1>3, <1>4, <1>5, <1>6, <1>7, <1>8 DEF Next, Step

-----------------------------------------------------------------------------

\* Rows, copies and lists fit together in every run of the program.
THEOREM Invariant == Spec => []IInv
<1>1. Init => IInv
    BY InitHolds
<1>2. IInv /\ [Next]_vars => IInv'
    BY NextHolds
<1> QED BY <1>1, <1>2, PTL DEF Spec

\* Rows and copies are invoices.
THEOREM TypeCorrect == Spec => []TypeOK
<1>1. IInv => TypeOK
    BY DEF IInv, RowsOK, ProcsOK, ListOK, CountersOK, Fit, Shaped, TypeOK
<1> QED BY <1>1, Invariant, PTL

\* No code is given twice, to stored invoices or to invoices on their way
\* (repository.go:153).
THEOREM CodesGivenOnce == Spec => []CodesDistinct
<1>1. IInv => CodesDistinct
    BY DEF IInv, CodesOK, CodesDistinct
<1> QED BY <1>1, Invariant, PTL

\* What a customer is asked to pay has lines, and payment and reminder dates fit
\* the status, whichever copy won (invoice.go:158, 177).
THEOREM RowsKept == Spec => []RowsInOrder
<1>1. IInv => RowsInOrder
    BY DEF IInv, RowsOK, Fit, Shaped, RowsInOrder, FinalizedHasItems, DatesFitStatus
<1> QED BY <1>1, Invariant, PTL

\* A stored invoice adds up to the cent, whichever copies replaced each other:
\* its net, VAT and total are those of the lines stored with it, at the prices
\* stored with them (invoice.go:128).
THEOREM TotalsKept == Spec => []TotalsMatchItems
<1>1. IInv => TotalsMatchItems
    BY DEF IInv, RowsOK, Fit, AddsUp, TotalsMatchItems
<1> QED BY <1>1, Invariant, PTL

\* Every net price stored on an invoice that was sent out fits the rate stored
\* beside it, whatever the amounts and rates: finalizing computes it from what
\* is stored (invoice.go:164).  On drafts and void invoices a line entered
\* without VAT may have the default rate beside a price without VAT
\* (repository.go:48).
THEOREM NetExact == Spec => []NetIsNearest
<1>1. IInv => NetIsNearest
    BY DEF IInv, RowsOK, Fit, PricesFit, NetIsNearest
<1> QED BY <1>1, Invariant, PTL

-----------------------------------------------------------------------------
(* Copies that are up to date *)

\* A copy that one command made of a row.
OneStep(row, inv) ==
    /\ inv.status = row.status \/ <<row.status, inv.status>> \in Follows
    /\ row.status # "draft" => inv.items = row.items /\ inv.total = row.total
    /\ inv.reminder = row.reminder

SavedLine == {l \in Line : l.vat # 0}

LinesSaved == \A i \in DOMAIN rows : rows[i].items \in [DOMAIN rows[i].items -> SavedLine]

CopiesFresh ==
    \A p \in Procs :
        pc[p] = "saving" /\ target[p] \in DOMAIN rows /\ <<p, target[p]>> \notin stale
            => OneStep(rows[target[p]], copy[p])

ListsFresh ==
    \A p \in Procs : \A i \in DOMAIN todo[p] :
        <<p, i>> \notin stale => todo[p][i] = rows[i]

ListsEmpty == \A p \in Procs : pc[p] \in {"idle", "saving"} => DOMAIN todo[p] = {}

\* The date of the last reminder is in the row, unless it was lost or is about
\* to be saved.
RemindedOK ==
    /\ mailed \in [InvoiceIds -> Int]
    /\ \A i \in InvoiceIds : mailed[i] <= now
    /\ \A i \in InvoiceIds :
          \/ mailed[i] = Never \/ i \in undated
          \/ \E q \in Procs : pc[q] = "mailed" /\ target[q] = i
          \/ i \in DOMAIN rows /\ rows[i].reminder \in Nat /\ rows[i].reminder >= mailed[i]

FreshInv == LinesSaved /\ CopiesFresh /\ ListsFresh /\ ListsEmpty /\ RemindedOK

\* What saving makes of a copy.
LEMMA SavedLines ==
    ASSUME NEW inv, Fit(inv), NEW row, row = Saved(inv)
    PROVE  /\ row.items \in [DOMAIN row.items -> SavedLine]
           /\ row.status = inv.status /\ row.total = inv.total
           /\ row.reminder = inv.reminder
           /\ inv.items \in [DOMAIN inv.items -> SavedLine] => row.items = inv.items
<1>1. PICK items : items = [k \in DOMAIN inv.items |-> ColumnDefaults(inv.items[k])]
      OBVIOUS
<1>2. row = [inv EXCEPT !.items = items]
      BY <1>1 DEF Saved, Fit, Shaped, IsInvoice, Fields
<1>3. /\ row.items = items /\ row.status = inv.status /\ row.total = inv.total
      /\ row.reminder = inv.reminder
      BY <1>2 DEF Fit, Shaped, IsInvoice, Fields
<1>4. \A l \in Line : ColumnDefaults(l) \in SavedLine
      BY DEF ColumnDefaults, Line, SavedLine
<1>5. items \in [DOMAIN items -> SavedLine]
      BY <1>1, <1>4 DEF Fit, Shaped, IsInvoice
<1>6. \A l \in SavedLine : ColumnDefaults(l) = l
      BY DEF ColumnDefaults, SavedLine
<1>7. inv.items \in [DOMAIN inv.items -> SavedLine] => items = inv.items
      BY <1>1, <1>6
<1>. QED BY <1>3, <1>5, <1>7

\* A command takes one step of the life cycle, and leaves the reminder alone.
LEMMA CommandOneStep ==
    ASSUME IInv, NEW p \in Procs, NEW i \in DOMAIN rows, Edit(p, i) \/ Transition(p, i)
    PROVE  \E inv : Change(p, i, inv) /\ OneStep(rows[i], inv)
<1>a. PICK row : row = rows[i] /\ Shaped(row)
      BY DEF IInv, RowsOK, Fit
<1>1. ASSUME NEW items, NEW inv, inv = WithItems(row, items), row.status = "draft"
      PROVE  OneStep(row, inv)
  <2>1. inv.status = row.status /\ inv.reminder = row.reminder
        BY <1>1, <1>a DEF WithItems, Recalculate, Shaped, IsInvoice, Fields
  <2>. QED BY <1>1, <2>1 DEF OneStep
<1>2. CASE Edit(p, i)
  <2>1. PICK items : row.status = "draft" /\ Change(p, i, WithItems(row, items))
        BY <1>2, <1>a DEF Edit, AddLineItem, UpdateLineItem, RemoveLineItem
  <2>2. PICK inv : inv = WithItems(row, items)
        OBVIOUS
  <2>. QED BY <1>1, <1>a, <2>1, <2>2
<1>3. CASE Finalize(p, i)
  <2>1. PICK mid : mid = Recalculate(row)
        OBVIOUS
  <2>2. Shaped(mid) /\ mid.reminder = row.reminder
        BY <1>3, <1>a, <2>1, RecalculateFits DEF Fit, Finalize
  <2>3. PICK inv : inv = [mid EXCEPT !.status = "finalized"]
        OBVIOUS
  <2>4. inv.status = "finalized" /\ inv.reminder = row.reminder
        BY <2>2, <2>3 DEF Shaped, IsInvoice, Fields
  <2>5. row.status = "draft" /\ Change(p, i, inv)
        BY <1>3, <1>a, <2>1, <2>3 DEF Finalize
  <2>. QED BY <1>a, <2>4, <2>5 DEF OneStep, Follows
<1>4. CASE MarkPaid(p, i)
  <2>1. PICK inv : inv = [row EXCEPT !.status = "paid", !.paidAt = TRUE]
        OBVIOUS
  <2>2. /\ inv.status = "paid" /\ inv.reminder = row.reminder
        /\ inv.items = row.items /\ inv.total = row.total
        BY <1>a, <2>1 DEF Shaped, IsInvoice, Fields
  <2>3. row.status = "finalized" /\ Change(p, i, inv)
        BY <1>4, <1>a, <2>1 DEF MarkPaid
  <2>. QED BY <1>a, <2>2, <2>3 DEF OneStep, Follows
<1>5. CASE Void(p, i)
  <2>1. PICK inv : inv = [row EXCEPT !.status = "void"]
        OBVIOUS
  <2>2. /\ inv.status = "void" /\ inv.reminder = row.reminder
        /\ inv.items = row.items /\ inv.total = row.total
        BY <1>a, <2>1 DEF Shaped, IsInvoice, Fields
  <2>3. row.status \in {"draft", "finalized"} /\ Change(p, i, inv)
        BY <1>5, <1>a, <2>1 DEF Void
  <2>. QED BY <1>a, <2>2, <2>3 DEF OneStep, Follows
<1>. QED BY <1>2, <1>3, <1>4, <1>5 DEF Transition

-----------------------------------------------------------------------------
(* Its steps *)

\* A process takes an invoice in hand, as it is stored or as it will be new.
LEMMA WorkFresh ==
    ASSUME IInv, FreshInv, NEW p \in Procs, NEW i, NEW inv, Work(p, i, inv),
           pc[p] = "idle", UNCHANGED <<rows, todo, now>>,
           i \in DOMAIN rows => OneStep(rows[i], inv)
    PROVE  FreshInv'
<1>1. ASSUME NEW q \in Procs
      PROVE  /\ pc'[q] = IF q = p THEN "saving" ELSE pc[q]
             /\ target'[q] = IF q = p THEN i ELSE target[q]
             /\ copy'[q] = IF q = p THEN inv ELSE copy[q]
      BY DEF IInv, ProcsOK, Work
<1>2. \A q, j : <<q, j>> \notin stale' => <<q, j>> \notin stale \/ (q = p /\ j = i)
      BY DEF Work
<1>3. LinesSaved'
      BY DEF FreshInv, LinesSaved
<1>4. CopiesFresh'
      BY <1>1, <1>2 DEF FreshInv, CopiesFresh
<1>5. ListsEmpty'
      BY <1>1 DEF FreshInv, ListsEmpty
<1>6. ListsFresh'
      BY <1>2 DEF FreshInv, ListsFresh, ListsEmpty
<1>7. \A j \in InvoiceIds : (\E q \in Procs : pc[q] = "mailed" /\ target[q] = j)
                               => \E q \in Procs : pc'[q] = "mailed" /\ target'[q] = j
      BY <1>1
<1>8. RemindedOK'
      BY <1>7 DEF FreshInv, RemindedOK, Work
<1>. QED BY <1>3, <1>4, <1>5, <1>6, <1>8 DEF FreshInv

\* A row is written: every other copy of it is out of date.
LEMMA WriteFresh ==
    ASSUME IInv, FreshInv, NEW p \in Procs, NEW i, i = target[p], NEW row,
           row.items \in [DOMAIN row.items -> SavedLine],
           rows' = [x \in DOMAIN rows \cup {i} |-> IF x = i THEN row ELSE rows[x]],
           Outdate(p, i), Forget(p),
           NEW stage \in {"idle", "dunning"}, pc' = [pc EXCEPT ![p] = stage],
           NEW list,
           todo' = [todo EXCEPT ![p] = list] \/ (todo' = todo /\ list = todo[p]),
           DOMAIN list \subseteq DOMAIN todo[p] \ {i},
           \A j \in DOMAIN list : list[j] = todo[p][j],
           stage = "idle" => DOMAIN list = {}
    PROVE  LinesSaved' /\ CopiesFresh' /\ ListsFresh' /\ ListsEmpty'
<1>1. ASSUME NEW q \in Procs, q # p
      PROVE  pc'[q] = pc[q] /\ target'[q] = target[q] /\ copy'[q] = copy[q] /\ todo'[q] = todo[q]
      BY <1>1 DEF IInv, ProcsOK, Forget
<1>2. pc'[p] = stage /\ todo'[p] = list
      BY DEF IInv, ProcsOK
<1>3. /\ \A j : j # i => \A q : <<q, j>> \in stale => <<q, j>> \in stale'
      /\ \A q \in Procs : q # p /\ (i \in DOMAIN todo[q] \/ i = target[q]) => <<q, i>> \in stale'
      BY DEF Outdate
<1>4. /\ DOMAIN rows' = DOMAIN rows \cup {i} /\ rows'[i] = row
      /\ \A j \in DOMAIN rows : j # i => rows'[j] = rows[j]
      OBVIOUS
<1>5. LinesSaved'
      BY <1>4 DEF FreshInv, LinesSaved
<1>6. CopiesFresh'
  <2>. SUFFICES ASSUME NEW q \in Procs, pc'[q] = "saving", target'[q] \in DOMAIN rows',
                       <<q, target'[q]>> \notin stale'
                PROVE  OneStep(rows'[target'[q]], copy'[q])
       BY DEF CopiesFresh
  <2>1. q # p
        BY <1>2
  <2>2. target[q] # i
        BY <1>1, <1>3, <2>1
  <2>3. rows'[target[q]] = rows[target[q]] /\ target[q] \in DOMAIN rows
        BY <1>1, <1>4, <2>1, <2>2
  <2>. QED BY <1>1, <1>3, <2>1, <2>2, <2>3 DEF FreshInv, CopiesFresh
<1>7. ListsFresh'
  <2>. SUFFICES ASSUME NEW q \in Procs, NEW j \in DOMAIN todo'[q], <<q, j>> \notin stale'
                PROVE  todo'[q][j] = rows'[j]
       BY DEF ListsFresh
  <2>1. j \in DOMAIN todo[q] /\ todo'[q][j] = todo[q][j] /\ j \in DOMAIN rows
        BY <1>1, <1>2 DEF IInv, ProcsOK, ListOK
  <2>2. j # i
        BY <1>1, <1>2, <1>3, <2>1
  <2>. QED BY <1>3, <1>4, <2>1, <2>2 DEF FreshInv, ListsFresh
<1>8. ListsEmpty'
      BY <1>1, <1>2 DEF FreshInv, ListsEmpty
<1>. QED BY <1>5, <1>6, <1>7, <1>8

\* An up-to-date copy brings the reminder of the row along, and one that is not
\* leaves the invoice undated.
LEMMA StoreFresh ==
    ASSUME IInv, FreshInv, NEW p \in Procs, Store(p)
    PROVE  FreshInv'
<1>1. PICK i \in InvoiceIds : i = target[p]
      BY DEF IInv, ProcsOK
<1>2. PICK row : row = Saved(copy[p])
      OBVIOUS
<1>3. Fit(copy[p]) /\ pc[p] = "saving" /\ DOMAIN todo[p] = {}
      BY DEF IInv, ProcsOK, Store, FreshInv, ListsEmpty
<1>4. /\ row.items \in [DOMAIN row.items -> SavedLine]
      /\ row.reminder = copy[p].reminder
      BY <1>2, <1>3, SavedLines
<1>5. /\ rows' = [x \in DOMAIN rows \cup {i} |-> IF x = i THEN row ELSE rows[x]]
      /\ pc' = [pc EXCEPT ![p] = "idle"] /\ Forget(p) /\ Outdate(p, i)
      /\ undated' = undated \cup {x \in {i} : <<p, x>> \in stale}
      /\ UNCHANGED <<todo, now, mailed>>
      BY <1>1, <1>2 DEF Store
<1>6. LinesSaved' /\ CopiesFresh' /\ ListsFresh' /\ ListsEmpty'
  <2>1. PICK list : list = todo[p]
        OBVIOUS
  <2>2. PICK stage \in {"idle", "dunning"} : stage = "idle"
        OBVIOUS
  <2>3. DOMAIN list = {} /\ DOMAIN list \subseteq DOMAIN todo[p] \ {i}
        BY <1>3, <2>1
  <2>. QED BY <1>1, <1>4, <1>5, <2>1, <2>2, <2>3, WriteFresh
<1>7. ASSUME NEW x \in InvoiceIds, mailed'[x] # Never, x \notin undated',
             \A q \in Procs : ~(pc'[q] = "mailed" /\ target'[q] = x)
      PROVE  x \in DOMAIN rows' /\ rows'[x].reminder \in Nat /\ rows'[x].reminder >= mailed'[x]
  <2>1. \A q \in Procs : ~(pc[q] = "mailed" /\ target[q] = x)
        BY <1>3, <1>5, <1>7 DEF IInv, ProcsOK, Forget
  <2>2. x \in DOMAIN rows /\ rows[x].reminder \in Nat /\ rows[x].reminder >= mailed[x]
        BY <1>5, <1>7, <2>1 DEF FreshInv, RemindedOK
  <2>3. CASE x # i
        BY <1>5, <2>2, <2>3
  <2>4. CASE x = i
    <3>1. OneStep(rows[i], copy[p])
          BY <1>1, <1>3, <1>5, <1>7, <2>2, <2>4 DEF FreshInv, CopiesFresh
    <3>2. rows'[x].reminder = rows[x].reminder
          BY <1>4, <1>5, <2>4, <3>1 DEF OneStep
    <3>. QED BY <1>5, <2>2, <3>2
  <2>. QED BY <2>3, <2>4
<1>8. RemindedOK'
      BY <1>5, <1>7 DEF FreshInv, RemindedOK
<1>. QED BY <1>6, <1>8 DEF FreshInv

\* What the run saves is the row as listed, with the date of its mail.
LEMMA DunningSaveFresh ==
    ASSUME IInv, FreshInv, NEW p \in Procs, DunningSave(p)
    PROVE  FreshInv'
<1>1. PICK i \in InvoiceIds : i = target[p]
      BY DEF IInv, ProcsOK
<1>2. PICK inv : inv = [todo[p][i] EXCEPT !.reminder = now]
      OBVIOUS
<1>3. PICK row : row = Saved(inv)
      OBVIOUS
<1>4. i \in DOMAIN todo[p] /\ pc[p] = "mailed" /\ i \in DOMAIN rows /\ Fit(todo[p][i])
      BY <1>1 DEF DunningSave, IInv, ProcsOK, ListOK
<1>5. Fit(inv) /\ inv.reminder = now
  <2>1. /\ Shaped(inv) /\ inv.reminder = now /\ inv.items = todo[p][i].items
        /\ inv.status = todo[p][i].status
        /\ inv.sub = todo[p][i].sub /\ inv.vat = todo[p][i].vat
        /\ inv.total = todo[p][i].total
    <3>1. todo[p][i].status # "draft"
          BY <1>4 DEF IInv, ProcsOK, ListOK
    <3>. QED BY <1>2, <1>4, <3>1 DEF Fit, Shaped, IsInvoice, Fields, IInv, CountersOK
  <2>2. PricesFit(inv)
        BY <1>4, <2>1 DEF Fit, PricesFit
  <2>. QED BY <1>4, <2>1, <2>2, SameAmountsFit
<1>6. row.items \in [DOMAIN row.items -> SavedLine] /\ row.reminder = now
      BY <1>3, <1>5, SavedLines
<1>7. /\ rows' = [x \in DOMAIN rows \cup {i} |-> IF x = i THEN row ELSE rows[x]]
      /\ AfterInvoice(p, i) /\ Forget(p) /\ Outdate(p, i)
      /\ undated' = undated \ {i} /\ UNCHANGED <<now, mailed>>
      BY <1>1, <1>2, <1>3, <1>4 DEF DunningSave
<1>8. PICK list : list = Restrict(todo[p], DOMAIN todo[p] \ {i})
      OBVIOUS
<1>9. /\ DOMAIN list = DOMAIN todo[p] \ {i} /\ \A j \in DOMAIN list : list[j] = todo[p][j]
      /\ todo' = [todo EXCEPT ![p] = list]
  <2>1. todo' = [todo EXCEPT ![p] = list]
        BY <1>7, <1>8 DEF AfterInvoice, Without, IInv, ProcsOK
  <2>. QED BY <1>8, <2>1 DEF Restrict
<1>10. PICK stage \in {"idle", "dunning"} :
          pc' = [pc EXCEPT ![p] = stage] /\ (stage = "idle" => DOMAIN todo[p] = {i})
  <2>1. AfterInvoice(p, i)
        BY <1>7
  <2>. QED BY <2>1 DEF AfterInvoice
<1>11. LinesSaved' /\ CopiesFresh' /\ ListsFresh' /\ ListsEmpty'
  <2>1. DOMAIN list \subseteq DOMAIN todo[p] \ {i} /\ (stage = "idle" => DOMAIN list = {})
        BY <1>9, <1>10
  <2>2. Outdate(p, i) /\ Forget(p)
        BY <1>7
  <2>3. rows' = [x \in DOMAIN rows \cup {i} |-> IF x = i THEN row ELSE rows[x]]
        BY <1>7
  <2>4. row.items \in [DOMAIN row.items -> SavedLine]
        BY <1>6
  <2>5. pc' = [pc EXCEPT ![p] = stage]
        BY <1>10
  <2>6. todo' = [todo EXCEPT ![p] = list] \/ (todo' = todo /\ list = todo[p])
        BY <1>9
  <2>7. \A j \in DOMAIN list : list[j] = todo[p][j]
        BY <1>9
  <2>8. stage \in {"idle", "dunning"}
        BY <1>10
  <2>. QED BY <1>1, <2>1, <2>2, <2>3, <2>4, <2>5, <2>6, <2>7, <2>8, WriteFresh
<1>12. ASSUME NEW x \in InvoiceIds, mailed'[x] # Never, x \notin undated',
              \A q \in Procs : ~(pc'[q] = "mailed" /\ target'[q] = x)
       PROVE  x \in DOMAIN rows' /\ rows'[x].reminder \in Nat /\ rows'[x].reminder >= mailed'[x]
  <2>1. CASE x = i
    <3>1. rows'[x].reminder = now /\ x \in DOMAIN rows'
          BY <1>6, <1>7, <2>1
    <3>2. mailed'[x] <= now /\ now \in Nat
          BY <1>7 DEF FreshInv, RemindedOK, IInv, CountersOK
    <3>3. mailed'[x] \in Int
          BY <1>7 DEF FreshInv, RemindedOK
    <3>. QED BY <3>1, <3>2, <3>3
  <2>2. CASE x # i
    <3>1. \A q \in Procs : ~(pc[q] = "mailed" /\ target[q] = x)
          BY <1>1, <1>7, <1>10, <1>12, <2>2 DEF IInv, ProcsOK, Forget
    <3>2. x \in DOMAIN rows /\ rows[x].reminder \in Nat /\ rows[x].reminder >= mailed[x]
          BY <1>7, <1>12, <2>2, <3>1 DEF FreshInv, RemindedOK
    <3>. QED BY <1>7, <2>2, <3>2
  <2>. QED BY <2>1, <2>2
<1>13. RemindedOK'
      BY <1>7, <1>12 DEF FreshInv, RemindedOK
<1>. QED BY <1>11, <1>13 DEF FreshInv

\* The run lists the rows as they are.
LEMMA DunningStartFresh ==
    ASSUME IInv, FreshInv, NEW p \in Procs, DunningStart(p)
    PROVE  FreshInv'
<1>1. PICK list : list = Restrict(rows, ListOverdue)
      OBVIOUS
<1>2. /\ todo' = [todo EXCEPT ![p] = list] /\ pc' = [pc EXCEPT ![p] = "dunning"]
      /\ stale' = {s \in stale : s[1] # p} /\ pc[p] = "idle"
      /\ UNCHANGED <<rows, target, copy, now, mailed, undated>>
      BY <1>1 DEF DunningStart
<1>3. \A j \in DOMAIN list : list[j] = rows[j]
      BY <1>1 DEF Restrict
<1>4. \A q, j : q # p /\ <<q, j>> \in stale => <<q, j>> \in stale'
      BY <1>2
<1>5. \A q \in Procs : /\ q # p => pc'[q] = pc[q] /\ todo'[q] = todo[q]
                       /\ pc'[p] = "dunning" /\ todo'[p] = list
      BY <1>2 DEF IInv, ProcsOK
<1>6. LinesSaved' /\ CopiesFresh' /\ ListsEmpty'
      BY <1>2, <1>4, <1>5 DEF FreshInv, LinesSaved, CopiesFresh, ListsEmpty
<1>7. ListsFresh'
      BY <1>2, <1>3, <1>4, <1>5 DEF FreshInv, ListsFresh
<1>8. RemindedOK'
      BY <1>2, <1>5 DEF FreshInv, RemindedOK
<1>. QED BY <1>6, <1>7, <1>8 DEF FreshInv

\* A step that writes no row and makes no list: what it takes from the list of
\* p, and what it leaves undated.
LEMMA QuietFresh ==
    ASSUME IInv, FreshInv, NEW p \in Procs,
           NEW stage \in {"idle", "dunning", "mailed"}, pc' = [pc EXCEPT ![p] = stage],
           \A q \in Procs \ {p} : target'[q] = target[q] /\ copy'[q] = copy[q],
           NEW list,
           todo' = [todo EXCEPT ![p] = list] \/ (todo' = todo /\ list = todo[p]),
           DOMAIN list \subseteq DOMAIN todo[p],
           \A j \in DOMAIN list : list[j] = todo[p][j],
           stage = "idle" => DOMAIN list = {},
           UNCHANGED <<rows, stale>>
    PROVE  LinesSaved' /\ CopiesFresh' /\ ListsFresh' /\ ListsEmpty'
<1>1. ASSUME NEW q \in Procs, q # p
      PROVE  pc'[q] = pc[q] /\ target'[q] = target[q] /\ copy'[q] = copy[q] /\ todo'[q] = todo[q]
      BY <1>1 DEF IInv, ProcsOK
<1>2. pc'[p] = stage /\ todo'[p] = list
      BY DEF IInv, ProcsOK
<1>3. LinesSaved' /\ CopiesFresh'
      BY <1>1, <1>2 DEF FreshInv, LinesSaved, CopiesFresh
<1>4. ListsFresh' /\ ListsEmpty'
      BY <1>1, <1>2 DEF FreshInv, ListsFresh, ListsEmpty
<1>. QED BY <1>3, <1>4

LEMMA DunningSkipFresh ==
    ASSUME IInv, FreshInv, NEW p \in Procs, NEW i, DunningSkip(p, i)
    PROVE  FreshInv'
<1>1. PICK list : list = Restrict(todo[p], DOMAIN todo[p] \ {i})
      OBVIOUS
<1>2. /\ todo' = [todo EXCEPT ![p] = list] /\ pc[p] = "dunning"
      /\ UNCHANGED <<rows, target, copy, now, mailed, stale, undated>>
      BY <1>1 DEF DunningSkip, AfterInvoice, Without, IInv, ProcsOK, history
<1>3. DOMAIN list = DOMAIN todo[p] \ {i} /\ \A j \in DOMAIN list : list[j] = todo[p][j]
      BY <1>1 DEF Restrict
<1>4. PICK stage \in {"idle", "dunning", "mailed"} :
         /\ pc' = [pc EXCEPT ![p] = stage] /\ stage # "mailed"
         /\ stage = "idle" => DOMAIN todo[p] = {i}
      BY DEF DunningSkip, AfterInvoice
<1>5. LinesSaved' /\ CopiesFresh' /\ ListsFresh' /\ ListsEmpty'
      BY <1>2, <1>3, <1>4, QuietFresh
<1>6. \A q \in Procs : pc[q] = "mailed" => pc'[q] = "mailed"
      BY <1>2, <1>4 DEF IInv, ProcsOK
<1>7. RemindedOK'
      BY <1>2, <1>6 DEF FreshInv, RemindedOK
<1>. QED BY <1>5, <1>7 DEF FreshInv

LEMMA DunningMailFresh ==
    ASSUME IInv, FreshInv, NEW p \in Procs, NEW i \in InvoiceIds, DunningMail(p, i)
    PROVE  FreshInv'
<1>1. /\ pc[p] = "dunning" /\ pc' = [pc EXCEPT ![p] = "mailed"]
      /\ target' = [target EXCEPT ![p] = i] /\ mailed' = [mailed EXCEPT ![i] = now]
      /\ UNCHANGED <<rows, copy, todo, now, stale, undated>>
      BY DEF DunningMail
<1>2. /\ pc'[p] = "mailed" /\ target'[p] = i
      /\ \A q \in Procs \ {p} : pc'[q] = pc[q] /\ target'[q] = target[q]
      BY <1>1 DEF IInv, ProcsOK
<1>3. LinesSaved' /\ CopiesFresh'
      BY <1>1, <1>2 DEF FreshInv, LinesSaved, CopiesFresh
<1>4. ListsFresh' /\ ListsEmpty'
      BY <1>1, <1>2 DEF FreshInv, ListsFresh, ListsEmpty
<1>5. ASSUME NEW x \in InvoiceIds, x # i
      PROVE  (\E q \in Procs : pc[q] = "mailed" /\ target[q] = x)
                 => \E q \in Procs : pc'[q] = "mailed" /\ target'[q] = x
      BY <1>1, <1>2
<1>6. now \in Int
      BY DEF IInv, CountersOK
<1>7. RemindedOK'
  <2>1. mailed' \in [InvoiceIds -> Int] /\ \A x \in InvoiceIds : mailed'[x] <= now'
        BY <1>1, <1>6 DEF FreshInv, RemindedOK
  <2>2. ASSUME NEW x \in InvoiceIds
        PROVE  \/ mailed'[x] = Never \/ x \in undated'
               \/ \E q \in Procs : pc'[q] = "mailed" /\ target'[q] = x
               \/ x \in DOMAIN rows' /\ rows'[x].reminder \in Nat
                     /\ rows'[x].reminder >= mailed'[x]
    <3>1. CASE x = i
          BY <1>2, <3>1
    <3>2. CASE x # i
          BY <1>1, <1>5, <3>2 DEF FreshInv, RemindedOK
    <3>. QED BY <3>1, <3>2
  <2>. QED BY <2>1, <2>2 DEF RemindedOK
<1>. QED BY <1>3, <1>4, <1>7 DEF FreshInv

\* A mail whose date is not saved leaves its invoice undated.
LEMMA FailureFresh ==
    ASSUME IInv, FreshInv, NEW p \in Procs, DunningSaveFails(p) \/ GiveUp(p)
    PROVE  FreshInv'
<1>1. /\ Forget(p) /\ UNCHANGED <<rows, now, mailed, stale>>
      /\ undated \subseteq undated' /\ (pc[p] = "mailed" => target[p] \in undated')
      BY DEF DunningSaveFails, GiveUp
<1>2. \A q \in Procs \ {p} : target'[q] = target[q] /\ copy'[q] = copy[q]
      BY <1>1 DEF Forget, IInv, ProcsOK
<1>3. \E stage \in {"idle", "dunning", "mailed"} : \E list :
         /\ pc' = [pc EXCEPT ![p] = stage] /\ stage # "mailed"
         /\ todo' = [todo EXCEPT ![p] = list]
         /\ DOMAIN list \subseteq DOMAIN todo[p]
         /\ \A j \in DOMAIN list : list[j] = todo[p][j]
         /\ stage = "idle" => DOMAIN list = {}
  <2>1. CASE GiveUp(p)
    <3>1. PICK list : list = Restrict(todo[p], {})
          OBVIOUS
    <3>2. DOMAIN list = {}
          BY <3>1 DEF Restrict
    <3>3. todo' = [todo EXCEPT ![p] = list] /\ pc' = [pc EXCEPT ![p] = "idle"]
          BY <2>1, <3>1 DEF GiveUp, IInv, ProcsOK
    <3>. QED BY <3>2, <3>3
  <2>2. CASE DunningSaveFails(p)
    <3>1. PICK i : i = target[p]
          OBVIOUS
    <3>2. PICK list : list = Restrict(todo[p], DOMAIN todo[p] \ {i})
          OBVIOUS
    <3>3. DOMAIN list = DOMAIN todo[p] \ {i} /\ \A j \in DOMAIN list : list[j] = todo[p][j]
          BY <3>2 DEF Restrict
    <3>4. todo' = [todo EXCEPT ![p] = list]
          BY <2>2, <3>1, <3>2 DEF DunningSaveFails, AfterInvoice, Without, IInv, ProcsOK
    <3>5. PICK stage \in {"idle", "dunning"} :
             pc' = [pc EXCEPT ![p] = stage] /\ (stage = "idle" => DOMAIN todo[p] = {i})
          BY <2>2, <3>1 DEF DunningSaveFails, AfterInvoice
    <3>. QED BY <3>3, <3>4, <3>5
  <2>. QED BY <2>1, <2>2
<1>4. LinesSaved' /\ CopiesFresh' /\ ListsFresh' /\ ListsEmpty'
      BY <1>1, <1>2, <1>3, QuietFresh
<1>5. \A q \in Procs \ {p} : pc'[q] = pc[q]
      BY <1>3 DEF IInv, ProcsOK
<1>6. \A x \in InvoiceIds : (\E q \in Procs : pc[q] = "mailed" /\ target[q] = x)
          => x \in undated' \/ \E q \in Procs : pc'[q] = "mailed" /\ target'[q] = x
      BY <1>1, <1>2, <1>5
<1>7. RemindedOK'
      BY <1>1, <1>6 DEF FreshInv, RemindedOK
<1>. QED BY <1>4, <1>7 DEF FreshInv

LEMMA FreshInit == Init => FreshInv
BY DEF Init, FreshInv, LinesSaved, CopiesFresh, ListsFresh, ListsEmpty, RemindedOK, Never

LEMMA FreshKept == IInv /\ FreshInv /\ [Next]_vars => FreshInv'
<1>. SUFFICES ASSUME IInv, FreshInv, [Next]_vars PROVE FreshInv'
     OBVIOUS
<1>1. ASSUME NEW p \in Procs, NEW i \in InvoiceIds, CreateInvoice(p, i) \/ Generate(p, i)
      PROVE  FreshInv'
  <2>1. PICK items, due : Create(p, i, items, due)
        BY <1>1 DEF CreateInvoice, Generate
  <2>2. PICK inv : Work(p, i, inv)
        BY <2>1 DEF Create
  <2>3. i \notin DOMAIN rows /\ pc[p] = "idle" /\ UNCHANGED <<rows, todo, now>>
        BY <2>1 DEF Create
  <2>. QED BY <2>2, <2>3, WorkFresh
<1>2. ASSUME NEW p \in Procs, NEW i \in DOMAIN rows, Edit(p, i) \/ Transition(p, i)
      PROVE  FreshInv'
  <2>1. PICK inv : Change(p, i, inv) /\ OneStep(rows[i], inv)
        BY <1>2, CommandOneStep
  <2>. QED BY <2>1, WorkFresh DEF Change
<1>3. ASSUME NEW p \in Procs, Dunning(p) PROVE FreshInv'
      BY <1>3, DunningStartFresh, DunningSkipFresh, DunningMailFresh, DunningSaveFresh
      DEF Dunning
<1>4. ASSUME NEW p \in Procs, Store(p) PROVE FreshInv'
      BY <1>4, StoreFresh
<1>5. ASSUME NEW p \in Procs, DunningSaveFails(p) \/ GiveUp(p) PROVE FreshInv'
      BY <1>5, FailureFresh
<1>6. CASE Tick \/ UNCHANGED vars
  <2>1. /\ UNCHANGED <<rows, pc, target, copy, todo, mailed, stale, undated>>
        /\ now' >= now /\ now' \in Int /\ now \in Int
        BY <1>6 DEF Tick, vars, procVars, history, IInv, CountersOK
  <2>2. LinesSaved' /\ CopiesFresh' /\ ListsFresh' /\ ListsEmpty'
        BY <2>1 DEF FreshInv, LinesSaved, CopiesFresh, ListsFresh, ListsEmpty
  <2>3. RemindedOK'
        BY <2>1 DEF FreshInv, RemindedOK
  <2>. QED BY <2>2, <2>3 DEF FreshInv
<1>. QED BY <1>1, <1>2, <1>3, <1>4, <1>5, <1>6 DEF Next, Step

LEMMA FreshAlways == Spec => [](IInv /\ FreshInv)
<1>1. Init => IInv /\ FreshInv
      BY InitHolds, FreshInit
<1>2. IInv /\ FreshInv /\ [Next]_vars => IInv' /\ FreshInv'
      BY NextHolds, FreshKept
<1>. QED BY <1>1, <1>2, PTL DEF Spec

-----------------------------------------------------------------------------
(* What only an out-of-date copy can break *)

\* Whatever else is under way, a save from an up-to-date copy moves an invoice
\* along its life cycle, and leaves the lines and the total of one that was
\* sent out as they were (invoice.go:157).
THEOREM LifecycleKept == Spec => Lifecycle
<1>1. ASSUME IInv, FreshInv, NEW p \in Procs, NEW i \in DOMAIN rows, target[p] = i,
             <<p, i>> \notin stale, Store(p) \/ DunningSave(p)
      PROVE  /\ \/ rows'[i].status = rows[i].status
                \/ <<rows[i].status, rows'[i].status>> \in Follows
             /\ rows[i].status # "draft" =>
                   rows'[i].items = rows[i].items /\ rows'[i].total = rows[i].total
  <2>a. rows[i].items \in [DOMAIN rows[i].items -> SavedLine]
        BY <1>1 DEF FreshInv, LinesSaved
  <2>1. CASE Store(p)
    <3>1. OneStep(rows[i], copy[p])
          BY <1>1, <2>1 DEF Store, FreshInv, CopiesFresh
    <3>2. PICK row : row = Saved(copy[p])
          OBVIOUS
    <3>3. Fit(copy[p])
          BY <1>1 DEF IInv, ProcsOK
    <3>4. rows'[i] = row
          BY <1>1, <2>1, <3>2 DEF Store
    <3>5. row.status = copy[p].status /\ row.total = copy[p].total
          BY <3>2, <3>3, SavedLines
    <3>6. copy[p].items \in [DOMAIN copy[p].items -> SavedLine] => row.items = copy[p].items
          BY <3>2, <3>3, SavedLines
    <3>7. rows[i].status # "draft" => row.items = rows[i].items
          BY <2>a, <3>1, <3>6 DEF OneStep
    <3>. QED BY <3>1, <3>4, <3>5, <3>7 DEF OneStep
  <2>2. CASE DunningSave(p)
    <3>1. PICK inv : inv = [todo[p][i] EXCEPT !.reminder = now]
          OBVIOUS
    <3>2. PICK row : row = Saved(inv)
          OBVIOUS
    <3>3. i \in DOMAIN todo[p] /\ todo[p][i] = rows[i] /\ Fit(rows[i])
          BY <1>1, <2>2 DEF DunningSave, IInv, RowsOK, ProcsOK, FreshInv, ListsFresh
    <3>4. /\ inv.status = rows[i].status /\ inv.items = rows[i].items
          /\ inv.total = rows[i].total
          BY <3>1, <3>3 DEF Fit, Shaped, IsInvoice, Fields
    <3>5. Fit(inv)
      <4>1. rows[i].status # "draft"
            BY <1>1, <3>3 DEF IInv, ProcsOK, ListOK
      <4>2. Shaped(inv) /\ inv.sub = rows[i].sub /\ inv.vat = rows[i].vat
            BY <1>1, <3>1, <3>3, <4>1 DEF Fit, Shaped, IsInvoice, Fields, IInv, CountersOK
      <4>3. PricesFit(inv)
            BY <3>3, <3>4 DEF Fit, PricesFit
      <4>. QED BY <3>3, <3>4, <4>2, <4>3, SameAmountsFit
    <3>6. row.status = inv.status /\ row.total = inv.total /\ row.items = inv.items
          BY <2>a, <3>2, <3>4, <3>5, SavedLines
    <3>7. rows'[i] = row
          BY <1>1, <2>2, <3>1, <3>2 DEF DunningSave
    <3>. QED BY <3>4, <3>6, <3>7
  <2>. QED BY <1>1, <2>1, <2>2
<1>2. IInv /\ FreshInv =>
         [\A p \in Procs, i \in DOMAIN rows :
            (Store(p) \/ DunningSave(p)) /\ target[p] = i /\ <<p, i>> \notin stale =>
              /\ \/ rows'[i].status = rows[i].status
                 \/ <<rows[i].status, rows'[i].status>> \in Follows
              /\ rows[i].status # "draft" =>
                    rows'[i].items = rows[i].items /\ rows'[i].total = rows[i].total]_vars
      BY <1>1
<1>. QED BY <1>2, FreshAlways, PTL DEF Lifecycle

\* A customer is not reminded twice within the interval by a run whose list is
\* up to date, unless the date of the first reminder is lost or still on its
\* way to the row (invoice.go:214).
THEOREM RemindersKeptApart == Spec => RemindersApart
<1>1. ASSUME IInv, FreshInv, NEW p \in Procs, NEW i \in InvoiceIds, DunningMail(p, i)
      PROVE  \/ mailed[i] = Never \/ now - mailed[i] >= Interval
             \/ i \in undated \/ <<p, i>> \in stale
             \/ \E q \in Procs : pc[q] = "mailed" /\ target[q] = i
  <2>. SUFFICES ASSUME mailed[i] # Never, i \notin undated, <<p, i>> \notin stale,
                       ~\E q \in Procs : pc[q] = "mailed" /\ target[q] = i
                PROVE  now - mailed[i] >= Interval
       OBVIOUS
  <2>1. PICK r \in Nat, m \in Int :
            r = rows[i].reminder /\ m = mailed[i] /\ r >= m
        BY <1>1 DEF FreshInv, RemindedOK
  <2>2. todo[p][i] = rows[i]
        BY <1>1 DEF DunningMail, FreshInv, ListsFresh
  <2>3. r = Never \/ now - r >= Interval
        BY <1>1, <2>1, <2>2 DEF DunningMail, NeedsReminder
  <2>4. r # Never /\ now \in Int /\ Interval \in Int
        BY <1>1, <2>1, TimeAssumption DEF Never, IInv, CountersOK
  <2>. QED BY <2>1, <2>3, <2>4
<1>2. IInv /\ FreshInv =>
         [\A p \in Procs, i \in InvoiceIds :
            DunningMail(p, i) =>
              \/ mailed[i] = Never \/ now - mailed[i] >= Interval
              \/ i \in undated \/ <<p, i>> \in stale
              \/ \E q \in Procs : pc[q] = "mailed" /\ target[q] = i]_vars
      BY <1>1
<1>. QED BY <1>2, FreshAlways, PTL DEF RemindersApart
==============================================================================
