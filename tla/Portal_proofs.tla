---------------------------- MODULE Portal_proofs ----------------------------
(***************************************************************************)
(* Proofs about what the portal's bridge serves.                           *)
(* First the money, PrepaidBalance and PortalPurchase, for any customers,  *)
(* sessions, amounts, plans and requests: what the balance keeps whoever   *)
(* credits and deducts; that the portal, the webhooks and the bridge only  *)
(* ever take steps of the balance, so that all of it holds for them too;   *)
(* then what the composition adds.                                         *)
(* At the end the chat, SupportChat, for any sessions, staff and requests. *)
(***************************************************************************)
EXTENDS PortalPurchase, SupportChat, SumTheorems, TLAPS

-----------------------------------------------------------------------------
(* What one step is *)

\* Every step of the component is a credit or a covered deduction.
LEMMA StepCases ==
    ASSUME Next
    PROVE  \E c \in Customers, type \in EntryTypes :
              \/ \E a \in Amounts \cup {0}, s \in Sessions \cup {NoSession} :
                    (a = 0 => s = NoSession) /\ Credit(c, a, type, s)
              \/ \E a \in Amounts : Deduct(c, a, type)
<1>. USE AmountAssumption DEF EntryTypes
<1>1. PICK c \in Customers :
          \/ \E a \in Amounts, s \in Sessions : TopUp(c, a, s)
          \/ \E a \in Amounts : DeductForVM(c, a)
          \/ \E d \in Adjustments : Adjust(c, d)
      BY DEF Next
<1>2. CASE \E a \in Amounts, s \in Sessions : TopUp(c, a, s)
      BY <1>2 DEF TopUp
<1>3. CASE \E a \in Amounts : DeductForVM(c, a)
      BY <1>3 DEF DeductForVM
<1>4. ASSUME NEW d \in Adjustments, Adjust(c, d)
      PROVE  \/ \E a \in Amounts \cup {0} : Credit(c, a, "topup", NoSession)
             \/ \E a \in Amounts : Deduct(c, a, "adjustment")
  <2>1. CASE d >= 0 /\ TopUp(c, d, NoSession)
    <3>1. d \in Amounts \cup {0}
          BY <1>4, <2>1 DEF Adjustments
    <3>. QED BY <2>1, <3>1 DEF TopUp
  <2>2. CASE d < 0 /\ Deduct(c, -d, "adjustment")
    <3>1. -d \in Amounts
          BY <1>4, <2>2 DEF Adjustments
    <3>. QED BY <2>2, <3>1
  <2>. QED BY <1>4, <2>1, <2>2 DEF Adjust
<1>. QED BY <1>1, <1>2, <1>3, <1>4

\* What a credit leaves behind, in terms of the balances.
LEMMA CreditBalance ==
    ASSUME TypeOK, NEW c \in Customers, NEW a \in Int, NEW type, NEW s,
           Credit(c, a, type, s)
    PROVE  /\ DOMAIN balance' = DOMAIN balance \cup {c}
           /\ GetBalance(c)' = GetBalance(c) + a
           /\ \A x \in Customers \ {c} : GetBalance(x)' = GetBalance(x)
BY DEF Credit, Upsert, GetBalance, TypeOK

\* What a deduction leaves behind: it was covered.
LEMMA DeductBalance ==
    ASSUME TypeOK, NEW c \in Customers, NEW a \in Int, NEW type,
           Deduct(c, a, type)
    PROVE  /\ DOMAIN balance' = DOMAIN balance
           /\ c \in DOMAIN balance
           /\ GetBalance(c) >= a
           /\ GetBalance(c)' = GetBalance(c) - a
           /\ \A x \in Customers \ {c} : GetBalance(x)' = GetBalance(x)
BY DEF Deduct, CanDeduct, GetBalance, TypeOK

\* Both transactions append one entry.
LEMMA AppendEntry ==
    ASSUME ledger \in Seq(Entry), NEW e \in Entry, ledger' = Append(ledger, e)
    PROVE  /\ ledger' \in Seq(Entry)
           /\ Len(ledger') = Len(ledger) + 1
           /\ ledger'[Len(ledger) + 1] = e
           /\ \A i \in DOMAIN ledger : ledger'[i] = ledger[i]
           /\ DOMAIN ledger' = DOMAIN ledger \cup {Len(ledger) + 1}
           /\ DOMAIN ledger = 1..Len(ledger)
OBVIOUS

-----------------------------------------------------------------------------
(* Type correctness: a cached balance is a natural number *)

LEMMA CreditKeepsType ==
    ASSUME TypeOK, NEW c \in Customers, NEW a \in Nat, NEW type \in EntryTypes,
           NEW s \in Sessions \cup {NoSession}, Credit(c, a, type, s)
    PROVE  TypeOK'
<1>1. ledger' \in Seq(Entry)
      BY DEF Credit, Entry, TypeOK
<1>2. balance' \in [DOMAIN balance' -> Nat] /\ DOMAIN balance' \subseteq Customers
      BY DEF Credit, Upsert, GetBalance, TypeOK
<1>. QED BY <1>1, <1>2 DEF TypeOK

LEMMA DeductKeepsType ==
    ASSUME TypeOK, NEW c \in Customers, NEW a \in Nat, NEW type \in EntryTypes,
           Deduct(c, a, type)
    PROVE  TypeOK'
<1>1. ledger' \in Seq(Entry)
      BY DEF Deduct, Entry, TypeOK
<1>2. balance' \in [DOMAIN balance' -> Nat] /\ DOMAIN balance' \subseteq Customers
      BY DEF Deduct, CanDeduct, TypeOK
<1>. QED BY <1>1, <1>2 DEF TypeOK

LEMMA StepKeepsType == TypeOK /\ [Next]_billingVars => TypeOK'
<1>. SUFFICES ASSUME TypeOK, [Next]_billingVars PROVE TypeOK'
     OBVIOUS
<1>1. CASE Next
  <2>1. PICK c \in Customers, type \in EntryTypes :
            \/ \E a \in Amounts \cup {0}, s \in Sessions \cup {NoSession} :
                  Credit(c, a, type, s)
            \/ \E a \in Amounts : Deduct(c, a, type)
        BY <1>1, StepCases
  <2>. QED BY <2>1, CreditKeepsType, DeductKeepsType, AmountAssumption
<1>2. CASE UNCHANGED billingVars
      BY <1>2 DEF billingVars, TypeOK
<1>. QED BY <1>1, <1>2

\* The cached balance of every customer is a natural number in every reachable
\* state: Credit only adds, Deduct checks inside its transaction.
THEOREM TypeCorrect == Spec => []TypeOK
<1>1. Init => TypeOK
      BY DEF Init, TypeOK
<1>. QED BY <1>1, StepKeepsType, PTL DEF Spec

-----------------------------------------------------------------------------
(* A step, seen as the ledger entry it appends *)

Records(e) ==
    /\ ledger' = Append(ledger, e)
    /\ SessionFree(e.session)
    /\ DOMAIN balance' = DOMAIN balance \cup {e.customer}
    /\ \A c \in Customers : GetBalance(c)' = GetBalance(c) + Effect(e, c)

\* Ledger and balance move together: the entry is what the balance changes by.
LEMMA CreditRecords ==
    ASSUME TypeOK, NEW c \in Customers, NEW a \in Nat, NEW type \in EntryTypes,
           NEW s \in Sessions \cup {NoSession}, Credit(c, a, type, s),
           NEW e, e = [customer |-> c, type |-> type, amount |-> a, session |-> s]
    PROVE  e \in Entry /\ Records(e)
<1>1. e \in Entry
      BY DEF Entry
<1>2. ledger' = Append(ledger, e) /\ SessionFree(e.session)
      BY DEF Credit
<1>3. /\ DOMAIN balance' = DOMAIN balance \cup {c}
      /\ GetBalance(c)' = GetBalance(c) + a
      /\ \A x \in Customers \ {c} : GetBalance(x)' = GetBalance(x)
  <2>1. a \in Int
        OBVIOUS
  <2>. QED BY <2>1, CreditBalance
<1>4. \A x \in Customers : GetBalance(x) \in Int
      BY DEF GetBalance, TypeOK
<1>5. \A x \in Customers : GetBalance(x)' = GetBalance(x) + Effect(e, x)
      BY <1>3, <1>4 DEF Effect
<1>. QED BY <1>1, <1>2, <1>3, <1>5 DEF Records

LEMMA DeductRecords ==
    ASSUME TypeOK, NEW c \in Customers, NEW a \in Nat, NEW type \in EntryTypes,
           Deduct(c, a, type),
           NEW e, e = [customer |-> c, type |-> type, amount |-> -a,
                       session |-> NoSession]
    PROVE  e \in Entry /\ Records(e)
<1>1. e \in Entry
      BY DEF Entry
<1>2. ledger' = Append(ledger, e) /\ SessionFree(e.session)
      BY DEF Deduct, SessionFree
<1>3. /\ DOMAIN balance' = DOMAIN balance \cup {c}
      /\ GetBalance(c)' = GetBalance(c) - a
      /\ \A x \in Customers \ {c} : GetBalance(x)' = GetBalance(x)
  <2>1. a \in Int
        OBVIOUS
  <2>. QED BY <2>1, DeductBalance
<1>4. \A x \in Customers : GetBalance(x) \in Int
      BY DEF GetBalance, TypeOK
<1>5. \A x \in Customers : GetBalance(x)' = GetBalance(x) + Effect(e, x)
      BY <1>3, <1>4 DEF Effect
<1>. QED BY <1>1, <1>2, <1>3, <1>5 DEF Records

LEMMA StepIsEntry ==
    ASSUME TypeOK, Next
    PROVE  \E e \in Entry : Records(e)
<1>1. PICK c \in Customers, type \in EntryTypes :
          \/ \E a \in Amounts \cup {0}, s \in Sessions \cup {NoSession} :
                Credit(c, a, type, s)
          \/ \E a \in Amounts : Deduct(c, a, type)
      BY StepCases
<1>2. ASSUME NEW a \in Amounts \cup {0}, NEW s \in Sessions \cup {NoSession},
             Credit(c, a, type, s)
      PROVE  \E e \in Entry : Records(e)
  <2>1. PICK e : e = [customer |-> c, type |-> type, amount |-> a, session |-> s]
        OBVIOUS
  <2>2. a \in Nat
        BY AmountAssumption
  <2>. QED BY <1>2, <2>1, <2>2, CreditRecords
<1>3. ASSUME NEW a \in Amounts, Deduct(c, a, type)
      PROVE  \E e \in Entry : Records(e)
  <2>1. PICK e : e = [customer |-> c, type |-> type, amount |-> -a,
                      session |-> NoSession]
        OBVIOUS
  <2>2. a \in Nat
        BY AmountAssumption
  <2>. QED BY <1>3, <2>1, <2>2, DeductRecords
<1>. QED BY <1>1, <1>2, <1>3

-----------------------------------------------------------------------------
(* One entry per card session *)

\* The unique index: whatever the webhooks deliver, at most one entry of the
\* ledger carries a given session.
THEOREM CreditedOnce == Spec => []SessionCreditedOnce
<1>1. Init => SessionCreditedOnce
      BY DEF Init, SessionCreditedOnce
<1>2. TypeOK /\ SessionCreditedOnce /\ [Next]_billingVars => SessionCreditedOnce'
  <2>. SUFFICES ASSUME TypeOK, SessionCreditedOnce, [Next]_billingVars
                PROVE  SessionCreditedOnce'
       OBVIOUS
  <2>1. CASE Next
    <3>1. PICK e \in Entry : Records(e)
          BY <2>1, StepIsEntry
    <3>2. \A i, j \in DOMAIN ledger' :
              ledger'[i].session = ledger'[j].session =>
                  i = j \/ ledger'[i].session = NoSession
          BY <3>1, AppendEntry DEF Records, SessionFree, SessionCreditedOnce, TypeOK
    <3>. QED BY <3>2 DEF SessionCreditedOnce
  <2>2. CASE UNCHANGED billingVars
        BY <2>2 DEF billingVars, SessionCreditedOnce
  <2>. QED BY <2>1, <2>2
<1>. QED BY <1>1, <1>2, TypeCorrect, PTL DEF Spec

-----------------------------------------------------------------------------
(* The books *)

\* A step leaves the totals of the entries there were, and the new total is
\* the old one and the new entry.
LEMMA TotalsGrow ==
    ASSUME TypeOK, NEW e \in Entry, Records(e), NEW c \in Customers
    PROVE  /\ \A n \in 0..Len(ledger) : LedgerTotal(c, n)' = LedgerTotal(c, n)
           /\ LedgerTotal(c, Len(ledger))' =
                  LedgerTotal(c, Len(ledger)) + Effect(e, c)
           /\ LedgerTotal(c, Len(ledger)) \in Int
<1>. DEFINE len == Len(ledger)
            Old == [i \in DOMAIN ledger |-> Effect(ledger[i], c)]
            New == [i \in DOMAIN ledger' |-> Effect(ledger'[i], c)]
<1>1. /\ len \in Nat /\ Len(ledger') = len + 1 /\ ledger'[len+1] = e
      /\ \A i \in 1..len : ledger'[i] = ledger[i]
      /\ DOMAIN ledger' = 1..(len+1) /\ DOMAIN ledger = 1..len
      BY AppendEntry DEF TypeOK, Records
<1>2. /\ \A i \in 1..len : Old[i] \in Int /\ New[i] = Old[i]
      /\ New[len+1] = Effect(e, c) /\ Effect(e, c) \in Int
  <2>1. \A x \in Entry : Effect(x, c) \in Int
        BY DEF Entry, Effect
  <2>2. \A i \in 1..len : ledger[i] \in Entry
        BY <1>1 DEF TypeOK
  <2>3. len + 1 \in DOMAIN ledger' /\ \A i \in 1..len : i \in DOMAIN ledger'
        BY <1>1
  <2>. QED BY <1>1, <2>1, <2>2, <2>3
<1>3. /\ \A n : /\ LedgerTotal(c, n) = SumFunctionOnSet(Old, 1..n)
                /\ LedgerTotal(c, n)' = SumFunctionOnSet(New, 1..n)
      /\ LedgerTotal(c, Len(ledger))' = SumFunctionOnSet(New, 1..Len(ledger'))
      BY DEF LedgerTotal
<1>. HIDE DEF Old, New
<1>4. ASSUME NEW n \in 0..len
      PROVE  SumFunctionOnSet(New, 1..n) = SumFunctionOnSet(Old, 1..n)
  <2>1. 1 \in Int /\ n \in Int /\ 1..n \subseteq 1..len
        BY <1>1
  <2>2. IsFiniteSet(1..n)
    <3>. HIDE DEF len
    <3>. QED BY <2>1, FS_Interval
  <2>3. \A i \in 1..n : New[i] = Old[i]
        BY <1>2, <2>1
  <2>. QED BY <2>2, <2>3, SumCongruent
<1>5. SumFunctionOnSet(New, 1..(len+1)) = SumFunctionOnSet(New, 1..len) + Effect(e, c)
  <2>1. IsFiniteSet(1..len) /\ len + 1 \notin 1..len
    <3>1. 1 \in Int /\ len \in Int
          BY <1>1
    <3>. HIDE DEF len
    <3>. QED BY <3>1, FS_Interval
  <2>2. \A i \in 1..len \cup {len+1} : New[i] \in Int
        BY <1>2
  <2>3. 1..(len+1) = 1..len \cup {len+1}
        BY <1>1
  <2>4. PICK S, x : S = 1..len /\ x = len + 1
        OBVIOUS
  <2>5. IsFiniteSet(S) /\ x \notin S /\ \A i \in S \cup {x} : New[i] \in Int
        BY <2>1, <2>2, <2>4
  <2>6. SumFunctionOnSet(New, S \cup {x}) = SumFunctionOnSet(New, S) + New[x]
        BY <2>5, SumAddElement
  <2>. QED BY <1>2, <2>3, <2>4, <2>6
<1>6. SumFunctionOnSet(Old, 1..len) \in Int
  <2>1. IsFiniteSet(1..len)
    <3>1. 1 \in Int /\ len \in Int
          BY <1>1
    <3>. HIDE DEF len
    <3>. QED BY <3>1, FS_Interval
  <2>. QED BY <1>2, <2>1, SumAdds
<1>7. \A n \in 0..len : LedgerTotal(c, n)' = LedgerTotal(c, n)
      BY <1>3, <1>4
<1>8. LedgerTotal(c, Len(ledger))' = LedgerTotal(c, len) + Effect(e, c)
  <2>1. len \in 0..len
        BY <1>1
  <2>. QED BY <1>1, <1>3, <1>4, <1>5, <2>1
<1>. QED BY <1>3, <1>6, <1>7, <1>8

\* What the sum of a customer's entries is, follows his balance.
LEMMA BooksGrow ==
    ASSUME TypeOK, TypeOK', BooksBalance, NEW e \in Entry, Records(e)
    PROVE  BooksBalance'
<1>1. /\ Len(ledger) \in Nat /\ Len(ledger') = Len(ledger) + 1
      /\ DOMAIN ledger = 1..Len(ledger) /\ DOMAIN ledger' = 1..(Len(ledger) + 1)
      BY AppendEntry DEF TypeOK, Records
<1>2. ASSUME NEW c \in Customers
      PROVE  GetBalance(c)' = LedgerTotal(c, Len(ledger))'
  <2>1. GetBalance(c) = LedgerTotal(c, Len(ledger))
        BY DEF BooksBalance, BalanceIsLedgerSum
  <2>. QED BY <2>1, TotalsGrow DEF Records
<1>3. BalanceIsLedgerSum'
      BY <1>2 DEF BalanceIsLedgerSum
<1>4. ASSUME NEW c \in Customers, NEW n \in DOMAIN ledger'
      PROVE  LedgerTotal(c, n)' >= 0
  <2>1. CASE n = Len(ledger) + 1
    <3>1. GetBalance(c)' \in Nat
          BY DEF GetBalance, TypeOK
    <3>2. n = Len(ledger')
          BY <1>1, <2>1
    <3>3. LedgerTotal(c, n)' = LedgerTotal(c, Len(ledger))'
          BY <3>2
    <3>. QED BY <1>2, <3>1, <3>3
  <2>2. CASE n \in DOMAIN ledger
    <3>1. n \in 0..Len(ledger) /\ LedgerTotal(c, n) >= 0
          BY <1>1, <2>2 DEF BooksBalance, EveryPrefixSolvent
    <3>. QED BY <3>1, TotalsGrow
  <2>. QED BY <1>1, <2>1, <2>2
<1>5. EveryPrefixSolvent'
      BY <1>4 DEF EveryPrefixSolvent
<1>6. RowIffLedger'
  <2>1. {ledger'[i].customer : i \in DOMAIN ledger'} =
            {ledger[i].customer : i \in DOMAIN ledger} \cup {e.customer}
        BY AppendEntry DEF Records, TypeOK
  <2>. QED BY <2>1 DEF BooksBalance, RowIffLedger, Records
<1>. QED BY <1>3, <1>5, <1>6 DEF BooksBalance

\* Credit and Deduct write ledger and balance in one transaction, so in every
\* reachable state the cached balances are what the ledger adds up to, no
\* prefix of the ledger is overdrawn, and the rows are the ledger's customers.
THEOREM BooksKept == Spec => []BooksBalance
<1>1. Init => BooksBalance
  <2>. SUFFICES ASSUME Init PROVE BooksBalance
       OBVIOUS
  <2>1. Len(ledger) = 0 /\ DOMAIN ledger = {} /\ 1..0 = {}
        BY DEF Init
  <2>2. \A c \in Customers : GetBalance(c) = 0 /\ LedgerTotal(c, 0) = 0
        BY <2>1, SumEmpty DEF Init, GetBalance, LedgerTotal
  <2>3. BalanceIsLedgerSum
        BY <2>1, <2>2 DEF BalanceIsLedgerSum
  <2>. QED BY <2>1, <2>3 DEF Init, BooksBalance, EveryPrefixSolvent, RowIffLedger
<1>2. TypeOK /\ TypeOK' /\ BooksBalance /\ [Next]_billingVars => BooksBalance'
  <2>. SUFFICES ASSUME TypeOK, TypeOK', BooksBalance, [Next]_billingVars
                PROVE  BooksBalance'
       OBVIOUS
  <2>1. CASE Next
        BY <2>1, StepIsEntry, BooksGrow
  <2>2. CASE UNCHANGED billingVars
        BY <2>2 DEF billingVars, BooksBalance, BalanceIsLedgerSum, EveryPrefixSolvent,
                    RowIffLedger, LedgerTotal, GetBalance
  <2>. QED BY <2>1, <2>2
<1>. QED BY <1>1, <1>2, TypeCorrect, PTL DEF Spec

-----------------------------------------------------------------------------
(* PrepaidBalance implements Purse *)

CardEntries == {i \in DOMAIN ledger : ledger[i].session # NoSession}
CardSessions == {ledger[i].session : i \in DOMAIN ledger} \ {NoSession}
Money == [c \in Customers |-> GetBalance(c)]

\* What an appended entry adds to the card entries.
LEMMA CardEntriesGrow ==
    ASSUME TypeOK, NEW e \in Entry, ledger' = Append(ledger, e)
    PROVE  /\ e.session = NoSession =>
                 CardSessions' = CardSessions
                 /\ Cardinality(CardEntries') = Cardinality(CardEntries)
           /\ e.session # NoSession =>
                 CardSessions' = CardSessions \cup {e.session}
                 /\ Cardinality(CardEntries') = Cardinality(CardEntries) + 1
<1>1. /\ \A i \in DOMAIN ledger : ledger'[i] = ledger[i]
      /\ ledger'[Len(ledger) + 1] = e
      /\ DOMAIN ledger' = DOMAIN ledger \cup {Len(ledger) + 1}
      /\ DOMAIN ledger = 1..Len(ledger) /\ Len(ledger) \in Nat
      BY AppendEntry DEF TypeOK
<1>2. IsFiniteSet(CardEntries)
  <2>1. IsFiniteSet(1..Len(ledger))
        BY <1>1, FS_Interval
  <2>. QED BY <1>1, <2>1, FS_Subset DEF CardEntries
<1>3. Len(ledger) + 1 \notin CardEntries
      BY <1>1 DEF CardEntries
<1>4. CASE e.session = NoSession
  <2>1. CardEntries' = CardEntries /\ CardSessions' = CardSessions
        BY <1>1, <1>4 DEF CardEntries, CardSessions
  <2>. QED BY <1>4, <2>1
<1>5. CASE e.session # NoSession
  <2>1. /\ CardEntries' = CardEntries \cup {Len(ledger) + 1}
        /\ CardSessions' = CardSessions \cup {e.session}
        BY <1>1, <1>5 DEF CardEntries, CardSessions
  <2>2. Cardinality(CardEntries \cup {Len(ledger) + 1}) = Cardinality(CardEntries) + 1
        BY <1>2, <1>3, FS_AddElement
  <2>. QED BY <1>5, <2>1, <2>2
<1>. QED BY <1>4, <1>5

\* The instance of Purse, with its state spelled out.
LEMMA PurseStep ==
    ASSUME TypeOK, Next
    PROVE  Purse!Next \/ UNCHANGED <<Money, CardSessions, Cardinality(CardEntries)>>
<1>1. PICK c \in Customers, type \in EntryTypes :
          \/ \E a \in Amounts \cup {0}, s \in Sessions \cup {NoSession} :
                (a = 0 => s = NoSession) /\ Credit(c, a, type, s)
          \/ \E a \in Amounts : Deduct(c, a, type)
      BY StepCases
<1>. DEFINE card == Cardinality(CardEntries)
<1>2. ASSUME NEW a \in Amounts \cup {0}, NEW s \in Sessions \cup {NoSession},
             a = 0 => s = NoSession, Credit(c, a, type, s)
      PROVE  Purse!Next \/ UNCHANGED <<Money, CardSessions, card>>
  <2>. DEFINE e == [customer |-> c, type |-> type, amount |-> a, session |-> s]
  <2>1. a \in Int /\ e \in Entry /\ ledger' = Append(ledger, e) /\ SessionFree(s)
        BY <1>2, AmountAssumption DEF Entry, Credit
  <2>2. /\ GetBalance(c)' = GetBalance(c) + a
        /\ \A x \in Customers \ {c} : GetBalance(x)' = GetBalance(x)
        BY <1>2, <2>1, CreditBalance
  <2>3. Money' = [Money EXCEPT ![c] = @ + a]
        BY <2>2 DEF Money
  <2>4. /\ s = NoSession => CardSessions' = CardSessions /\ card' = card
        /\ s # NoSession => /\ CardSessions' = CardSessions \cup {s}
                            /\ card' = card + 1
    <3>1. e.session = s
          OBVIOUS
    <3>. QED BY <2>1, <3>1, CardEntriesGrow
  <2>5. CASE s = NoSession /\ a = 0
    <3>1. \A x \in Customers : GetBalance(x) \in Int
          BY DEF GetBalance, TypeOK
    <3>2. Money' = Money
          BY <2>2, <2>5, <3>1 DEF Money
    <3>. QED BY <2>4, <2>5, <3>2
  <2>6. CASE s = NoSession /\ a # 0
    <3>1. Purse!Grant(c, a)
          BY <2>3, <2>4, <2>6 DEF Purse!Grant, Purse!PutIn, Money, CardSessions, CardEntries
    <3>. QED BY <2>6, <3>1 DEF Purse!Next
  <2>7. CASE s # NoSession
    <3>1. s \notin CardSessions
          BY <2>1, <2>7 DEF SessionFree, CardSessions
    <3>2. Purse!PayIn(c, a, s)
          BY <2>3, <2>4, <2>7, <3>1 DEF Purse!PayIn, Purse!PutIn, Money, CardSessions, CardEntries
    <3>. QED BY <1>2, <2>7, <3>2 DEF Purse!Next
  <2>. QED BY <2>5, <2>6, <2>7
<1>3. ASSUME NEW a \in Amounts, Deduct(c, a, type)
      PROVE  Purse!Next
  <2>. DEFINE e == [customer |-> c, type |-> type, amount |-> -a,
                    session |-> NoSession]
  <2>1. a \in Int /\ e \in Entry /\ ledger' = Append(ledger, e)
        BY <1>3, AmountAssumption DEF Entry, Deduct
  <2>2. /\ GetBalance(c) >= a
        /\ GetBalance(c)' = GetBalance(c) - a
        /\ \A x \in Customers \ {c} : GetBalance(x)' = GetBalance(x)
        BY <1>3, <2>1, DeductBalance
  <2>3. Money' = [Money EXCEPT ![c] = @ - a] /\ Money[c] >= a
        BY <2>2 DEF Money
  <2>4. CardSessions' = CardSessions /\ card' = card
    <3>1. e.session = NoSession
          OBVIOUS
    <3>. QED BY <2>1, <3>1, CardEntriesGrow
  <2>5. Purse!Spend(c, a)
        BY <2>3, <2>4 DEF Purse!Spend, Money, CardSessions, CardEntries
  <2>. QED BY <2>5 DEF Purse!Next
<1>. QED BY <1>1, <1>2, <1>3

\* The balance keeps the promise of the purse: a step of the two tables is a
\* step of the purse or changes nothing the customer can see.
THEOREM Refinement == Spec => ImplementsPurse
<1>1. Init => Purse!Init
      BY FS_EmptySet DEF Init, Purse!Init, GetBalance
<1>2. TypeOK /\ [Next]_billingVars => [Purse!Next]_Purse!purseVars
  <2>. SUFFICES ASSUME TypeOK, [Next]_billingVars
                PROVE  [Purse!Next]_Purse!purseVars
       OBVIOUS
  <2>1. CASE Next
        BY <2>1, PurseStep DEF Purse!purseVars, Money, CardSessions, CardEntries
  <2>2. CASE UNCHANGED billingVars
        BY <2>2 DEF billingVars, Purse!purseVars, GetBalance
  <2>. QED BY <2>1, <2>2
<1>. QED BY <1>1, <1>2, TypeCorrect, PTL DEF Spec, ImplementsPurse, Purse!Spec

-----------------------------------------------------------------------------
(* PortalPurchase: what every state keeps *)

\* Prices come from the plans, and an amount on a Stripe session is a price
\* or a top-up somebody chose.
PricesKept ==
    /\ \A r \in Requests : checkout[r].stage = "priced" => checkout[r].price \in Prices
    /\ \A s \in Sessions : session[s].kind # "none" => session[s].amount \in Amounts
    /\ bridge.stage # "idle" => bridge.price \in Prices

\* What waits to be credited was opened as a top-up and paid.
CardsOK ==
    /\ \A s \in Sessions : session[s].paid => session[s].kind # "none"
    /\ \A i \in DOMAIN topupQ :
          session[topupQ[i]].paid /\ session[topupQ[i]].kind = "balance_topup"
    /\ OnlyPaidTopupsCredited

InCharge == bridge.stage \in {"deducted", "refunding"}

\* A request is asked for at most once, costs nothing before the bridge has
\* it in hand, and then what the bridge remembers.
RequestsOK ==
    /\ \A i, j \in DOMAIN deductQ : deductQ[i] = deductQ[j] => i = j
    /\ \A r \in Requests :
          checkout[r].stage \in {"idle", "priced"} => ~Queued(r) /\ paid[r] = 0
    /\ \A i \in DOMAIN deductQ : paid[deductQ[i]] = 0 \/ (i = 1 /\ InCharge)
    /\ InCharge => paid[InHand] = bridge.price /\ refunded[InHand] = 0
    /\ bridge.expired => bridge.stage # "idle" /\ InHand \in late
    /\ \A r \in Requests :
          /\ refunded[r] \in {0, paid[r]}
          /\ r \notin late /\ crashes = 0 /\ ~Queued(r) => paid[r] = refunded[r]

PInv == PTypeOK /\ PricesKept /\ CardsOK /\ RequestsOK

-----------------------------------------------------------------------------
(* Queues *)

LEMMA QueueHead ==
    ASSUME NEW S, NEW q \in Seq(S), q # <<>>
    PROVE  /\ Len(q) \in Nat \ {0} /\ DOMAIN q = 1..Len(q)
           /\ 1 \in DOMAIN q /\ Head(q) = q[1] /\ Head(q) \in S
           /\ Tail(q) \in Seq(S)
           /\ DOMAIN Tail(q) = 1..(Len(q) - 1)
           /\ \A i \in DOMAIN Tail(q) : i + 1 \in DOMAIN q /\ Tail(q)[i] = q[i+1]
           /\ \A i \in DOMAIN q : i # 1 => i - 1 \in DOMAIN Tail(q)
OBVIOUS

LEMMA QueueAppend ==
    ASSUME NEW S, NEW q \in Seq(S), NEW x \in S
    PROVE  /\ Append(q, x) \in Seq(S) /\ Append(q, x) # <<>>
           /\ Len(q) \in Nat /\ DOMAIN q = 1..Len(q)
           /\ DOMAIN Append(q, x) = DOMAIN q \cup {Len(q) + 1}
           /\ Append(q, x)[Len(q) + 1] = x
           /\ \A i \in DOMAIN q : Append(q, x)[i] = q[i]
OBVIOUS

-----------------------------------------------------------------------------
(* The portal takes only steps of the balance *)

LEMMA BillingStep == PInv /\ [PNext]_vars => [Next]_billingVars
<1>. SUFFICES ASSUME PInv, PNext PROVE Next \/ UNCHANGED billingVars
     BY DEF vars, billingVars
<1>. USE DEF PInv, PTypeOK, PortalShape, QueueShape, BridgeShape, HistoryShape,
         Checkout, Card
<1>1. CASE CompleteTopup
  <2>1. PICK s : s = Head(topupQ)
        OBVIOUS
  <2>2. s \in Sessions /\ session[s].kind # "none" /\ session[s].customer \in Customers
    <3>1. topupQ # <<>>
          BY <1>1 DEF CompleteTopup
    <3>2. 1 \in DOMAIN topupQ /\ s = topupQ[1] /\ s \in Sessions
          BY <2>1, <3>1, QueueHead
    <3>. QED BY <3>2 DEF CardsOK
  <2>3. session[s].amount \in Amounts
        BY <2>2 DEF PricesKept
  <2>. QED BY <1>1, <2>1, <2>2, <2>3 DEF CompleteTopup, Next
<1>2. CASE BridgeDeduct
  <2>1. checkout[InHand].customer \in Customers /\ bridge.price \in Amounts
        BY <1>2, QueueHead, PriceAssumption DEF BridgeDeduct, PricesKept, InHand
  <2>. QED BY <1>2, <2>1 DEF BridgeDeduct, Next
<1>3. CASE BridgeRefund
  <2>1. checkout[InHand].customer \in Customers /\ bridge.price \in Amounts
        BY <1>3, QueueHead, PriceAssumption DEF BridgeRefund, PricesKept, InHand
  <2>2. bridge.price \in Adjustments /\ bridge.price >= 0
        BY <2>1, AmountAssumption DEF Adjustments
  <2>. QED BY <1>3, <2>1, <2>2 DEF BridgeRefund, Adjust, Next
<1>4. ASSUME NEW c \in Customers, NEW d \in Corrections, AdjustBalance(c, d)
      PROVE  Next
      BY <1>4, PriceAssumption DEF AdjustBalance, Next
<1>. QED BY <1>1, <1>2, <1>3, <1>4
         DEF PNext, Portal, Stripe, Core, BridgeStep, Environment, ReadPlans,
             BuyWithBalance, PayByCard, RpcTimeout, OpenTopup, Pay, Deliver,
             ProvisionForCard, BridgeReadPlan, BridgeCreateVM, ContextExpires,
             CoreRestarts, EditPlan

-----------------------------------------------------------------------------
(* The shapes and the prices *)

\* The price in the plan, the checkout and the bridge.
LEMMA PortalKept == PInv /\ [PNext]_vars => PortalShape' /\ PricesKept'
<1>. SUFFICES ASSUME PInv, [PNext]_vars PROVE PortalShape' /\ PricesKept'
     OBVIOUS
<1>. USE DEF PortalShape, PricesKept
<1>a. /\ PortalShape /\ PricesKept /\ QueueShape /\ BridgeShape
      BY DEF PInv, PTypeOK
<1>b. /\ Prices \subseteq Nat /\ Prices \subseteq Amounts /\ Amounts \subseteq Nat
      BY PriceAssumption, AmountAssumption
<1>s. ASSUME NEW r \in Requests, NEW st \in Stages,
             checkout' = [checkout EXCEPT ![r].stage = st], st # "priced",
             UNCHANGED plan
      PROVE  /\ checkout' \in [Requests -> Checkout]
             /\ plan' \in [Plans -> [price: Prices, enabled: BOOLEAN]]
             /\ \A x \in Requests : checkout'[x].stage = "priced" =>
                    checkout'[x].price \in Prices
      BY <1>a, <1>s DEF Checkout
<1>o. ASSUME NEW s \in Sessions, NEW kind \in {"vm_purchase", "balance_topup"},
             NEW c \in Customers, NEW p \in Plans, NEW a \in Amounts,
             OpenSession(s, kind, c, p, a)
      PROVE  /\ session' \in [Sessions -> Card]
             /\ \A x \in Sessions : session'[x].kind # "none" =>
                    session'[x].amount \in Amounts
  <2>. DEFINE card == [kind |-> kind, customer |-> c, plan |-> p, amount |-> a,
                       paid |-> FALSE, deliveries |-> 0]
  <2>1. card \in Card /\ card.amount = a
        BY <1>b DEF Card
  <2>2. session' = [session EXCEPT ![s] = card]
        BY <1>o DEF OpenSession
  <2>. HIDE DEF card
  <2>. QED BY <1>a, <2>1, <2>2
<1>1. ASSUME NEW r \in Requests, NEW c \in Customers, NEW p \in Plans,
             ReadPlans(r, c, p)
      PROVE  PortalShape' /\ PricesKept'
      BY <1>1, <1>a, <1>b DEF ReadPlans, Checkout, Stages
<1>2. ASSUME NEW r \in Requests, BuyWithBalance(r)
      PROVE  PortalShape' /\ PricesKept'
      BY <1>2, <1>a, <1>s DEF BuyWithBalance, Stages
<1>3. ASSUME NEW r \in Requests, PayByCard(r)
      PROVE  PortalShape' /\ PricesKept'
  <2>1. checkout[r].price \in Amounts /\ checkout[r].customer \in Customers
        /\ checkout[r].plan \in Plans
        BY <1>3, <1>a, <1>b DEF PayByCard, Checkout
  <2>2. CASE checkout' = [checkout EXCEPT ![r].stage = "redirected"]
             /\ \E s \in Sessions :
                   OpenSession(s, "vm_purchase", checkout[r].customer,
                               checkout[r].plan, checkout[r].price)
        BY <1>3, <1>a, <1>s, <1>o, <2>1, <2>2 DEF PayByCard, Stages
  <2>3. CASE checkout' = [checkout EXCEPT ![r].stage = "error"] /\ UNCHANGED session
        BY <1>3, <1>a, <1>s, <2>3 DEF PayByCard, Stages
  <2>. QED BY <1>3, <2>2, <2>3 DEF PayByCard
<1>4. ASSUME NEW r \in Requests, RpcTimeout(r)
      PROVE  PortalShape' /\ PricesKept'
      BY <1>4, <1>a, <1>s DEF RpcTimeout, Stages
<1>5. ASSUME NEW s \in Sessions, NEW c \in Customers, NEW a \in Amounts,
             OpenTopup(s, c, a)
      PROVE  PortalShape' /\ PricesKept'
      BY <1>5, <1>a, <1>o, SetAssumption DEF OpenTopup
<1>6. ASSUME NEW s \in Sessions, Pay(s)
      PROVE  PortalShape' /\ PricesKept'
      BY <1>6, <1>a DEF Pay, Card
<1>7. ASSUME NEW s \in Sessions, Deliver(s)
      PROVE  PortalShape' /\ PricesKept'
  <2>1. session' = [session EXCEPT ![s].deliveries = @ + 1]
        /\ UNCHANGED <<plan, checkout, bridge>>
        BY <1>7 DEF Deliver
  <2>. QED BY <1>a, <2>1 DEF Card
<1>8. ASSUME NEW answer \in {"ok", "error"}, deductQ # <<>>, Reply(answer),
             UNCHANGED <<plan, session>>
      PROVE  PortalShape' /\ PricesKept'
  <2>1. InHand \in Requests
        BY <1>8, <1>a, QueueHead DEF InHand, QueueShape
  <2>2. PICK r \in Requests, st \in Stages :
            /\ checkout' = [checkout EXCEPT ![r].stage = st]
            /\ st = "priced" => checkout[r].stage = "priced"
    <3>1. checkout[InHand].stage \in Stages
          BY <1>a, <2>1 DEF Checkout
    <3>. QED BY <1>8, <2>1, <3>1 DEF Reply, Stages
  <2>3. checkout' \in [Requests -> Checkout]
        /\ \A x \in Requests : checkout'[x].stage = "priced" =>
               checkout'[x].price \in Prices
        BY <1>a, <2>2 DEF Checkout
  <2>. QED BY <1>8, <1>a, <2>3 DEF Reply, IdleBridge
<1>9. CASE BridgeReadPlan
  <2>1. checkout[InHand].plan \in Plans
        BY <1>9, <1>a, QueueHead DEF BridgeReadPlan, InHand, QueueShape, Checkout
  <2>2. CASE plan[checkout[InHand].plan].enabled
        BY <1>9, <1>a, <2>1, <2>2 DEF BridgeReadPlan, NoReply
  <2>3. CASE ~plan[checkout[InHand].plan].enabled
        BY <1>9, <1>8, <2>3 DEF BridgeReadPlan
  <2>. QED BY <2>2, <2>3
<1>10. CASE BridgeDeduct
  <2>1. CASE Reply("error")
        BY <1>10, <1>8, <1>a, <2>1 DEF BridgeDeduct, BridgeShape
  <2>2. CASE bridge' = [bridge EXCEPT !.stage = "deducted"] /\ NoReply
    <3>1. bridge'.price = bridge.price
          BY <1>a, <2>2 DEF BridgeShape
    <3>. QED BY <1>10, <1>a, <2>2, <3>1 DEF BridgeDeduct, NoReply
  <2>. QED BY <1>10, <2>1, <2>2 DEF BridgeDeduct
<1>11. CASE BridgeCreateVM
  <2>1. CASE Reply("ok")
        BY <1>11, <1>8, <1>a, <2>1 DEF BridgeCreateVM, BridgeShape
  <2>2. CASE bridge' = [bridge EXCEPT !.stage = "refunding"] /\ NoReply
    <3>1. bridge'.price = bridge.price
          BY <1>a, <2>2 DEF BridgeShape
    <3>. QED BY <1>11, <1>a, <2>2, <3>1 DEF BridgeCreateVM, NoReply
  <2>. QED BY <1>11, <2>1, <2>2 DEF BridgeCreateVM
<1>12. CASE BridgeRefund
       BY <1>12, <1>8, <1>a DEF BridgeRefund, BridgeShape
<1>13. CASE ContextExpires
  <2>1. bridge'.price = bridge.price /\ bridge'.stage = bridge.stage
        BY <1>13, <1>a DEF ContextExpires, BridgeShape
  <2>. QED BY <1>13, <1>a, <2>1 DEF ContextExpires, portalVars
<1>14. CASE CoreRestarts
       BY <1>14, <1>a DEF CoreRestarts, IdleBridge, portalVars
<1>15. ASSUME NEW p \in Plans, EditPlan(p)
       PROVE  PortalShape' /\ PricesKept'
       BY <1>15, <1>a DEF EditPlan, portalVars
<1>16. CASE UNCHANGED <<plan, portalVars, bridge>>
       BY <1>16, <1>a DEF portalVars
<1>. QED BY <1>1, <1>2, <1>3, <1>4, <1>5, <1>6, <1>7, <1>9, <1>10, <1>11,
            <1>12, <1>13, <1>14, <1>15, <1>16
         DEF PNext, Portal, Stripe, Core, BridgeStep, Environment, vars,
             CompleteTopup, ProvisionForCard, AdjustBalance

\* The queues, the bridge and the histories.
LEMMA RestKept == PInv /\ [PNext]_vars => QueueShape' /\ BridgeShape' /\ HistoryShape'
<1>. SUFFICES ASSUME PInv, [PNext]_vars
              PROVE  QueueShape' /\ BridgeShape' /\ HistoryShape'
     OBVIOUS
<1>. USE DEF QueueShape, BridgeShape, HistoryShape
<1>a. QueueShape /\ BridgeShape /\ HistoryShape /\ PortalShape /\ PricesKept
      BY DEF PInv, PTypeOK
<1>b. Prices \subseteq Nat /\ Prices \subseteq Amounts /\ Amounts \subseteq Nat
      BY PriceAssumption, AmountAssumption
<1>1. ASSUME NEW r \in Requests, BuyWithBalance(r)
      PROVE  QueueShape' /\ BridgeShape' /\ HistoryShape'
  <2>1. CASE deductQ' = Append(deductQ, r)
        BY <1>1, <1>a, <2>1, QueueAppend
        DEF BuyWithBalance, historyVars, boundVars
  <2>2. CASE UNCHANGED deductQ
        BY <1>1, <1>a, <2>2 DEF BuyWithBalance, historyVars, boundVars
  <2>. QED BY <1>1, <2>1, <2>2 DEF BuyWithBalance
<1>2. ASSUME NEW s \in Sessions, Deliver(s)
      PROVE  QueueShape' /\ BridgeShape' /\ HistoryShape'
  <2>1. /\ topupQ' = Append(topupQ, s) \/ topupQ' = topupQ
        /\ provisionQ' = Append(provisionQ, s) \/ provisionQ' = provisionQ
        BY <1>2 DEF Deliver
  <2>2. topupQ' \in Seq(Sessions) /\ provisionQ' \in Seq(Sessions)
    <3>. HIDE DEF QueueShape
    <3>1. topupQ \in Seq(Sessions) /\ provisionQ \in Seq(Sessions)
          BY <1>a DEF QueueShape
    <3>2. Append(topupQ, s) \in Seq(Sessions) /\ Append(provisionQ, s) \in Seq(Sessions)
          BY <3>1
    <3>. QED BY <2>1, <3>1, <3>2
  <2>. QED BY <1>2, <1>a, <2>2 DEF Deliver, historyVars, boundVars
<1>3. CASE CompleteTopup
  <2>1. topupQ' \in Seq(Sessions)
        BY <1>3, <1>a, QueueHead DEF CompleteTopup
  <2>. QED BY <1>3, <1>a, <2>1 DEF CompleteTopup, portalVars, historyVars, boundVars
<1>4. CASE ProvisionForCard
  <2>1. provisionQ' \in Seq(Sessions)
        BY <1>4, <1>a, QueueHead DEF ProvisionForCard
  <2>2. DOMAIN outcome' = DOMAIN outcome
        BY <1>4 DEF ProvisionForCard
  <2>. QED BY <1>4, <1>a, <2>1, <2>2 DEF ProvisionForCard, portalVars, boundVars
<1>5. ASSUME NEW answer, deductQ # <<>>, Reply(answer), UNCHANGED <<topupQ, provisionQ>>
      PROVE  QueueShape' /\ BridgeShape'
  <2>1. deductQ' \in Seq(Requests)
        BY <1>5, <1>a, QueueHead DEF Reply
  <2>. QED BY <1>5, <1>a, <2>1 DEF Reply, IdleBridge
<1>6. CASE BridgeReadPlan
  <2>1. CASE plan[checkout[InHand].plan].enabled
    <3>1. checkout[InHand].plan \in Plans
          BY <1>6, <1>a, QueueHead DEF BridgeReadPlan, InHand, PortalShape, Checkout
    <3>2. plan[checkout[InHand].plan].price \in Nat
          BY <1>a, <1>b, <3>1 DEF PortalShape
    <3>3. BridgeShape' /\ UNCHANGED deductQ
      <4>1. bridge' = [stage |-> "planned", price |-> plan[checkout[InHand].plan].price,
                       expired |-> FALSE] /\ UNCHANGED deductQ /\ deductQ # <<>>
            BY <1>6, <2>1 DEF BridgeReadPlan, NoReply
      <4>. QED BY <3>2, <4>1
    <3>. QED BY <1>6, <1>a, <3>3 DEF BridgeReadPlan, historyVars, boundVars
  <2>2. CASE ~plan[checkout[InHand].plan].enabled
        BY <1>6, <1>a, <1>5, <2>2 DEF BridgeReadPlan, historyVars, boundVars
  <2>. QED BY <2>1, <2>2
<1>7. CASE BridgeDeduct
  <2>1. InHand \in Requests /\ deductQ # <<>> /\ bridge.price \in Nat
        BY <1>7, <1>a, QueueHead DEF BridgeDeduct, InHand
  <2>2. HistoryShape'
    <3>1. paid' = [paid EXCEPT ![InHand] = @ + bridge.price] \/ paid' = paid
          BY <1>7 DEF BridgeDeduct
    <3>2. paid' \in [Requests -> Nat]
          BY <1>a, <2>1, <3>1
    <3>. QED BY <1>7, <1>a, <3>2 DEF BridgeDeduct, boundVars
  <2>3. CASE Reply("error")
        BY <1>7, <1>a, <1>5, <2>1, <2>2, <2>3 DEF BridgeDeduct
  <2>4. CASE bridge' = [bridge EXCEPT !.stage = "deducted"] /\ NoReply
        BY <1>7, <1>a, <2>1, <2>2, <2>4 DEF BridgeDeduct, NoReply
  <2>. QED BY <1>7, <2>3, <2>4 DEF BridgeDeduct
<1>8. CASE BridgeCreateVM
  <2>1. InHand \in Requests /\ deductQ # <<>>
        BY <1>8, <1>a, QueueHead DEF BridgeCreateVM, InHand
  <2>2. HistoryShape'
        BY <1>8, <1>a DEF BridgeCreateVM, boundVars
  <2>3. CASE Reply("ok")
        BY <1>8, <1>a, <1>5, <2>1, <2>2, <2>3 DEF BridgeCreateVM
  <2>4. CASE bridge' = [bridge EXCEPT !.stage = "refunding"] /\ NoReply
        BY <1>8, <1>a, <2>1, <2>2, <2>4 DEF BridgeCreateVM, NoReply
  <2>. QED BY <1>8, <2>3, <2>4 DEF BridgeCreateVM
<1>9. CASE BridgeRefund
  <2>1. InHand \in Requests /\ deductQ # <<>> /\ bridge.price \in Nat
        BY <1>9, <1>a, QueueHead DEF BridgeRefund, InHand
  <2>2. HistoryShape'
        BY <1>9, <1>a, <2>1 DEF BridgeRefund, boundVars
  <2>. QED BY <1>9, <1>5, <2>1, <2>2 DEF BridgeRefund
<1>10. CASE ContextExpires
  <2>1. InHand \in Requests /\ deductQ # <<>>
        BY <1>10, <1>a, QueueHead DEF ContextExpires, InHand
  <2>. QED BY <1>10, <1>a, <2>1
           DEF ContextExpires, portalVars, queueVars, boundVars
<1>11. CASE CoreRestarts
       BY <1>11, <1>a DEF CoreRestarts, IdleBridge, portalVars, historyVars
<1>12. ASSUME NEW p \in Plans, EditPlan(p)
       PROVE  QueueShape' /\ BridgeShape' /\ HistoryShape'
       BY <1>12, <1>a DEF EditPlan, portalVars, queueVars, historyVars
<1>13. ASSUME NEW c \in Customers, NEW d \in Corrections, AdjustBalance(c, d)
       PROVE  QueueShape' /\ BridgeShape' /\ HistoryShape'
  <2>1. d \in Int
        BY PriceAssumption, AmountAssumption DEF Adjustments
  <2>2. adjusted' \in [Customers -> Int] /\ edits' \in Nat
        BY <1>13, <1>a, <2>1, BoundAssumption DEF AdjustBalance
  <2>. QED BY <1>13, <1>a, <2>2 DEF AdjustBalance, portalVars, queueVars
<1>14. CASE UNCHANGED <<queueVars, bridge, historyVars, boundVars>>
       BY <1>14, <1>a DEF queueVars, historyVars, boundVars
<1>. QED BY <1>1, <1>2, <1>3, <1>4, <1>6, <1>7, <1>8, <1>9, <1>10, <1>11, <1>12, <1>13,
            <1>14
         DEF PNext, Portal, Stripe, Core, BridgeStep, Environment, vars,
             ReadPlans, PayByCard, RpcTimeout, OpenTopup, Pay

-----------------------------------------------------------------------------
(* What a portal step writes to the ledger *)

\* The entry a step of the portal appends, if any: to a card session's credit
\* belongs the session at the head of the queue.
LEMMA PortalEntry ==
    ASSUME PInv, [PNext]_vars
    PROVE  \/ UNCHANGED <<billingVars, paid, refunded, adjusted>>
           \/ \E e \in Entry :
                 /\ Records(e)
                 /\ \/ CompleteTopup /\ e.session = Head(topupQ)
                       /\ e.customer = session[e.session].customer
                       /\ e.amount = session[e.session].amount
                       /\ UNCHANGED <<paid, refunded, adjusted>>
                    \/ BridgeDeduct /\ e.session = NoSession
                       /\ e.customer = checkout[InHand].customer
                       /\ e.amount = -bridge.price
                       /\ bridge'.stage = "deducted"
                       /\ paid' = [paid EXCEPT ![InHand] = @ + bridge.price]
                       /\ UNCHANGED <<refunded, adjusted>>
                    \/ BridgeRefund /\ ~bridge.expired /\ e.session = NoSession
                       /\ e.customer = checkout[InHand].customer
                       /\ e.amount = bridge.price
                       /\ refunded' = [refunded EXCEPT ![InHand] = @ + bridge.price]
                       /\ UNCHANGED <<paid, adjusted>>
                    \/ \E c \in Customers, d \in Corrections :
                          /\ AdjustBalance(c, d) /\ e.session = NoSession
                          /\ e.customer = c /\ e.amount = d
                          /\ adjusted' = [adjusted EXCEPT ![c] = @ + d]
                          /\ UNCHANGED <<paid, refunded>>
<1>. USE DEF PInv, PTypeOK, PortalShape, QueueShape, BridgeShape
<1>1. CASE CompleteTopup /\ SessionFree(Head(topupQ))
  <2>1. PICK s \in Sessions : s = Head(topupQ)
        BY <1>1, QueueHead DEF CompleteTopup
  <2>2. session[s].customer \in Customers /\ session[s].amount \in Nat
        BY DEF Card
  <2>3. Credit(session[s].customer, session[s].amount, "topup", s)
        BY <1>1, <2>1 DEF CompleteTopup, TopUp
  <2>4. PICK e : e = [customer |-> session[s].customer, type |-> "topup",
                      amount |-> session[s].amount, session |-> s]
        OBVIOUS
  <2>5. e \in Entry /\ Records(e)
        BY <2>2, <2>3, <2>4, CreditRecords DEF EntryTypes
  <2>6. UNCHANGED <<paid, refunded, adjusted>>
        BY <1>1 DEF CompleteTopup, historyVars
  <2>. QED BY <1>1, <2>1, <2>4, <2>5, <2>6
<1>2. CASE BridgeDeduct /\ ~UNCHANGED <<billingVars, paid>>
  <2>1. PICK c, a : c = checkout[InHand].customer /\ a = bridge.price
        OBVIOUS
  <2>2. c \in Customers /\ a \in Nat
        BY <1>2, <2>1, QueueHead DEF BridgeDeduct, InHand, Checkout
  <2>3. Deduct(c, a, "vm_purchase") /\ bridge' = [bridge EXCEPT !.stage = "deducted"]
        BY <1>2, <2>1 DEF BridgeDeduct, DeductForVM
  <2>4. PICK e : e = [customer |-> c, type |-> "vm_purchase", amount |-> -a,
                      session |-> NoSession]
        OBVIOUS
  <2>5. e \in Entry /\ Records(e)
        BY <2>2, <2>3, <2>4, DeductRecords DEF EntryTypes
  <2>6. bridge'.stage = "deducted"
        BY <2>3
  <2>7. /\ paid' = [paid EXCEPT ![InHand] = @ + bridge.price]
        /\ UNCHANGED <<refunded, adjusted>>
        BY <1>2 DEF BridgeDeduct
  <2>. QED BY <1>2, <2>1, <2>4, <2>5, <2>6, <2>7
<1>3. CASE BridgeRefund /\ ~bridge.expired
  <2>1. PICK c, a : c = checkout[InHand].customer /\ a = bridge.price
        OBVIOUS
  <2>2. c \in Customers /\ a \in Nat
        BY <1>3, <2>1, QueueHead DEF BridgeRefund, InHand, Checkout
  <2>3. Credit(c, a, "topup", NoSession)
        BY <1>3, <2>1 DEF BridgeRefund, TopUp
  <2>4. PICK e : e = [customer |-> c, type |-> "topup", amount |-> a,
                      session |-> NoSession]
        OBVIOUS
  <2>5. e \in Entry /\ Records(e)
        BY <2>2, <2>3, <2>4, CreditRecords DEF EntryTypes
  <2>6. /\ refunded' = [refunded EXCEPT ![InHand] = @ + bridge.price]
        /\ UNCHANGED <<paid, adjusted>>
        BY <1>3 DEF BridgeRefund
  <2>. QED BY <1>3, <2>1, <2>4, <2>5, <2>6
<1>4. ASSUME NEW c \in Customers, NEW d \in Corrections, AdjustBalance(c, d)
      PROVE  \E e \in Entry : Records(e) /\ e.session = NoSession
                               /\ e.customer = c /\ e.amount = d
  <2>1. d \in Int
        BY PriceAssumption, AmountAssumption DEF Adjustments
  <2>2. CASE d >= 0 /\ Credit(c, d, "topup", NoSession)
    <3>1. PICK e : e = [customer |-> c, type |-> "topup", amount |-> d,
                        session |-> NoSession]
          OBVIOUS
    <3>2. e \in Entry /\ Records(e)
          BY <2>1, <2>2, <3>1, CreditRecords DEF EntryTypes
    <3>. QED BY <3>1, <3>2
  <2>3. CASE d < 0 /\ Deduct(c, -d, "adjustment")
    <3>1. PICK e : e = [customer |-> c, type |-> "adjustment", amount |-> -(-d),
                        session |-> NoSession]
          OBVIOUS
    <3>2. e \in Entry /\ Records(e)
          BY <2>1, <2>3, <3>1, DeductRecords DEF EntryTypes
    <3>. QED BY <2>1, <3>1, <3>2
  <2>. QED BY <1>4, <2>2, <2>3 DEF AdjustBalance, Adjust, TopUp
<1>5. ASSUME ~CompleteTopup, ~BridgeDeduct, ~BridgeRefund,
             \A c \in Customers, d \in Corrections : ~AdjustBalance(c, d)
      PROVE  UNCHANGED <<billingVars, paid, refunded, adjusted>>
      BY <1>5 DEF PNext, Portal, Stripe, Core, BridgeStep, Environment, ReadPlans,
                  BuyWithBalance, PayByCard, RpcTimeout, OpenTopup, Pay, Deliver,
                  ProvisionForCard, BridgeReadPlan, BridgeCreateVM, ContextExpires,
                  CoreRestarts, EditPlan, vars, billingVars, historyVars
<1>6. CASE CompleteTopup /\ ~SessionFree(Head(topupQ))
      BY <1>6 DEF CompleteTopup, historyVars
<1>7. CASE BridgeRefund /\ bridge.expired
      BY <1>7 DEF BridgeRefund, boundVars
<1>. QED
  <2>1. CASE CompleteTopup
        BY <1>1, <1>6, <2>1
  <2>2. CASE BridgeDeduct
    <3>1. UNCHANGED <<refunded, adjusted>>
          BY <2>2 DEF BridgeDeduct
    <3>. QED BY <1>2, <2>2, <3>1
  <2>3. CASE BridgeRefund
        BY <1>3, <1>7, <2>3
  <2>4. ASSUME NEW c \in Customers, NEW d \in Corrections, AdjustBalance(c, d)
        PROVE  \E e \in Entry : /\ Records(e)
                                /\ AdjustBalance(c, d) /\ e.session = NoSession
                                /\ e.customer = c /\ e.amount = d
                                /\ adjusted' = [adjusted EXCEPT ![c] = @ + d]
                                /\ UNCHANGED <<paid, refunded>>
    <3>1. /\ adjusted' = [adjusted EXCEPT ![c] = @ + d]
          /\ UNCHANGED <<paid, refunded>>
          BY <2>4 DEF AdjustBalance
    <3>. QED BY <1>4, <2>4, <3>1
  <2>5. CASE \E c \in Customers, d \in Corrections : AdjustBalance(c, d)
    <3>1. PICK c \in Customers, d \in Corrections : AdjustBalance(c, d)
          BY <2>5
    <3>2. PICK e \in Entry : /\ Records(e)
                             /\ AdjustBalance(c, d) /\ e.session = NoSession
                             /\ e.customer = c /\ e.amount = d
                             /\ adjusted' = [adjusted EXCEPT ![c] = @ + d]
                             /\ UNCHANGED <<paid, refunded>>
          BY <2>4, <3>1
    <3>. QED BY <3>2
  <2>6. CASE \A c \in Customers, d \in Corrections : ~AdjustBalance(c, d)
        BY <1>5, <2>1, <2>2, <2>3, <2>6
  <2>. QED BY <2>5, <2>6

-----------------------------------------------------------------------------
(* Card sessions *)

\* An open session keeps its kind, customer and amount, and stays paid.
LEMMA SessionsMove ==
    ASSUME PInv, [PNext]_vars
    PROVE  \A s \in Sessions :
              /\ session[s].kind # "none" =>
                    /\ session'[s].kind = session[s].kind
                    /\ session'[s].customer = session[s].customer
                    /\ session'[s].amount = session[s].amount
                    /\ session[s].paid => session'[s].paid
              /\ session'[s].paid => session'[s].kind # "none"
<1>. DEFINE Goal == \A s \in Sessions :
              /\ session[s].kind # "none" =>
                    /\ session'[s].kind = session[s].kind
                    /\ session'[s].customer = session[s].customer
                    /\ session'[s].amount = session[s].amount
                    /\ session[s].paid => session'[s].paid
              /\ session'[s].paid => session'[s].kind # "none"
<1>a. session \in [Sessions -> Card] /\ \A s \in Sessions : session[s].paid => session[s].kind # "none"
      BY DEF PInv, PTypeOK, PortalShape, CardsOK
<1>1. ASSUME NEW s \in Sessions, NEW kind \in {"vm_purchase", "balance_topup"},
             NEW c, NEW p, NEW a, OpenSession(s, kind, c, p, a)
      PROVE  Goal
      BY <1>1, <1>a DEF OpenSession
<1>2. ASSUME NEW s \in Sessions, Pay(s)
      PROVE  Goal
      BY <1>2, <1>a DEF Pay, Card
<1>3. ASSUME NEW s \in Sessions, Deliver(s)
      PROVE  Goal
  <2>1. session' = [session EXCEPT ![s].deliveries = @ + 1]
        BY <1>3 DEF Deliver
  <2>. QED BY <1>a, <2>1 DEF Card
<1>4. ASSUME UNCHANGED session PROVE Goal
      BY <1>4, <1>a
<1>. HIDE DEF Goal
<1>5. ASSUME NEW r \in Requests, PayByCard(r)
      PROVE  Goal
  <2>1. ASSUME NEW s \in Sessions,
               OpenSession(s, "vm_purchase", checkout[r].customer,
                           checkout[r].plan, checkout[r].price)
        PROVE  Goal
        BY <1>1, <2>1
  <2>2. ASSUME UNCHANGED session PROVE Goal
        BY <1>4, <2>2
  <2>. QED BY <1>5, <2>1, <2>2 DEF PayByCard
<1>6. ASSUME NEW s \in Sessions, NEW c \in Customers, NEW a \in Amounts,
             OpenTopup(s, c, a)
      PROVE  Goal
  <2>1. PICK p : OpenSession(s, "balance_topup", c, p, a)
        BY <1>6 DEF OpenTopup
  <2>. QED BY <1>1, <2>1
<1>7. ASSUME \A r \in Requests : ~PayByCard(r),
             \A s \in Sessions : ~Pay(s) /\ ~Deliver(s),
             \A s \in Sessions, c \in Customers, a \in Amounts : ~OpenTopup(s, c, a)
      PROVE  UNCHANGED session
  <2>1. Portal => UNCHANGED session
        BY <1>7 DEF Portal, ReadPlans, BuyWithBalance, RpcTimeout
  <2>2. Core => UNCHANGED session
        BY DEF Core, BridgeStep, CompleteTopup, ProvisionForCard, portalVars,
               BridgeReadPlan, BridgeDeduct, BridgeCreateVM, BridgeRefund
  <2>3. Environment => UNCHANGED session
        BY DEF Environment, portalVars, ContextExpires, CoreRestarts, EditPlan, AdjustBalance
  <2>. QED BY <1>7, <2>1, <2>2, <2>3 DEF PNext, Stripe, vars, portalVars
<1>8. Goal
      BY <1>2, <1>3, <1>4, <1>5, <1>6, <1>7
<1>. QED BY <1>8 DEF Goal

\* The top-ups that wait: one is delivered, handled or lost with the others.
LEMMA TopupsMove ==
    ASSUME [PNext]_vars
    PROVE  \/ UNCHANGED topupQ
           \/ topupQ # <<>> /\ topupQ' = Tail(topupQ)
           \/ topupQ' = <<>>
           \/ \E s \in Sessions :
                 /\ topupQ' = Append(topupQ, s)
                 /\ session[s].paid /\ session[s].kind = "balance_topup"
BY DEF PNext, Portal, Stripe, Core, BridgeStep, Environment, vars, queueVars,
       ReadPlans, BuyWithBalance, PayByCard, RpcTimeout, OpenTopup, Pay, Deliver,
       CompleteTopup, ProvisionForCard, BridgeReadPlan, BridgeDeduct, BridgeCreateVM,
       BridgeRefund, ContextExpires, CoreRestarts, EditPlan, AdjustBalance

LEMMA CardsKept == PInv /\ [PNext]_vars => CardsOK'
<1>. SUFFICES ASSUME PInv, [PNext]_vars PROVE CardsOK'
     OBVIOUS
<1>a. /\ topupQ \in Seq(Sessions) /\ CardsOK /\ TypeOK
      BY DEF PInv, PTypeOK, QueueShape
<1>1. \A s \in Sessions : session'[s].paid => session'[s].kind # "none"
      BY SessionsMove
<1>2. ASSUME NEW i \in DOMAIN topupQ'
      PROVE  session'[topupQ'[i]].paid /\ session'[topupQ'[i]].kind = "balance_topup"
  <2>1. ASSUME NEW s \in Sessions, session[s].paid, session[s].kind = "balance_topup"
        PROVE  session'[s].paid /\ session'[s].kind = "balance_topup"
        BY <2>1, SessionsMove
  <2>2. \A j \in DOMAIN topupQ : /\ topupQ[j] \in Sessions /\ session[topupQ[j]].paid
                                 /\ session[topupQ[j]].kind = "balance_topup"
        BY <1>a DEF CardsOK
  <2>3. CASE UNCHANGED topupQ
        BY <2>1, <2>2, <2>3
  <2>4. CASE topupQ # <<>> /\ topupQ' = Tail(topupQ)
    <3>1. i + 1 \in DOMAIN topupQ /\ topupQ'[i] = topupQ[i+1]
          BY <1>a, <2>4, QueueHead
    <3>. QED BY <2>1, <2>2, <3>1
  <2>5. CASE topupQ' = <<>>
        BY <2>5
  <2>6. ASSUME NEW s \in Sessions, topupQ' = Append(topupQ, s),
               session[s].paid, session[s].kind = "balance_topup"
        PROVE  session'[topupQ'[i]].paid /\ session'[topupQ'[i]].kind = "balance_topup"
    <3>1. topupQ'[i] = s \/ (i \in DOMAIN topupQ /\ topupQ'[i] = topupQ[i])
          BY <1>a, <2>6, QueueAppend
    <3>. QED BY <2>1, <2>2, <2>6, <3>1
  <2>. QED BY <2>3, <2>4, <2>5, <2>6, TopupsMove
<1>3. OnlyPaidTopupsCredited'
  <2>1. ASSUME NEW e \in Entry,
               e.session # NoSession =>
                  /\ e.session \in Sessions
                  /\ session[e.session].paid /\ session[e.session].kind = "balance_topup"
                  /\ e.customer = session[e.session].customer
                  /\ e.amount = session[e.session].amount
        PROVE  e.session # NoSession =>
                  /\ session'[e.session].paid /\ session'[e.session].kind = "balance_topup"
                  /\ e.customer = session'[e.session].customer
                  /\ e.amount = session'[e.session].amount
        BY <2>1, SessionsMove
  <2>2. \A i \in DOMAIN ledger :
            /\ ledger[i] \in Entry
            /\ ledger[i].session # NoSession =>
                  /\ ledger[i].session \in Sessions
                  /\ session[ledger[i].session].paid
                  /\ session[ledger[i].session].kind = "balance_topup"
                  /\ ledger[i].customer = session[ledger[i].session].customer
                  /\ ledger[i].amount = session[ledger[i].session].amount
    <3>1. \A i \in DOMAIN ledger : ledger[i] \in Entry
          BY <1>a DEF TypeOK
    <3>2. \A e \in Entry : e.session \in Sessions \cup {NoSession}
          BY DEF Entry
    <3>. QED BY <1>a, <3>1, <3>2 DEF CardsOK, OnlyPaidTopupsCredited
  <2>3. CASE UNCHANGED billingVars
        BY <2>1, <2>2, <2>3 DEF OnlyPaidTopupsCredited, billingVars
  <2>4. ASSUME NEW e \in Entry, Records(e),
               \/ e.session = NoSession
               \/ CompleteTopup /\ e.session = Head(topupQ)
                     /\ e.customer = session[e.session].customer
                     /\ e.amount = session[e.session].amount
        PROVE  OnlyPaidTopupsCredited'
    <3>1. e.session # NoSession =>
             /\ e.session \in Sessions
             /\ session[e.session].paid /\ session[e.session].kind = "balance_topup"
             /\ e.customer = session[e.session].customer
             /\ e.amount = session[e.session].amount
      <4>1. SUFFICES ASSUME e.session # NoSession
                     PROVE  /\ e.session \in Sessions
                            /\ session[e.session].paid
                            /\ session[e.session].kind = "balance_topup"
            BY <2>4
      <4>2. topupQ # <<>>
            BY <2>4, <4>1 DEF CompleteTopup
      <4>3. 1 \in DOMAIN topupQ /\ e.session = topupQ[1] /\ topupQ[1] \in Sessions
            BY <1>a, <2>4, <4>1, <4>2, QueueHead
      <4>. QED BY <1>a, <4>3 DEF CardsOK
    <3>2. \A i \in DOMAIN ledger' : ledger'[i] = e \/ (i \in DOMAIN ledger /\ ledger'[i] = ledger[i])
          BY <1>a, <2>4, AppendEntry DEF TypeOK, Records
    <3>. QED BY <2>1, <2>2, <3>1, <3>2 DEF OnlyPaidTopupsCredited
  <2>. QED BY <2>3, <2>4, PortalEntry
<1>. QED BY <1>1, <1>2, <1>3 DEF CardsOK

-----------------------------------------------------------------------------
(* Requests *)

\* A request keeps its customer once it was read, and is never fresh again.
LEMMA CheckoutsMove ==
    ASSUME PInv, [PNext]_vars
    PROVE  \A r \in Requests :
              /\ checkout[r].stage # "idle" => checkout'[r].customer = checkout[r].customer
              /\ checkout'[r].stage \in {"idle", "priced"} =>
                    checkout[r].stage \in {"idle", "priced"}
<1>. DEFINE Goal == \A r \in Requests :
              /\ checkout[r].stage # "idle" => checkout'[r].customer = checkout[r].customer
              /\ checkout'[r].stage \in {"idle", "priced"} =>
                    checkout[r].stage \in {"idle", "priced"}
<1>a. checkout \in [Requests -> Checkout] /\ deductQ \in Seq(Requests) /\ BridgeShape
      BY DEF PInv, PTypeOK, PortalShape, QueueShape
<1>1. ASSUME NEW r \in Requests, NEW c \in Customers, NEW p \in Plans,
             ReadPlans(r, c, p)
      PROVE  Goal
      BY <1>1, <1>a DEF ReadPlans
<1>2. ASSUME NEW r \in Requests, NEW st, st \notin {"idle", "priced"},
             checkout' = [checkout EXCEPT ![r].stage = st]
      PROVE  Goal
      BY <1>2, <1>a DEF Checkout
<1>3. ASSUME NEW answer \in {"ok", "error"}, deductQ # <<>>, Reply(answer)
      PROVE  Goal
  <2>1. InHand \in Requests
        BY <1>3, <1>a, QueueHead DEF InHand
  <2>. QED BY <1>3, <1>a, <2>1 DEF Reply, Checkout
<1>4. ASSUME UNCHANGED checkout PROVE Goal
      BY <1>4
<1>. HIDE DEF Goal
<1>5. ASSUME NEW r \in Requests, BuyWithBalance(r) \/ PayByCard(r) \/ RpcTimeout(r)
      PROVE  Goal
  <2>1. \E st : st \notin {"idle", "priced"} /\ checkout' = [checkout EXCEPT ![r].stage = st]
        BY <1>5 DEF BuyWithBalance, PayByCard, RpcTimeout
  <2>. QED BY <1>2, <2>1
<1>6. ASSUME BridgeStep PROVE Goal
  <2>1. deductQ # <<>>
        BY <1>6, <1>a DEF BridgeStep, BridgeShape, BridgeReadPlan, BridgeDeduct, BridgeCreateVM,
                          BridgeRefund
  <2>2. Reply("ok") \/ Reply("error") \/ UNCHANGED checkout
        BY <1>6 DEF BridgeStep, BridgeReadPlan, BridgeDeduct, BridgeCreateVM,
                    BridgeRefund, NoReply
  <2>. QED BY <1>3, <1>4, <2>1, <2>2
<1>7. ASSUME ~BridgeStep,
             \A r \in Requests : ~(BuyWithBalance(r) \/ PayByCard(r) \/ RpcTimeout(r)),
             \A r \in Requests, c \in Customers, p \in Plans : ~ReadPlans(r, c, p)
      PROVE  UNCHANGED checkout
  <2>1. Portal => UNCHANGED checkout
        BY <1>7 DEF Portal, OpenTopup
  <2>2. Core => UNCHANGED checkout
        BY <1>7 DEF Core, CompleteTopup, ProvisionForCard, portalVars
  <2>3. Environment => UNCHANGED checkout
        BY DEF Environment, portalVars, ContextExpires, CoreRestarts, EditPlan, AdjustBalance
  <2>4. Stripe => UNCHANGED checkout
        BY DEF Stripe, Pay, Deliver
  <2>. QED BY <2>1, <2>2, <2>3, <2>4 DEF PNext, vars, portalVars
<1>8. Goal
      BY <1>1, <1>4, <1>5, <1>6, <1>7
<1>. QED BY <1>8 DEF Goal

\* A step that leaves the queue, the bridge and the money of the requests alone.
LEMMA QuietRequests ==
    ASSUME PInv, [PNext]_vars,
           UNCHANGED <<deductQ, bridge, paid, refunded, late, crashes>>
    PROVE  RequestsOK'
BY CheckoutsMove DEF PInv, RequestsOK, InCharge, InHand, Queued

\* The bridge answers: what the request cost is settled, or it was late.
LEMMA ReplyKeeps ==
    ASSUME PInv, [PNext]_vars, NEW answer, deductQ # <<>>, Reply(answer),
           UNCHANGED <<paid, late, crashes>>,
           \A r \in Requests \ {InHand} : refunded'[r] = refunded[r],
           refunded'[InHand] \in {0, paid[InHand]},
           InHand \notin late /\ crashes = 0 => refunded'[InHand] = paid[InHand]
    PROVE  RequestsOK'
<1>a. deductQ \in Seq(Requests) /\ RequestsOK
      BY DEF PInv, PTypeOK, QueueShape
<1>1. /\ Len(deductQ) \in Nat \ {0} /\ DOMAIN deductQ = 1..Len(deductQ)
      /\ InHand = deductQ[1] /\ InHand \in Requests /\ 1 \in DOMAIN deductQ
      /\ DOMAIN deductQ' = 1..(Len(deductQ) - 1)
      /\ \A i \in DOMAIN deductQ' : i + 1 \in DOMAIN deductQ /\ deductQ'[i] = deductQ[i+1]
      /\ \A i \in DOMAIN deductQ : i # 1 => i - 1 \in DOMAIN deductQ'
      BY <1>a, QueueHead DEF InHand, Reply
<1>2. bridge'.stage = "idle" /\ ~bridge'.expired
      BY DEF Reply, IdleBridge
<1>3. \A i, j \in DOMAIN deductQ' : deductQ'[i] = deductQ'[j] => i = j
  <2>. SUFFICES ASSUME NEW i \in DOMAIN deductQ', NEW j \in DOMAIN deductQ',
                       deductQ'[i] = deductQ'[j]
                PROVE  i = j
       OBVIOUS
  <2>1. i + 1 = j + 1
        BY <1>a, <1>1 DEF RequestsOK
  <2>. QED BY <1>1, <2>1
<1>4. \A r \in Requests : Queued(r)' => Queued(r) /\ r # InHand
  <2>. SUFFICES ASSUME NEW i \in DOMAIN deductQ'
                PROVE  Queued(deductQ'[i]) /\ deductQ'[i] # InHand
       BY DEF Queued
  <2>1. i + 1 \in DOMAIN deductQ /\ i + 1 # 1 /\ deductQ'[i] = deductQ[i+1]
        BY <1>1
  <2>. QED BY <1>a, <1>1, <2>1 DEF Queued, RequestsOK
<1>5. \A r \in Requests : Queued(r) => Queued(r)' \/ r = InHand
  <2>. SUFFICES ASSUME NEW i \in DOMAIN deductQ, i # 1
                PROVE  \E j \in DOMAIN deductQ' : deductQ'[j] = deductQ[i]
       BY <1>1 DEF Queued
  <2>1. i - 1 \in DOMAIN deductQ' /\ (i - 1) + 1 = i
        BY <1>1
  <2>. QED BY <1>1, <2>1
<1>6. \A i \in DOMAIN deductQ' : paid'[deductQ'[i]] = 0
  <2>. SUFFICES ASSUME NEW i \in DOMAIN deductQ' PROVE paid[deductQ'[i]] = 0
       OBVIOUS
  <2>1. i + 1 \in DOMAIN deductQ /\ i + 1 # 1 /\ deductQ'[i] = deductQ[i+1]
        BY <1>1
  <2>. QED BY <1>a, <2>1 DEF RequestsOK
<1>7. ASSUME NEW r \in Requests, checkout'[r].stage \in {"idle", "priced"}
      PROVE  ~Queued(r)' /\ paid'[r] = 0
      BY <1>4, <1>7, <1>a, CheckoutsMove DEF RequestsOK
<1>8. ASSUME NEW r \in Requests
      PROVE  /\ refunded'[r] \in {0, paid'[r]}
             /\ r \notin late' /\ crashes' = 0 /\ ~Queued(r)' => paid'[r] = refunded'[r]
      BY <1>5, <1>a DEF RequestsOK
<1>. QED BY <1>2, <1>3, <1>6, <1>7, <1>8 DEF RequestsOK, InCharge

\* The bridge goes on with the request in hand.
LEMMA InHandFacts ==
    ASSUME PInv, deductQ # <<>>
    PROVE  /\ InHand \in Requests /\ 1 \in DOMAIN deductQ /\ InHand = deductQ[1]
           /\ Queued(InHand) /\ checkout[InHand].stage \notin {"idle", "priced"}
           /\ ~InCharge => paid[InHand] = 0 /\ refunded[InHand] = 0
           /\ paid \in [Requests -> Nat] /\ refunded \in [Requests -> Nat]
           /\ checkout[InHand].customer \in Customers
<1>1. deductQ \in Seq(Requests) /\ RequestsOK /\ HistoryShape
      BY DEF PInv, PTypeOK, QueueShape
<1>2. InHand \in Requests /\ 1 \in DOMAIN deductQ /\ InHand = deductQ[1]
      BY <1>1, QueueHead DEF InHand
<1>3. checkout[InHand].customer \in Customers
      BY <1>2 DEF PInv, PTypeOK, PortalShape, Checkout
<1>. QED BY <1>1, <1>2, <1>3 DEF RequestsOK, Queued, HistoryShape

LEMMA RequestsKept == PInv /\ [PNext]_vars => RequestsOK'
<1>. SUFFICES ASSUME PInv, [PNext]_vars PROVE RequestsOK'
     OBVIOUS
<1>a. RequestsOK /\ deductQ \in Seq(Requests) /\ BridgeShape
      BY DEF PInv, PTypeOK, QueueShape
<1>1. ASSUME NEW r \in Requests, BuyWithBalance(r)
      PROVE  RequestsOK'
  <2>1. CASE UNCHANGED deductQ
        BY <1>1, <2>1, QuietRequests DEF BuyWithBalance, historyVars, boundVars
  <2>2. CASE deductQ' = Append(deductQ, r)
    <3>1. /\ ~Queued(r) /\ paid[r] = 0 /\ checkout'[r].stage = "waiting"
          /\ UNCHANGED <<bridge, paid, refunded, late, crashes>>
          BY <1>1, <1>a DEF BuyWithBalance, RequestsOK, historyVars, boundVars, PInv, PTypeOK,
                            PortalShape, Checkout
    <3>2. /\ Len(deductQ) \in Nat /\ DOMAIN deductQ = 1..Len(deductQ)
          /\ DOMAIN deductQ' = DOMAIN deductQ \cup {Len(deductQ) + 1}
          /\ deductQ'[Len(deductQ) + 1] = r
          /\ \A i \in DOMAIN deductQ : deductQ'[i] = deductQ[i]
          BY <1>a, <2>2, QueueAppend
    <3>3. \A x \in Requests : Queued(x)' <=> Queued(x) \/ x = r
          BY <3>2 DEF Queued
    <3>4. \A i, j \in DOMAIN deductQ' : deductQ'[i] = deductQ'[j] => i = j
          BY <1>a, <3>1, <3>2 DEF RequestsOK, Queued
    <3>5. \A x \in Requests :
              checkout'[x].stage \in {"idle", "priced"} => ~Queued(x)' /\ paid'[x] = 0
          BY <1>a, <3>1, <3>3, CheckoutsMove DEF RequestsOK
    <3>6. deductQ # <<>> => InHand' = InHand
      <4>1. ASSUME deductQ # <<>> PROVE 1 \in DOMAIN deductQ /\ Head(deductQ) = deductQ[1]
            BY <1>a, <4>1, QueueHead
      <4>2. deductQ' \in Seq(Requests) /\ deductQ' # <<>>
            BY <1>a, <2>2, QueueAppend
      <4>3. Head(deductQ') = deductQ'[1]
            BY <4>2, QueueHead
      <4>. QED BY <3>2, <4>1, <4>3 DEF InHand
    <3>7. bridge.stage # "idle" => deductQ # <<>>
          BY <1>a DEF BridgeShape
    <3>8. \A i \in DOMAIN deductQ' : paid'[deductQ'[i]] = 0 \/ (i = 1 /\ InCharge')
          BY <1>a, <3>1, <3>2 DEF RequestsOK, InCharge
    <3>9. InCharge' => paid'[InHand'] = bridge'.price /\ refunded'[InHand'] = 0
          BY <1>a, <3>1, <3>6, <3>7 DEF RequestsOK, InCharge
    <3>10. bridge'.expired => bridge'.stage # "idle" /\ InHand' \in late'
          BY <1>a, <3>1, <3>6, <3>7 DEF RequestsOK
    <3>11. \A x \in Requests :
              /\ refunded'[x] \in {0, paid'[x]}
              /\ x \notin late' /\ crashes' = 0 /\ ~Queued(x)' => paid'[x] = refunded'[x]
          BY <1>a, <3>1, <3>3 DEF RequestsOK
    <3>. QED BY <3>4, <3>5, <3>8, <3>9, <3>10, <3>11 DEF RequestsOK
  <2>. QED BY <1>1, <2>1, <2>2 DEF BuyWithBalance
<1>2. CASE BridgeReadPlan
  <2>1. deductQ # <<>> /\ ~InCharge /\ UNCHANGED <<paid, refunded, late, crashes>>
        BY <1>2 DEF BridgeReadPlan, InCharge, historyVars, boundVars
  <2>2. CASE Reply("error")
        BY <2>1, <2>2, InHandFacts, ReplyKeeps
  <2>3. ASSUME NoReply, bridge' = [stage |-> "planned",
                                   price |-> plan[checkout[InHand].plan].price,
                                   expired |-> FALSE]
        PROVE  RequestsOK'
    <3>1. bridge'.stage = "planned" /\ ~bridge'.expired /\ UNCHANGED <<deductQ, checkout>>
          BY <2>3 DEF NoReply
    <3>. QED BY <1>a, <2>1, <3>1 DEF RequestsOK, InCharge, Queued, InHand
  <2>. QED BY <1>2, <2>2, <2>3 DEF BridgeReadPlan
<1>3. CASE BridgeDeduct
  <2>1. /\ deductQ # <<>> /\ bridge.stage = "planned" /\ ~InCharge
        /\ UNCHANGED <<refunded, late, crashes>>
        BY <1>3, <1>a DEF BridgeDeduct, BridgeShape, InCharge, historyVars, boundVars
  <2>2. CASE Reply("error") /\ UNCHANGED paid
        BY <2>1, <2>2, InHandFacts, ReplyKeeps
  <2>3. ASSUME NoReply, bridge' = [bridge EXCEPT !.stage = "deducted"],
               paid' = [paid EXCEPT ![InHand] = @ + bridge.price]
        PROVE  RequestsOK'
    <3>1. /\ bridge'.stage = "deducted" /\ bridge'.expired = bridge.expired
          /\ bridge'.price = bridge.price /\ bridge.price \in Nat
          /\ UNCHANGED <<deductQ, checkout, InHand>>
          BY <1>a, <2>3 DEF NoReply, BridgeShape, InHand
    <3>2. /\ paid'[InHand] = bridge.price
          /\ \A r \in Requests \ {InHand} : paid'[r] = paid[r]
          /\ refunded[InHand] = 0 /\ InHand \in Requests /\ InHand = deductQ[1]
          /\ Queued(InHand) /\ checkout[InHand].stage \notin {"idle", "priced"}
          BY <2>1, <2>3, <3>1, InHandFacts
    <3>3. \A i \in DOMAIN deductQ : deductQ[i] \in Requests
          BY <1>a
    <3>4. \A i \in DOMAIN deductQ' : paid'[deductQ'[i]] = 0 \/ (i = 1 /\ InCharge')
      <4>. SUFFICES ASSUME NEW i \in DOMAIN deductQ
                    PROVE  paid'[deductQ[i]] = 0 \/ i = 1
           BY <3>1 DEF InCharge
      <4>1. CASE i = 1
            BY <4>1
      <4>2. CASE i # 1
        <5>1. paid[deductQ[i]] = 0 /\ deductQ[i] # InHand
              BY <1>a, <2>1, <3>2, <4>2, InHandFacts DEF RequestsOK
        <5>. QED BY <3>2, <3>3, <5>1
      <4>. QED BY <4>1, <4>2
    <3>5. \A r \in Requests :
              checkout'[r].stage \in {"idle", "priced"} => ~Queued(r)' /\ paid'[r] = 0
          BY <1>a, <3>1, <3>2 DEF RequestsOK, Queued
    <3>6. \A r \in Requests :
              /\ refunded'[r] \in {0, paid'[r]}
              /\ r \notin late' /\ crashes' = 0 /\ ~Queued(r)' => paid'[r] = refunded'[r]
          BY <1>a, <2>1, <3>1, <3>2 DEF RequestsOK, Queued
    <3>7. /\ InCharge' => paid'[InHand'] = bridge'.price /\ refunded'[InHand'] = 0
          /\ bridge'.expired => bridge'.stage # "idle" /\ InHand' \in late'
          BY <1>a, <2>1, <3>1, <3>2 DEF RequestsOK
    <3>8. \A i, j \in DOMAIN deductQ' : deductQ'[i] = deductQ'[j] => i = j
          BY <1>a, <3>1 DEF RequestsOK
    <3>. QED BY <3>4, <3>5, <3>6, <3>7, <3>8 DEF RequestsOK
  <2>. QED BY <1>3, <2>2, <2>3 DEF BridgeDeduct
<1>4. CASE BridgeCreateVM
  <2>1. /\ deductQ # <<>> /\ UNCHANGED <<paid, refunded, late, crashes>>
        /\ bridge.stage = "deducted"
        BY <1>4, <1>a DEF BridgeCreateVM, BridgeShape, boundVars
  <2>2. bridge' = [bridge EXCEPT !.stage = "refunding"] /\ NoReply
    <3>1. "created" \notin CreateVMOutcomes(PortalVMName)
          BY DEF CreateVMOutcomes, PortalVMName
    <3>. QED BY <1>4, <3>1 DEF BridgeCreateVM
  <2>3. /\ bridge'.stage = "refunding" /\ bridge'.expired = bridge.expired
        /\ bridge'.price = bridge.price /\ UNCHANGED <<deductQ, checkout, InHand>>
        BY <1>a, <2>2 DEF NoReply, BridgeShape, InHand
  <2>. QED BY <1>a, <2>1, <2>3 DEF RequestsOK, InCharge, Queued
<1>5. CASE BridgeRefund
  <2>1. /\ deductQ # <<>> /\ UNCHANGED <<paid, late, crashes>> /\ Reply("error")
        /\ InCharge
        BY <1>5, <1>a DEF BridgeRefund, BridgeShape, InCharge, boundVars
  <2>2. paid[InHand] = bridge.price /\ refunded[InHand] = 0 /\ InHand \in Requests
        BY <1>a, <2>1, InHandFacts DEF RequestsOK
  <2>3. CASE bridge.expired
    <3>1. InHand \in late /\ UNCHANGED refunded
          BY <1>5, <1>a, <2>3 DEF RequestsOK, BridgeRefund
    <3>. QED BY <2>1, <2>2, <3>1, ReplyKeeps
  <2>4. CASE ~bridge.expired
    <3>1. refunded' = [refunded EXCEPT ![InHand] = @ + bridge.price]
          BY <1>5, <2>4 DEF BridgeRefund
    <3>2. /\ refunded'[InHand] = paid[InHand]
          /\ \A r \in Requests \ {InHand} : refunded'[r] = refunded[r]
          BY <2>1, <2>2, <3>1, InHandFacts
    <3>. QED BY <2>1, <3>2, ReplyKeeps
  <2>. QED BY <2>3, <2>4
<1>6. CASE ContextExpires
  <2>1. /\ bridge'.stage = bridge.stage /\ bridge'.price = bridge.price
        /\ bridge.stage # "idle" /\ late' = late \cup {InHand}
        /\ UNCHANGED <<deductQ, checkout, InHand, paid, refunded, crashes>>
        BY <1>6, <1>a DEF ContextExpires, BridgeShape, portalVars, queueVars, boundVars, InHand
  <2>. QED BY <1>a, <2>1 DEF RequestsOK, InCharge, Queued
<1>7. CASE CoreRestarts
  <2>1. /\ deductQ' = <<>> /\ bridge'.stage = "idle" /\ ~bridge'.expired
        /\ UNCHANGED <<checkout, paid, refunded, late>> /\ crashes' # 0
        BY <1>7 DEF CoreRestarts, IdleBridge, portalVars, historyVars, PInv, PTypeOK,
                    HistoryShape
  <2>. QED BY <1>a, <2>1 DEF RequestsOK, InCharge, Queued
<1>8. ASSUME ~BridgeStep, ~ContextExpires, ~CoreRestarts,
             \A r \in Requests : ~BuyWithBalance(r)
      PROVE  UNCHANGED <<deductQ, bridge, paid, refunded, late, crashes>>
  <2>1. Portal => UNCHANGED <<deductQ, bridge, paid, refunded, late, crashes>>
        BY <1>8 DEF Portal, ReadPlans, PayByCard, RpcTimeout, OpenTopup,
                    queueVars, historyVars, boundVars
  <2>2. Core => UNCHANGED <<deductQ, bridge, paid, refunded, late, crashes>>
        BY <1>8 DEF Core, CompleteTopup, ProvisionForCard, historyVars, boundVars
  <2>3. Environment => UNCHANGED <<deductQ, bridge, paid, refunded, late, crashes>>
        BY <1>8 DEF Environment, EditPlan, AdjustBalance, queueVars, historyVars
  <2>4. Stripe => UNCHANGED <<deductQ, bridge, paid, refunded, late, crashes>>
        BY DEF Stripe, Pay, Deliver, queueVars, historyVars, boundVars
  <2>. QED BY <2>1, <2>2, <2>3, <2>4 DEF PNext, vars, queueVars, historyVars, boundVars
<1>. QED BY <1>1, <1>2, <1>3, <1>4, <1>5, <1>6, <1>7, <1>8, QuietRequests DEF BridgeStep

-----------------------------------------------------------------------------
(* The invariant *)

LEMMA PInitHolds == PInit => PInv
<1>. SUFFICES ASSUME PInit PROVE PInv
     OBVIOUS
<1>1. NoCheckout \in Checkout /\ NoCheckout.stage = "idle"
      BY SetAssumption DEF NoCheckout, Checkout, Stages
<1>2. NoCard \in Card /\ NoCard.kind = "none" /\ ~NoCard.paid
      BY SetAssumption DEF NoCard, Card
<1>. HIDE DEF NoCheckout, NoCard
<1>3. TypeOK
      BY DEF PInit, Init, TypeOK
<1>4. PortalShape /\ QueueShape
  <2>1. [price: Prices, enabled: {TRUE}] \subseteq [price: Prices, enabled: BOOLEAN]
        OBVIOUS
  <2>2. plan \in [Plans -> [price: Prices, enabled: BOOLEAN]]
        BY <2>1 DEF PInit
  <2>3. deductQ \in Seq(Requests) /\ topupQ \in Seq(Sessions) /\ provisionQ \in Seq(Sessions)
        BY DEF PInit
  <2>. QED BY <1>1, <1>2, <2>2, <2>3 DEF PInit, PortalShape, QueueShape
<1>5. BridgeShape /\ HistoryShape
      BY DEF PInit, BridgeShape, IdleBridge, HistoryShape
<1>6. PricesKept /\ CardsOK
      BY <1>1, <1>2 DEF PInit, Init, PricesKept, CardsOK, IdleBridge, OnlyPaidTopupsCredited
<1>7. RequestsOK
      BY DEF PInit, IdleBridge, RequestsOK, InCharge, Queued
<1>. QED BY <1>3, <1>4, <1>5, <1>6, <1>7 DEF PInv, PTypeOK

LEMMA PInvKept == PInv /\ [PNext]_vars => PInv'
<1>. SUFFICES ASSUME PInv, [PNext]_vars PROVE PInv'
     OBVIOUS
<1>1. TypeOK'
  <2>1. TypeOK
        BY DEF PInv, PTypeOK
  <2>. QED BY <2>1, BillingStep, StepKeepsType
<1>. QED BY <1>1, PortalKept, RestKept, CardsKept, RequestsKept DEF PInv, PTypeOK

LEMMA PInvAlways == PSpec => []PInv
BY PInitHolds, PInvKept, PTL DEF PSpec

\* Whatever the portal, the webhooks, the bridge and the admin do, in any
\* order, every variable keeps the shape the handlers give it, and the bridge
\* is at work on a request only while it has one.
THEOREM PortalTypeCorrect == PSpec => []PTypeOK
<1>1. PInv => PTypeOK
      BY DEF PInv
<1>. QED BY <1>1, PInvAlways, PTL

\* A webhook credits only a session that was paid and opened as a top-up, to
\* the customer and with the amount of its metadata, however long its message
\* waited in the queue of the core.
THEOREM PaidTopupsOnly == PSpec => []OnlyPaidTopupsCredited
<1>1. PInv => OnlyPaidTopupsCredited
      BY DEF PInv, CardsOK
<1>. QED BY <1>1, PInvAlways, PTL

\* The refund is the deduction and never more, and a request that is through
\* the bridge in time cost nothing unless it got its VM.
THEOREM RequestsEndFairly == PSpec => []DoneIsFair
<1>1. PInv => DoneIsFair
      BY DEF PInv, RequestsOK, DoneIsFair
<1>. QED BY <1>1, PInvAlways, PTL

\* The composition uses the balance only through its commands, with amounts
\* and sessions the balance expects: every behaviour of the portal is one of
\* PrepaidBalance, so whatever PrepaidBalance keeps, the portal keeps.
THEOREM PortalUsesBalance == PSpec => Spec
<1>1. PInit => Init
      BY DEF PInit
<1>. QED BY <1>1, PInvAlways, BillingStep, PTL DEF PSpec, Spec

\* In particular the books of the composed system balance,
THEOREM PortalBooks == PSpec => []BooksBalance
BY PortalUsesBalance, BooksKept, PTL

\* and to a customer it is a purse.
THEOREM PortalPurse == PSpec => ImplementsPurse
BY PortalUsesBalance, Refinement, PTL

-----------------------------------------------------------------------------
(* The money *)

\* The credited sessions are finitely many, and a step adds at most the
\* session of the entry it appends.
LEMMA CreditedMoves ==
    ASSUME TypeOK, TypeOK'
    PROVE  /\ IsFiniteSet(Credited)
           /\ UNCHANGED ledger => Credited' = Credited
           /\ \A e \in Entry : Records(e) =>
                 Credited' = Credited \cup ({e.session} \ {NoSession})
<1>1. \A e \in Entry : e.session \in Sessions \cup {NoSession}
      BY DEF Entry
<1>2. Credited = CardSessions
  <2>1. \A i \in DOMAIN ledger : ledger[i] \in Entry
        BY DEF TypeOK
  <2>. QED BY <1>1, <2>1, SessionAssumption DEF Credited, CardCredited, CardSessions
<1>3. Credited' = CardSessions'
  <2>1. \A i \in DOMAIN ledger' : ledger'[i] \in Entry
        BY DEF TypeOK
  <2>. QED BY <1>1, <2>1, SessionAssumption DEF Credited, CardCredited, CardSessions
<1>4. IsFiniteSet(CardSessions)
  <2>. DEFINE D == 1..Len(ledger)
              T == {ledger[i].session : i \in D}
              f == [i \in D |-> ledger[i].session]
  <2>1. IsFiniteSet(D) /\ D = DOMAIN ledger
    <3>1. 1 \in Int /\ Len(ledger) \in Int /\ D = DOMAIN ledger
          BY DEF TypeOK
    <3>. QED BY <3>1, FS_Interval
  <2>2. f \in Surjection(D, T)
        BY DEF Surjection
  <2>3. IsFiniteSet(T)
    <3>. HIDE DEF D, T, f
    <3>. QED BY <2>1, <2>2, FS_Surjection
  <2>4. CardSessions \subseteq T
        BY <2>1 DEF CardSessions
  <2>. QED BY <2>3, <2>4, FS_Subset
<1>5. UNCHANGED ledger => CardSessions' = CardSessions
      BY DEF CardSessions
<1>6. \A e \in Entry : Records(e) =>
         CardSessions' = CardSessions \cup ({e.session} \ {NoSession})
      BY CardEntriesGrow DEF Records
<1>. QED BY <1>2, <1>3, <1>4, <1>5, <1>6

\* The session at the head of the queue brings its amount to its customer.
LEMMA CardMoneyMoves ==
    ASSUME PInv, PInv', [PNext]_vars, NEW c \in Customers
    PROVE  /\ CardMoney(c) \in Int
           /\ Credited' = Credited => CardMoney(c)' = CardMoney(c)
           /\ \A s \in Sessions :
                 s \notin Credited /\ Credited' = Credited \cup {s}
                    /\ session[s].kind # "none"
                 => CardMoney(c)' = CardMoney(c) +
                       (IF session[s].customer = c THEN session[s].amount ELSE 0)
<1>. DEFINE Old == [s \in Sessions |-> IF session[s].customer = c
                                       THEN session[s].amount ELSE 0]
            New == [s \in Sessions |-> IF session'[s].customer = c
                                       THEN session'[s].amount ELSE 0]
            Same(s) == New[s] = Old[s]
<1>1. /\ IsFiniteSet(Credited) /\ IsFiniteSet(Credited')
      /\ Credited \subseteq Sessions
  <2>1. IsFiniteSet(Credited)
        BY CreditedMoves DEF PInv, PTypeOK
  <2>2. UNCHANGED billingVars \/ \E e \in Entry : Records(e)
        BY PortalEntry
  <2>3. Credited' = Credited \/ \E x : Credited' = Credited \cup ({x} \ {NoSession})
        BY <2>2, CreditedMoves DEF PInv, PTypeOK, billingVars
  <2>4. \A x : Credited \cup ({x} \ {NoSession}) \in {Credited, Credited \cup {x}}
        OBVIOUS
  <2>. QED BY <2>1, <2>3, <2>4, FS_AddElement DEF Credited
<1>2. /\ \A s \in Sessions : Old[s] \in Int /\ New[s] \in Int
      /\ CardMoney(c) = SumFunctionOnSet(Old, Credited)
      /\ CardMoney(c)' = SumFunctionOnSet(New, Credited')
  <2>1. \A s \in Sessions : session[s].amount \in Int /\ session'[s].amount \in Int
        BY DEF PInv, PTypeOK, PortalShape, Card
  <2>. QED BY <2>1 DEF CardMoney
<1>3. \A s \in Sessions : session[s].kind # "none" => Same(s)
      BY SessionsMove
<1>4. \A s \in Credited : session[s].kind # "none"
  <2>1. \A s \in Credited : \E i \in DOMAIN ledger : ledger[i].session = s /\ s # NoSession
        BY SessionAssumption DEF Credited, CardCredited
  <2>. QED BY <2>1 DEF PInv, CardsOK, OnlyPaidTopupsCredited
<1>5. \A s \in Credited : Same(s)
      BY <1>1, <1>3, <1>4
<1>. HIDE DEF Old, New
<1>6. SumFunctionOnSet(New, Credited) = SumFunctionOnSet(Old, Credited)
      BY <1>1, <1>5, SumCongruent
<1>7. CardMoney(c) \in Int
      BY <1>1, <1>2, SumAdds
<1>8. ASSUME NEW s \in Sessions, s \notin Credited, Credited' = Credited \cup {s},
             session[s].kind # "none"
      PROVE  CardMoney(c)' = CardMoney(c) +
                 (IF session[s].customer = c THEN session[s].amount ELSE 0)
  <2>1. SumFunctionOnSet(New, Credited \cup {s}) = SumFunctionOnSet(New, Credited) + New[s]
    <3>1. \A y \in Credited \cup {s} : New[y] \in Int
          BY <1>1, <1>2
    <3>. QED BY <1>1, <1>8, <3>1, SumAddElement
  <2>2. New[s] = Old[s]
        BY <1>3, <1>8
  <2>3. Old[s] = IF session[s].customer = c THEN session[s].amount ELSE 0
        BY DEF Old
  <2>. QED BY <1>2, <1>6, <1>8, <2>1, <2>2, <2>3
<1>. QED BY <1>2, <1>6, <1>7, <1>8

\* What the requests cost moves with what is deducted and refunded.
LEMMA SpentMoves ==
    ASSUME PInv, PInv', [PNext]_vars, NEW c \in Customers
    PROVE  /\ Spent(c) \in Int
           /\ UNCHANGED <<paid, refunded>> => Spent(c)' = Spent(c)
           /\ \A r \in Requests, d \in Int :
                 /\ checkout[r].stage # "idle"
                 /\ paid'[r] - refunded'[r] = (paid[r] - refunded[r]) + d
                 /\ \A x \in Requests \ {r} :
                       paid'[x] = paid[x] /\ refunded'[x] = refunded[x]
                 => Spent(c)' = Spent(c) +
                       (IF checkout[r].customer = c THEN d ELSE 0)
<1>. DEFINE Old == [r \in Requests |-> IF checkout[r].customer = c
                                       THEN paid[r] - refunded[r] ELSE 0]
            New == [r \in Requests |-> IF checkout'[r].customer = c
                                       THEN paid'[r] - refunded'[r] ELSE 0]
<1>1. /\ paid \in [Requests -> Nat] /\ refunded \in [Requests -> Nat]
      /\ paid' \in [Requests -> Nat] /\ refunded' \in [Requests -> Nat]
      BY DEF PInv, PTypeOK, HistoryShape
<1>2. /\ \A r \in Requests : Old[r] \in Int
      /\ Spent(c) = SumFunctionOnSet(Old, Requests)
      /\ Spent(c)' = SumFunctionOnSet(New, Requests)
      BY <1>1 DEF Spent
<1>3. \A r \in Requests : checkout[r].stage # "idle" =>
                             checkout'[r].customer = checkout[r].customer
      BY CheckoutsMove
<1>4. \A r \in Requests : checkout[r].stage = "idle" =>
                             paid[r] = 0 /\ refunded[r] = 0
      BY <1>1 DEF PInv, RequestsOK
<1>5. \A r \in Requests : paid'[r] = paid[r] /\ refunded'[r] = refunded[r] =>
                             New[r] = Old[r]
      BY <1>3, <1>4
<1>6. ASSUME NEW r \in Requests, NEW d \in Int, checkout[r].stage # "idle",
             paid'[r] - refunded'[r] = (paid[r] - refunded[r]) + d,
             \A x \in Requests \ {r} : paid'[x] = paid[x] /\ refunded'[x] = refunded[x]
      PROVE  Spent(c)' = Spent(c) + (IF checkout[r].customer = c THEN d ELSE 0)
  <2>1. PICK m \in Int : m = IF checkout[r].customer = c THEN d ELSE 0
        OBVIOUS
  <2>2. New[r] = Old[r] + m
        BY <1>1, <1>3, <1>6, <2>1
  <2>3. \A x \in Requests \ {r} : New[x] = Old[x]
        BY <1>5, <1>6
  <2>. HIDE DEF Old, New
  <2>4. SumFunctionOnSet(New, Requests) = SumFunctionOnSet(Old, Requests) + m
        BY <1>2, <2>2, <2>3, SumChanges, SetAssumption
  <2>. QED BY <1>2, <2>1, <2>4
<1>. HIDE DEF Old, New
<1>7. Spent(c) \in Int
      BY <1>2, SumAdds, SetAssumption
<1>8. UNCHANGED <<paid, refunded>> => Spent(c)' = Spent(c)
      BY <1>2, <1>5, SumCongruent, SetAssumption
<1>. QED BY <1>6, <1>7, <1>8

LEMMA MoneyInit == PInit => MoneyConserved
<1>. SUFFICES ASSUME PInit, NEW c \in Customers
              PROVE  GetBalance(c) = CardMoney(c) + adjusted[c] - Spent(c)
     BY DEF MoneyConserved
<1>1. GetBalance(c) = 0 /\ adjusted[c] = 0
      BY DEF PInit, Init, GetBalance
<1>2. CardMoney(c) = 0
  <2>1. Credited = {}
        BY DEF PInit, Init, Credited, CardCredited
  <2>. QED BY <2>1, SumEmpty DEF CardMoney
<1>3. Spent(c) = 0
  <2>. DEFINE cost == [r \in Requests |-> IF checkout[r].customer = c
                                          THEN paid[r] - refunded[r] ELSE 0]
  <2>1. \A r \in Requests : cost[r] = 0
        BY DEF PInit
  <2>. HIDE DEF cost
  <2>2. SumFunctionOnSet(cost, Requests) = 0
        BY <2>1, SumZero, SetAssumption
  <2>. QED BY <2>2 DEF cost, Spent
<1>. QED BY <1>1, <1>2, <1>3

LEMMA MoneyKept ==
    ASSUME PInv, PInv', MoneyConserved, [PNext]_vars
    PROVE  MoneyConserved'
<1>. SUFFICES ASSUME NEW c \in Customers
              PROVE  GetBalance(c)' = CardMoney(c)' + adjusted'[c] - Spent(c)'
     BY DEF MoneyConserved
<1>a. /\ TypeOK /\ TypeOK' /\ BridgeShape /\ deductQ \in Seq(Requests)
      /\ topupQ \in Seq(Sessions) /\ CardsOK /\ RequestsOK
      /\ adjusted \in [Customers -> Int]
      BY DEF PInv, PTypeOK, QueueShape, HistoryShape
<1>b. /\ GetBalance(c) = CardMoney(c) + adjusted[c] - Spent(c)
      /\ GetBalance(c) \in Int /\ CardMoney(c) \in Int
      /\ adjusted[c] \in Int /\ Spent(c) \in Int
  <2>1. GetBalance(c) \in Int
        BY <1>a DEF GetBalance, TypeOK
  <2>. QED BY <1>a, <2>1, CardMoneyMoves, SpentMoves DEF MoneyConserved
<1>1. CASE UNCHANGED <<billingVars, paid, refunded, adjusted>>
  <2>1. GetBalance(c)' = GetBalance(c) /\ Credited' = Credited
        BY <1>1, <1>a, CreditedMoves DEF billingVars, GetBalance
  <2>. QED BY <1>1, <1>b, <2>1, CardMoneyMoves, SpentMoves
<1>2. ASSUME NEW e \in Entry, Records(e), CompleteTopup, e.session = Head(topupQ),
             e.customer = session[e.session].customer,
             e.amount = session[e.session].amount,
             UNCHANGED <<paid, refunded, adjusted>>
      PROVE  GetBalance(c)' = CardMoney(c)' + adjusted'[c] - Spent(c)'
  <2>1. 1 \in DOMAIN topupQ /\ e.session = topupQ[1] /\ e.session \in Sessions
        BY <1>2, <1>a, QueueHead DEF CompleteTopup
  <2>2. session[e.session].kind # "none"
        BY <1>a, <2>1 DEF CardsOK
  <2>3. e.session \notin Credited
        BY <1>2, <2>1, SessionAssumption DEF Records, SessionFree, Credited, CardCredited
  <2>4. Credited' = Credited \cup {e.session}
        BY <1>2, <1>a, <2>1, CreditedMoves, SessionAssumption
  <2>5. CardMoney(c)' = CardMoney(c) + Effect(e, c)
        BY <1>2, <2>1, <2>2, <2>3, <2>4, CardMoneyMoves DEF Effect
  <2>6. GetBalance(c)' = GetBalance(c) + Effect(e, c) /\ Effect(e, c) \in Int
        BY <1>2 DEF Records, Effect, Entry
  <2>7. Spent(c)' = Spent(c) /\ adjusted'[c] = adjusted[c]
        BY <1>2, SpentMoves
  <2>. QED BY <1>b, <2>5, <2>6, <2>7
<1>3. ASSUME NEW e \in Entry, Records(e), e.session = NoSession,
             NEW r \in Requests, checkout[r].stage # "idle",
             e.customer = checkout[r].customer,
             paid'[r] - refunded'[r] = (paid[r] - refunded[r]) + (-e.amount),
             \A x \in Requests \ {r} : paid'[x] = paid[x] /\ refunded'[x] = refunded[x],
             UNCHANGED adjusted
      PROVE  GetBalance(c)' = CardMoney(c)' + adjusted'[c] - Spent(c)'
  <2>1. CardMoney(c)' = CardMoney(c) /\ adjusted'[c] = adjusted[c]
        BY <1>3, <1>a, CreditedMoves, CardMoneyMoves
  <2>2. GetBalance(c)' = GetBalance(c) + Effect(e, c) /\ e.amount \in Int
        BY <1>3 DEF Records, Entry
  <2>3. PICK d \in Int : d = -e.amount
        BY <2>2
  <2>4. Spent(c)' = Spent(c) + (IF checkout[r].customer = c THEN d ELSE 0)
        BY <1>3, <2>3, SpentMoves
  <2>. QED BY <1>3, <1>b, <2>1, <2>2, <2>3, <2>4 DEF Effect
<1>4. ASSUME NEW e \in Entry, Records(e), BridgeDeduct, e.session = NoSession,
             e.customer = checkout[InHand].customer, e.amount = -bridge.price,
             paid' = [paid EXCEPT ![InHand] = @ + bridge.price],
             UNCHANGED <<refunded, adjusted>>
      PROVE  GetBalance(c)' = CardMoney(c)' + adjusted'[c] - Spent(c)'
  <2>1. deductQ # <<>> /\ bridge.price \in Nat
        BY <1>4, <1>a DEF BridgeDeduct, BridgeShape
  <2>2. PICK r \in Requests : r = InHand
        BY <2>1, InHandFacts
  <2>3. /\ paid'[r] = paid[r] + bridge.price /\ paid[r] \in Nat /\ refunded[r] \in Nat
        /\ \A x \in Requests \ {r} : paid'[x] = paid[x]
        /\ checkout[r].stage # "idle"
        BY <1>4, <2>1, <2>2, InHandFacts
  <2>. QED BY <1>3, <1>4, <2>1, <2>2, <2>3
<1>5. ASSUME NEW e \in Entry, Records(e), BridgeRefund, e.session = NoSession,
             e.customer = checkout[InHand].customer, e.amount = bridge.price,
             refunded' = [refunded EXCEPT ![InHand] = @ + bridge.price],
             UNCHANGED <<paid, adjusted>>
      PROVE  GetBalance(c)' = CardMoney(c)' + adjusted'[c] - Spent(c)'
  <2>1. deductQ # <<>> /\ bridge.price \in Nat
        BY <1>5, <1>a DEF BridgeRefund, BridgeShape
  <2>2. PICK r \in Requests : r = InHand
        BY <2>1, InHandFacts
  <2>3. /\ refunded'[r] = refunded[r] + bridge.price /\ paid[r] \in Nat /\ refunded[r] \in Nat
        /\ \A x \in Requests \ {r} : refunded'[x] = refunded[x]
        /\ checkout[r].stage # "idle"
        BY <1>5, <2>1, <2>2, InHandFacts
  <2>4. paid'[r] - refunded'[r] = (paid[r] - refunded[r]) + (-e.amount)
    <3>1. paid'[r] = paid[r]
          BY <1>5
    <3>. QED BY <1>5, <2>1, <2>3, <3>1
  <2>5. \A x \in Requests \ {r} : paid'[x] = paid[x] /\ refunded'[x] = refunded[x]
        BY <1>5, <2>3
  <2>. QED BY <1>3, <1>5, <2>2, <2>3, <2>4, <2>5
<1>6. ASSUME NEW e \in Entry, Records(e), NEW x \in Customers, NEW d \in Corrections,
             e.session = NoSession, e.customer = x, e.amount = d,
             adjusted' = [adjusted EXCEPT ![x] = @ + d], UNCHANGED <<paid, refunded>>
      PROVE  GetBalance(c)' = CardMoney(c)' + adjusted'[c] - Spent(c)'
  <2>1. d \in Int
        BY PriceAssumption, AmountAssumption DEF Adjustments
  <2>2. CardMoney(c)' = CardMoney(c) /\ Spent(c)' = Spent(c)
        BY <1>6, <1>a, CreditedMoves, CardMoneyMoves, SpentMoves
  <2>3. GetBalance(c)' = GetBalance(c) + Effect(e, c)
        BY <1>6 DEF Records
  <2>4. adjusted'[c] = adjusted[c] + Effect(e, c)
        BY <1>6, <1>a, <2>1 DEF Effect
  <2>5. Effect(e, c) \in Int
        BY <1>6, <2>1 DEF Effect
  <2>. QED BY <1>b, <2>2, <2>3, <2>4, <2>5
<1>. QED BY <1>1, <1>2, <1>4, <1>5, <1>6, PortalEntry

\* Every cent is accounted for in every reachable state: a customer's balance
\* is what his paid card sessions and his adjustments brought, less what the
\* bridge deducted and did not give back - whatever is delivered twice, lost in
\* a restart, cut off by a deadline or repriced half way.
THEOREM MoneyIsConserved == PSpec => []MoneyConserved
BY MoneyInit, MoneyKept, PInvAlways, PTL DEF PSpec

-----------------------------------------------------------------------------
(* The chat.  What was said is carried by the session, by the ticket of a     *)
(* closing that is under way, or marked as untold; threads of two are found   *)
(* by their members, who are added one by one.                                *)

States == {"bot", "handoff", "closed"}

\* What a request is at keeps to its type.
IsAsk(t) == t.kind = "ask" /\ t.session \in Chats /\ t.exchange \in 1..asked
IsClose(t) == t.kind = "close" /\ t.session \in Chats
IsCreate(t) == t.kind = "create" /\ t.pair \in Pairs
IsJoin(t) ==
    /\ t \in [kind : {"join"}, pair : Pairs, thread : ThreadIds, left : SUBSET Users]
    /\ t.left \subseteq t.pair
IsRequest(t) == t = Idle \/ IsAsk(t) \/ IsClose(t) \/ IsCreate(t) \/ IsJoin(t)

AtWorkOK == DOMAIN task = Procs /\ \A p \in Procs : IsRequest(task[p])

SessionsOK ==
    /\ DOMAIN sessions \subseteq Chats
    /\ \A s \in DOMAIN sessions : sessions[s] \in [state : States, history : SUBSET (1..asked)]
    /\ DOMAIN tickets \subseteq Chats

AskedOK == asked \in Nat /\ events \in Nat /\ answered \subseteq Chats \X (1..asked)

ChatTypeOK == AtWorkOK /\ SessionsOK /\ AskedOK

-----------------------------------------------------------------------------
(* What was said *)

\* A question whose session is gone is one its closing has marked, and what a
\* session that is being closed holds is told or marked already.
Told ==
    /\ \A p \in Procs : task[p].kind = "ask" =>
          task[p].session \in DOMAIN sessions \/ task[p].exchange \in untold
    /\ \A p \in Procs : task[p].kind = "close" =>
          \A n \in 1..asked :
             task[p].session \in DOMAIN sessions /\ n \in sessions[task[p].session].history
                => n \in TicketsOf(task[p].session) \cup untold

SaidInv == ChatTypeOK /\ Told /\ NothingSaidIsLost

\* One request goes on with something else.
LEMMA AtWorkKept ==
    ASSUME ChatTypeOK, asked' \in Nat, asked <= asked', NEW p \in Procs, NEW t,
           Become(p, t), IsRequest(t)'
    PROVE  AtWorkOK'
<1>1. 1..asked \subseteq 1..asked'
      BY DEF ChatTypeOK, AskedOK
<1>2. ASSUME NEW q \in Procs, q # p
      PROVE  IsRequest(task[q])'
  <2>1. PICK u : u = task[q]
        OBVIOUS
  <2>2. task'[q] = u /\ IsRequest(u)
        BY <1>2, <2>1 DEF Become, ChatTypeOK, AtWorkOK
  <2>3. IsRequest(u)'
        BY <1>1, <2>2 DEF IsRequest, IsAsk, IsClose, IsCreate, IsJoin
  <2>. QED BY <2>2, <2>3 DEF IsRequest, IsAsk, IsClose, IsCreate, IsJoin
<1>3. DOMAIN task' = Procs /\ task'[p] = t
      BY DEF Become, ChatTypeOK, AtWorkOK
<1>. QED BY <1>2, <1>3 DEF AtWorkOK, IsRequest, IsAsk, IsClose, IsCreate, IsJoin

\* What becomes of the requests other than p's.
LEMMA OthersGoOn ==
    ASSUME ChatTypeOK, NEW p \in Procs, NEW t, Become(p, t)
    PROVE  task'[p] = t /\ \A q \in Procs : q # p => task'[q] = task[q]
BY DEF Become, ChatTypeOK, AtWorkOK

\* The steps of the staff's threads.
LEMMA ThreadStepKeepsSaid ==
    ASSUME SaidInv, UNCHANGED <<sessions, tickets, asked, answered, untold>>,
           NEW p \in Procs, NEW t, Become(p, t), IsRequest(t),
           t.kind \notin {"ask", "close"}, events' \in Nat
    PROVE  SaidInv'
<1>1. IsRequest(t)'
      BY DEF IsRequest, IsAsk, IsClose, IsCreate, IsJoin
<1>2. AtWorkOK'
      BY <1>1, AtWorkKept DEF SaidInv, ChatTypeOK, AskedOK
<1>3. SessionsOK' /\ AskedOK'
      BY DEF SaidInv, ChatTypeOK, SessionsOK, AskedOK
<1>4. Told'
      BY OthersGoOn DEF SaidInv, Told, TicketsOf
<1>5. NothingSaidIsLost'
      BY DEF SaidInv, NothingSaidIsLost, TicketsOf
<1>. QED BY <1>2, <1>3, <1>4, <1>5 DEF SaidInv, ChatTypeOK

LEMMA AskKeepsSaid ==
    ASSUME SaidInv, NEW p \in Procs, NEW s \in Chats, Ask(p, s)
    PROVE  SaidInv'
<1>. USE DEF SaidInv
<1>1. asked \in Nat /\ asked' = asked + 1 /\ 1..asked \subseteq 1..asked'
      BY DEF Ask, ChatTypeOK, AskedOK
<1>2. UNCHANGED <<tickets, answered, untold, events>>
      BY DEF Ask, history
<1>3. PICK found : found = GetOrCreate(s) /\ sessions' = Put(sessions, s, found)
      BY DEF Ask
<1>4. /\ found \in [state : States, history : SUBSET (1..asked)]
      /\ s \in DOMAIN sessions => found = sessions[s]
      /\ s \notin DOMAIN sessions => found.history = {}
      BY <1>3 DEF GetOrCreate, NewSession, States, ChatTypeOK, SessionsOK
<1>5. /\ DOMAIN sessions' = DOMAIN sessions \cup {s} /\ sessions'[s] = found
      /\ \A c \in DOMAIN sessions : sessions'[c] = sessions[c]
      BY <1>3, <1>4 DEF Put
<1>6. SessionsOK' /\ AskedOK'
  <2>1. \A c \in DOMAIN sessions' : sessions'[c] \in [state : States, history : SUBSET (1..asked)]
        BY <1>4, <1>5 DEF ChatTypeOK, SessionsOK
  <2>2. \A c \in DOMAIN sessions' : sessions'[c] \in [state : States, history : SUBSET (1..asked')]
        BY <1>1, <2>1
  <2>3. answered' \subseteq Chats \X (1..asked')
        BY <1>1, <1>2 DEF ChatTypeOK, AskedOK
  <2>. QED BY <1>1, <1>2, <1>5, <2>2, <2>3 DEF ChatTypeOK, SessionsOK, AskedOK
<1>7. \A q \in Procs : task[q].kind = "close" =>
         \A n \in 1..asked' :
            task[q].session \in DOMAIN sessions' /\ n \in sessions'[task[q].session].history
               => n \in TicketsOf(task[q].session) \cup untold
  <2>. SUFFICES ASSUME NEW q \in Procs, task[q].kind = "close", NEW n \in 1..asked',
                       task[q].session \in DOMAIN sessions',
                       n \in sessions'[task[q].session].history
                PROVE  n \in TicketsOf(task[q].session) \cup untold
       OBVIOUS
  <2>1. task[q].session \in DOMAIN sessions /\ n \in sessions[task[q].session].history
        BY <1>4, <1>5
  <2>2. n \in 1..asked
        BY <2>1 DEF ChatTypeOK, SessionsOK
  <2>. QED BY <2>1, <2>2 DEF Told
<1>8. NothingSaidIsLost'
      BY <1>2, <1>5 DEF NothingSaidIsLost, TicketsOf
<1>9. CASE found.state = "closed"
  <2>1. task' = task
        BY <1>3, <1>9 DEF Ask
  <2>2. AtWorkOK'
        BY <1>1, <2>1 DEF ChatTypeOK, AtWorkOK, IsRequest, IsAsk, IsClose, IsCreate, IsJoin
  <2>3. Told'
        BY <1>2, <1>5, <1>7, <2>1 DEF Told, TicketsOf
  <2>. QED BY <1>6, <1>8, <2>2, <2>3 DEF ChatTypeOK
<1>10. CASE found.state # "closed"
  <2>1. PICK t : t = [kind |-> "ask", session |-> s, exchange |-> asked + 1]
        OBVIOUS
  <2>2. Become(p, t)
        BY <1>3, <1>10, <2>1 DEF Ask
  <2>3. IsRequest(t)'
        BY <1>1, <2>1 DEF IsRequest, IsAsk
  <2>4. AtWorkOK'
        BY <1>1, <2>2, <2>3, AtWorkKept
  <2>5. Told'
    <3>1. task'[p] = t /\ \A q \in Procs : q # p => task'[q] = task[q]
          BY <2>2, OthersGoOn
    <3>2. \A q \in Procs : task'[q].kind = "ask" =>
             task'[q].session \in DOMAIN sessions' \/ task'[q].exchange \in untold'
          BY <1>2, <1>5, <2>1, <3>1 DEF Told
    <3>3. \A q \in Procs : task'[q].kind = "close" => task[q].kind = "close" /\ task'[q] = task[q]
          BY <2>1, <3>1
    <3>. QED BY <1>2, <1>7, <3>2, <3>3 DEF Told, TicketsOf
  <2>. QED BY <1>6, <1>8, <2>4, <2>5 DEF ChatTypeOK
<1>. QED BY <1>9, <1>10

LEMMA AnswerKeepsSaid ==
    ASSUME SaidInv, NEW p \in Procs, Answer(p)
    PROVE  SaidInv'
<1>. USE DEF SaidInv
<1>1. PICK s, n : s = task[p].session /\ n = task[p].exchange
      OBVIOUS
<1>2. s \in Chats /\ n \in 1..asked /\ task[p].kind = "ask"
      BY <1>1 DEF Answer, ChatTypeOK, AtWorkOK, IsRequest, IsAsk, IsClose, IsCreate, IsJoin, Idle
<1>3. /\ sessions' = AppendMessages(s, n) /\ answered' = answered \cup {<<s, n>>}
      /\ untold' = IF Closing(s) # {} THEN untold \cup {n} ELSE untold
      /\ Become(p, Idle) /\ UNCHANGED <<tickets, asked, events>>
      BY <1>1 DEF Answer
<1>4. /\ DOMAIN sessions' = DOMAIN sessions
      /\ \A c \in DOMAIN sessions : c # s => sessions'[c] = sessions[c]
      /\ s \in DOMAIN sessions => sessions'[s] = [sessions[s] EXCEPT !.history = @ \cup {n}]
      BY <1>3 DEF AppendMessages
<1>5. s \in DOMAIN sessions =>
         /\ sessions'[s] \in [state : States, history : SUBSET (1..asked)]
         /\ sessions'[s].history = sessions[s].history \cup {n}
      BY <1>2, <1>4 DEF ChatTypeOK, SessionsOK
<1>6. SessionsOK' /\ AskedOK'
      BY <1>2, <1>3, <1>4, <1>5 DEF ChatTypeOK, SessionsOK, AskedOK
<1>7. IsRequest(Idle)'
      BY DEF IsRequest
<1>8. AtWorkOK'
      BY <1>3, <1>7, AtWorkKept DEF ChatTypeOK, AskedOK
<1>9. untold \subseteq untold' /\ (s \notin DOMAIN sessions => n \in untold)
      BY <1>1, <1>2, <1>3 DEF Told
<1>10. Told'
  <2>1. task'[p] = Idle /\ \A q \in Procs : q # p => task'[q] = task[q]
        BY <1>3, OthersGoOn
  <2>2. \A q \in Procs : task'[q].kind = "ask" =>
           task'[q].session \in DOMAIN sessions' \/ task'[q].exchange \in untold'
        BY <1>4, <1>9, <2>1 DEF Told, Idle
  <2>3. ASSUME NEW q \in Procs, task'[q].kind = "close", NEW m \in 1..asked',
               task'[q].session \in DOMAIN sessions', m \in sessions'[task'[q].session].history
        PROVE  m \in TicketsOf(task[q].session)' \cup untold'
    <3>1. task'[q] = task[q]
          BY <2>1, <2>3 DEF Idle
    <3>2. CASE m \in sessions[task[q].session].history
          BY <1>3, <1>4, <1>9, <2>3, <3>1, <3>2 DEF Told, TicketsOf
    <3>3. CASE m \notin sessions[task[q].session].history
      <4>1. task[q].session = s /\ m = n
            BY <1>4, <1>5, <2>3, <3>1, <3>3
      <4>2. q \in Closing(s)
            BY <2>3, <3>1, <4>1 DEF Closing
      <4>. QED BY <1>3, <4>1, <4>2
    <3>. QED BY <3>2, <3>3
  <2>4. \A q \in Procs : task'[q].kind = "close" =>
           \A m \in 1..asked' :
              task'[q].session \in DOMAIN sessions' /\ m \in sessions'[task'[q].session].history
                 => m \in TicketsOf(task[q].session)' \cup untold'
        BY <2>3
  <2>. QED BY <2>2, <2>4 DEF Told, TicketsOf
<1>11. NothingSaidIsLost'
      BY <1>3, <1>4, <1>5, <1>9 DEF NothingSaidIsLost, TicketsOf
<1>. QED BY <1>6, <1>8, <1>10, <1>11 DEF ChatTypeOK

LEMMA BeginCloseKeepsSaid ==
    ASSUME SaidInv, NEW p \in Procs, NEW s \in Chats, BeginClose(p, s)
    PROVE  SaidInv'
<1>. USE DEF SaidInv
<1>1. PICK t : t = [kind |-> "close", session |-> s]
      OBVIOUS
<1>2. /\ UNCHANGED <<sessions, asked, answered, events>> /\ Become(p, t) /\ s \in DOMAIN sessions
      BY <1>1 DEF BeginClose
<1>3. PICK createTicket \in BOOLEAN :
         /\ tickets' = IF createTicket THEN Put(tickets, s, TicketsOf(s) \cup sessions[s].history)
                       ELSE tickets
         /\ untold' = IF createTicket THEN untold ELSE untold \cup sessions[s].history
      BY DEF BeginClose
<1>4. /\ \A c : TicketsOf(c) \subseteq TicketsOf(c)' /\ untold \subseteq untold'
      /\ DOMAIN tickets' \subseteq Chats
  <2>1. CASE createTicket
        BY <1>3, <2>1 DEF Put, TicketsOf, ChatTypeOK, SessionsOK
  <2>2. CASE ~createTicket
        BY <1>3, <2>2 DEF TicketsOf, ChatTypeOK, SessionsOK
  <2>. QED BY <2>1, <2>2
<1>5. sessions[s].history \subseteq TicketsOf(s)' \cup untold'
  <2>1. CASE createTicket
        BY <1>3, <2>1 DEF Put, TicketsOf
  <2>2. CASE ~createTicket
        BY <1>3, <2>2
  <2>. QED BY <2>1, <2>2
<1>6. SessionsOK' /\ AskedOK'
      BY <1>2, <1>4 DEF ChatTypeOK, SessionsOK, AskedOK
<1>7. IsRequest(t)'
      BY <1>1 DEF IsRequest, IsClose
<1>8. AtWorkOK'
      BY <1>2, <1>7, AtWorkKept DEF ChatTypeOK, AskedOK
<1>9. Told'
  <2>1. task'[p] = t /\ \A q \in Procs : q # p => task'[q] = task[q]
        BY <1>2, OthersGoOn
  <2>2. \A q \in Procs : task'[q].kind = "ask" =>
           task'[q].session \in DOMAIN sessions' \/ task'[q].exchange \in untold'
        BY <1>1, <1>2, <1>4, <2>1 DEF Told
  <2>3. ASSUME NEW q \in Procs, task'[q].kind = "close", NEW m \in 1..asked',
               task'[q].session \in DOMAIN sessions', m \in sessions'[task'[q].session].history
        PROVE  m \in TicketsOf(task[q].session)' \cup untold'
    <3>1. CASE q = p
          BY <1>1, <1>2, <1>5, <2>1, <2>3, <3>1
    <3>2. CASE q # p
      <4>1. PICK c : c = task[q].session
            OBVIOUS
      <4>2. m \in TicketsOf(c) \cup untold
            BY <1>2, <2>1, <2>3, <3>2, <4>1 DEF Told
      <4>3. m \in TicketsOf(c)' \cup untold'
            BY <1>4, <4>2
      <4>4. task'[q].session = c
            BY <2>1, <3>2, <4>1
      <4>. QED BY <4>3, <4>4
    <3>. QED BY <3>1, <3>2
  <2>4. \A q \in Procs : task'[q].kind = "close" =>
           \A m \in 1..asked' :
              task'[q].session \in DOMAIN sessions' /\ m \in sessions'[task'[q].session].history
                 => m \in TicketsOf(task[q].session)' \cup untold'
        BY <2>3
  <2>. QED BY <2>2, <2>4 DEF Told, TicketsOf
<1>10. NothingSaidIsLost'
  <2>1. ASSUME NEW e \in answered'
        PROVE  \/ e[2] \in TicketsOf(e[1])' \cup untold'
               \/ e[1] \in DOMAIN sessions' /\ e[2] \in sessions'[e[1]].history
        BY <1>2, <1>4 DEF NothingSaidIsLost
  <2>. QED BY <2>1 DEF NothingSaidIsLost
<1>. QED BY <1>6, <1>8, <1>9, <1>10 DEF ChatTypeOK

LEMMA EndCloseKeepsSaid ==
    ASSUME SaidInv, NEW p \in Procs, EndClose(p)
    PROVE  SaidInv'
<1>. USE DEF SaidInv
<1>1. PICK s : s = task[p].session
      OBVIOUS
<1>2. task[p].kind = "close" /\ Become(p, Idle) /\ UNCHANGED <<tickets, asked, answered, events>>
      BY DEF EndClose
<1>3. /\ sessions' = IF deployed = "bridge" THEN Drop(sessions, s)
                     ELSE IF s \in DOMAIN sessions THEN [sessions EXCEPT ![s].state = "closed"]
                     ELSE sessions
      /\ untold' = untold \cup InProgress(s)
      BY <1>1 DEF EndClose
<1>4. /\ DOMAIN sessions' \subseteq DOMAIN sessions
      /\ DOMAIN sessions \ {s} \subseteq DOMAIN sessions'
      /\ \A c \in DOMAIN sessions' :
            /\ sessions'[c] \in [state : States, history : SUBSET (1..asked)]
            /\ sessions'[c].history = sessions[c].history
  <2>1. CASE deployed = "bridge"
        BY <1>3, <2>1 DEF Drop, ChatTypeOK, SessionsOK
  <2>2. CASE deployed # "bridge"
        BY <1>3, <2>2 DEF ChatTypeOK, SessionsOK, States
  <2>. QED BY <2>1, <2>2
<1>5. untold \subseteq untold'
      BY <1>3
<1>6. SessionsOK' /\ AskedOK'
      BY <1>2, <1>4 DEF ChatTypeOK, SessionsOK, AskedOK
<1>7. IsRequest(Idle)'
      BY DEF IsRequest
<1>8. AtWorkOK'
      BY <1>2, <1>7, AtWorkKept DEF ChatTypeOK, AskedOK
<1>9. Told'
  <2>1. task'[p] = Idle /\ \A q \in Procs : q # p => task'[q] = task[q]
        BY <1>2, OthersGoOn
  <2>2. ASSUME NEW q \in Procs, task'[q].kind = "ask"
        PROVE  task'[q].session \in DOMAIN sessions' \/ task'[q].exchange \in untold'
    <3>1. task'[q] = task[q]
          BY <2>1, <2>2 DEF Idle
    <3>2. CASE task[q].session = s
          BY <1>3, <2>2, <3>1, <3>2 DEF InProgress, Asking
    <3>3. CASE task[q].session # s
          BY <1>4, <1>5, <2>2, <3>1, <3>3 DEF Told
    <3>. QED BY <3>2, <3>3
  <2>3. \A q \in Procs : task'[q].kind = "close" =>
           \A m \in 1..asked' :
              task'[q].session \in DOMAIN sessions' /\ m \in sessions'[task'[q].session].history
                 => m \in TicketsOf(task[q].session)' \cup untold'
        BY <1>2, <1>4, <1>5, <2>1 DEF Told, TicketsOf, Idle
  <2>. QED BY <2>2, <2>3 DEF Told, TicketsOf
<1>10. NothingSaidIsLost'
  <2>1. ASSUME NEW e \in answered'
        PROVE  \/ e[2] \in TicketsOf(e[1]) \cup untold'
               \/ e[1] \in DOMAIN sessions' /\ e[2] \in sessions'[e[1]].history
    <3>1. e \in answered /\ e[2] \in 1..asked
          BY <1>2, <2>1 DEF ChatTypeOK, AskedOK
    <3>2. CASE e[1] \in DOMAIN sessions /\ e[2] \in sessions[e[1]].history /\ e[1] = s
          BY <1>1, <1>2, <1>5, <3>1, <3>2 DEF Told
    <3>. QED BY <1>4, <1>5, <3>1, <3>2 DEF NothingSaidIsLost
  <2>. QED BY <1>2, <2>1 DEF NothingSaidIsLost, TicketsOf
<1>. QED BY <1>6, <1>8, <1>9, <1>10 DEF ChatTypeOK

LEMMA HandoffKeepsSaid ==
    ASSUME SaidInv, NEW s \in Chats, Handoff(s)
    PROVE  SaidInv'
<1>. USE DEF SaidInv
<1>1. UNCHANGED <<tickets, task, asked, answered, untold, events>>
      BY DEF Handoff
<1>2. sessions' = sessions \/ sessions' = [sessions EXCEPT ![s].state = "handoff"]
      BY DEF Handoff
<1>3. /\ DOMAIN sessions' = DOMAIN sessions
      /\ \A c \in DOMAIN sessions :
            /\ sessions'[c] \in [state : States, history : SUBSET (1..asked)]
            /\ sessions'[c].history = sessions[c].history
      BY <1>2 DEF ChatTypeOK, SessionsOK, States
<1>4. AtWorkOK' /\ SessionsOK' /\ AskedOK'
      BY <1>1, <1>3 DEF ChatTypeOK, AtWorkOK, SessionsOK, AskedOK,
         IsRequest, IsAsk, IsClose, IsCreate, IsJoin
<1>5. Told' /\ NothingSaidIsLost'
      BY <1>1, <1>3 DEF Told, NothingSaidIsLost, TicketsOf
<1>. QED BY <1>4, <1>5 DEF ChatTypeOK

LEMMA RestartKeepsSaid ==
    ASSUME SaidInv, Restart
    PROVE  SaidInv'
<1>. USE DEF SaidInv
<1>1. /\ sessions' = Nothing /\ task' = [p \in Procs |-> Idle]
      /\ untold' = untold \cup 1..asked /\ UNCHANGED <<tickets, asked, answered>>
      /\ events' = events + 1
      BY DEF Restart, HasEvent
<1>2. AtWorkOK' /\ SessionsOK' /\ AskedOK'
      BY <1>1 DEF ChatTypeOK, AtWorkOK, SessionsOK, AskedOK, IsRequest, Nothing
<1>3. Told'
      BY <1>1 DEF Told, Idle
<1>4. NothingSaidIsLost'
      BY <1>1 DEF ChatTypeOK, AskedOK, NothingSaidIsLost
<1>. QED BY <1>2, <1>3, <1>4 DEF ChatTypeOK

\* The steps of the staff's threads leave what was said alone.
LEMMA ThreadsKeepSaid ==
    ASSUME SaidInv, NEW p \in Procs,
           \/ \E pair \in Pairs : FindDirectThread(p, pair)
           \/ \E t \in ThreadIds : CreateDirect(p, t)
           \/ Join(p) \/ Joined(p)
    PROVE  SaidInv'
<1>. USE DEF SaidInv
<1>1. events \in Nat /\ task[p] \in {task[q] : q \in Procs} /\ IsRequest(task[p])
      BY DEF ChatTypeOK, AskedOK, AtWorkOK
<1>2. ASSUME NEW pair \in Pairs, FindDirectThread(p, pair)
      PROVE  SaidInv'
  <2>1. UNCHANGED <<sessions, tickets, asked, answered, untold, events>>
        BY <1>2 DEF FindDirectThread
  <2>2. CASE DirectThreads(pair) = {}
    <3>1. PICK t : t = [kind |-> "create", pair |-> pair]
          OBVIOUS
    <3>2. Become(p, t) /\ IsRequest(t) /\ t.kind \notin {"ask", "close"}
          BY <1>2, <2>2, <3>1 DEF FindDirectThread, IsRequest, IsCreate
    <3>. QED BY <1>1, <2>1, <3>2, ThreadStepKeepsSaid
  <2>3. CASE DirectThreads(pair) # {}
    <3>1. task' = task
          BY <1>2, <2>3 DEF FindDirectThread
    <3>. QED BY <2>1, <3>1 DEF ChatTypeOK, AtWorkOK, SessionsOK, AskedOK, Told,
            NothingSaidIsLost, TicketsOf, IsRequest, IsAsk, IsClose, IsCreate, IsJoin
  <2>. QED BY <2>2, <2>3
<1>3. ASSUME NEW t \in ThreadIds, CreateDirect(p, t)
      PROVE  SaidInv'
  <2>1. UNCHANGED <<sessions, tickets, asked, answered, untold, events>>
        BY <1>3 DEF CreateDirect, history
  <2>2. task[p].kind = "create" /\ task[p].pair \in Pairs
        BY <1>1, <1>3 DEF CreateDirect, IsRequest, IsAsk, IsClose, IsCreate, IsJoin, Idle
  <2>3. PICK next : next = [kind |-> "join", pair |-> task[p].pair, thread |-> t, left |-> task[p].pair]
        OBVIOUS
  <2>4. Become(p, next) /\ next.kind \notin {"ask", "close"}
        BY <1>3, <2>3 DEF CreateDirect
  <2>5. IsRequest(next)
        BY <2>2, <2>3 DEF IsRequest, IsJoin, Pairs
  <2>. QED BY <1>1, <2>1, <2>4, <2>5, ThreadStepKeepsSaid
<1>4. CASE Join(p)
  <2>1. UNCHANGED <<sessions, tickets, asked, answered, untold>>
        BY <1>4 DEF Join
  <2>2. PICK u \in task[p].left :
           /\ events' \in {events, events + 1}
           /\ task' = [task EXCEPT ![p].left = @ \ {u}]
        BY <1>4 DEF Join, HasEvent
  <2>3. IsJoin(task[p])
        BY <1>1, <1>4 DEF Join, IsRequest, IsAsk, IsClose, IsCreate, Idle
  <2>4. PICK t : t = [task[p] EXCEPT !.left = @ \ {u}]
        OBVIOUS
  <2>5. IsJoin(t) /\ t.kind \notin {"ask", "close"}
        BY <2>3, <2>4 DEF IsJoin
  <2>6. Become(p, t)
        BY <2>2, <2>4 DEF Become
  <2>. QED BY <1>1, <2>1, <2>2, <2>5, <2>6, ThreadStepKeepsSaid DEF IsRequest
<1>5. CASE Joined(p)
  <2>1. PICK t : t = Idle
        OBVIOUS
  <2>2. /\ UNCHANGED <<sessions, tickets, asked, answered, untold, events>>
        /\ Become(p, t) /\ t.kind \notin {"ask", "close"} /\ IsRequest(t)
        BY <1>5, <2>1 DEF Joined, Idle, IsRequest
  <2>. QED BY <1>1, <2>2, ThreadStepKeepsSaid
<1>. QED BY <1>2, <1>3, <1>4, <1>5

LEMMA AddMemberKeepsSaid ==
    ASSUME SaidInv, NEW t \in ThreadIds, NEW u \in Users, AddMember(t, u)
    PROVE  SaidInv'
<1>1. UNCHANGED <<sessions, tickets, task, asked, answered, untold>> /\ events' \in {events, events + 1}
      BY DEF AddMember, HasEvent
<1>. QED BY <1>1 DEF SaidInv, ChatTypeOK, AtWorkOK, SessionsOK, AskedOK, Told,
         NothingSaidIsLost, TicketsOf, IsRequest, IsAsk, IsClose, IsCreate, IsJoin

LEMMA SaidHolds == SaidInv /\ [ChatNext]_chatVars => SaidInv'
<1>. SUFFICES ASSUME SaidInv, [ChatNext]_chatVars PROVE SaidInv'
     OBVIOUS
<1>1. ASSUME NEW p \in Procs, NEW s \in Chats, Ask(p, s) \/ BeginClose(p, s)
      PROVE  SaidInv'
      BY <1>1, AskKeepsSaid, BeginCloseKeepsSaid
<1>2. ASSUME NEW p \in Procs, Answer(p) \/ EndClose(p)
      PROVE  SaidInv'
      BY <1>2, AnswerKeepsSaid, EndCloseKeepsSaid
<1>3. ASSUME NEW p \in Procs,
             \/ \E pair \in Pairs : FindDirectThread(p, pair)
             \/ \E t \in ThreadIds : CreateDirect(p, t)
             \/ Join(p) \/ Joined(p)
      PROVE  SaidInv'
      BY <1>3, ThreadsKeepSaid
<1>4. ASSUME NEW s \in Chats, Handoff(s)
      PROVE  SaidInv'
      BY <1>4, HandoffKeepsSaid
<1>5. ASSUME NEW t \in ThreadIds, NEW u \in Users, AddMember(t, u)
      PROVE  SaidInv'
      BY <1>5, AddMemberKeepsSaid
<1>6. CASE UNCHANGED chatVars
      BY <1>6 DEF chatVars, SaidInv, ChatTypeOK, AtWorkOK, SessionsOK, AskedOK, Told,
         NothingSaidIsLost, TicketsOf, IsRequest, IsAsk, IsClose, IsCreate, IsJoin
<1>. QED BY <1>1, <1>2, <1>3, <1>4, <1>5, <1>6, RestartKeepsSaid DEF ChatNext

LEMMA SaidBegins == ChatInit => SaidInv
BY DEF ChatInit, SaidInv, ChatTypeOK, AtWorkOK, SessionsOK, AskedOK, Told, NothingSaidIsLost,
   IsRequest, Nothing, Idle

\* What a customer was answered is in the session or in a ticket of it, however
\* many requests ask and close at a time, but for what was answered while the
\* session was closed, closed without a ticket or lost with the process
\* (bridge.go:527, bridge.go:717).
THEOREM SaidIsKept == ChatSpec => []NothingSaidIsLost
<1>1. SaidInv => NothingSaidIsLost
      BY DEF SaidInv
<1>. QED BY <1>1, SaidBegins, SaidHolds, PTL DEF ChatSpec

-----------------------------------------------------------------------------
(* Threads of two *)

ThreadsOK ==
    /\ DOMAIN task = Procs
    /\ members \subseteq (DOMAIN threads) \X Users
    /\ \A p \in Procs : task[p].kind \in {"create", "join"} => task[p].pair \in Pairs
    /\ \A p \in Procs : task[p].kind = "join" =>
          /\ task[p].thread \in DOMAIN threads /\ threads[task[p].thread] = "direct"
          /\ task[p].left \subseteq task[p].pair

\* Every thread has one request at most that adds its first two members.
OneJoiner ==
    \A p, q \in Procs :
       task[p].kind = "join" /\ task[q].kind = "join" /\ task[p].thread = task[q].thread => p = q

\* A thread to which members are being added can only become that of the pair.
JoinedByTwo ==
    \A p \in Procs : task[p].kind = "join" =>
       \A pair \in Pairs \ blurred :
          pair \subseteq Members(task[p].thread) \cup task[p].pair => pair = task[p].pair

At(p, pair) == task[p].kind \in {"create", "join"} /\ task[p].pair = pair

\* What holds of a pair nothing has come between.
InOrder(pair) ==
    /\ \A p, q \in Procs : At(p, pair) /\ At(q, pair) => p = q
    /\ \A p \in Procs : At(p, pair) /\ task[p].kind = "create" => DirectThreads(pair) = {}
    /\ \A p \in Procs : At(p, pair) /\ task[p].kind = "join" =>
          /\ Members(task[p].thread) = pair \ task[p].left
          /\ DirectThreads(pair) \subseteq {task[p].thread}
    /\ \A t, u \in DirectThreads(pair) : t = u
    /\ \A t \in DirectThreads(pair) : Members(t) = pair
    /\ pair \in DOMAIN opened => opened[pair] \in DirectThreads(pair)

PairsInv == ThreadsOK /\ OneJoiner /\ JoinedByTwo /\ \A pair \in Pairs \ blurred : InOrder(pair)
\* Two are not within two others.
LEMMA PairsApart ==
    ASSUME NEW pair \in Pairs, NEW other \in Pairs, pair \subseteq other
    PROVE  pair = other
<1>1. IsFiniteSet(other) /\ other \subseteq Users
      BY UsersAssumption, FS_Subset DEF Pairs
<1>. QED BY <1>1, FS_Subset DEF Pairs

LEMMA PairHasMembers == ASSUME NEW pair \in Pairs PROVE pair # {}
BY FS_EmptySet DEF Pairs

\* A process' other task, as seen from a pair.
LEMMA PairTask ==
    ASSUME ThreadsOK, NEW p \in Procs, NEW t, Become(p, t)
    PROVE  /\ DOMAIN task' = Procs /\ task'[p] = t
           /\ \A q \in Procs : q # p => task'[q] = task[q]
BY DEF ThreadsOK, Become

\* A step that leaves threads and members alone, of one who is not at the pair.
LEMMA NotAtPair ==
    ASSUME PairsInv, UNCHANGED <<threads, members>>, NEW p \in Procs, NEW t, Become(p, t),
           NEW pair \in Pairs, InOrder(pair), ~At(p, pair),
           t.kind \in {"create", "join"} => t.pair # pair,
           pair \in DOMAIN opened' => pair \in DOMAIN opened /\ opened'[pair] = opened[pair]
    PROVE  InOrder(pair)'
<1>1. task'[p] = t /\ \A q \in Procs : q # p => task'[q] = task[q]
      BY PairTask DEF PairsInv
<1>2. ~At(p, pair)'
      BY <1>1 DEF At
<1>3. \A q \in Procs : At(q, pair)' => At(q, pair) /\ task'[q] = task[q]
      BY <1>1, <1>2 DEF At
<1>4. DirectThreads(pair)' = DirectThreads(pair)
      BY DEF DirectThreads, Members
<1>. QED BY <1>3, <1>4 DEF InOrder, Members

\* The same, for all pairs: the requests of the customers.
LEMMA QuietKeepsPairs ==
    ASSUME PairsInv, UNCHANGED <<threads, members, opened, blurred>>,
           NEW p \in Procs, NEW t, Become(p, t),
           task[p].kind \notin {"create", "join"}, t.kind \notin {"create", "join"}
    PROVE  PairsInv'
<1>1. /\ DOMAIN task' = Procs /\ task'[p] = t
      /\ \A q \in Procs : q # p => task'[q] = task[q]
      BY PairTask DEF PairsInv
<1>2. ThreadsOK' /\ OneJoiner'
      BY <1>1 DEF PairsInv, ThreadsOK, OneJoiner
<1>3. JoinedByTwo'
      BY <1>1 DEF PairsInv, JoinedByTwo, Members
<1>4. ASSUME NEW pair \in Pairs \ blurred
      PROVE  InOrder(pair)'
      BY NotAtPair DEF PairsInv, At
<1>. QED BY <1>2, <1>3, <1>4 DEF PairsInv

\* The same, when no request goes on.
LEMMA SameKeepsPairs ==
    ASSUME PairsInv, UNCHANGED <<threads, members, task, opened, blurred>>
    PROVE  PairsInv'
BY DEF PairsInv, ThreadsOK, OneJoiner, JoinedByTwo, InOrder, DirectThreads, Members, At

LEMMA FindKeepsPairs ==
    ASSUME PairsInv, NEW p \in Procs, NEW two \in Pairs, FindDirectThread(p, two)
    PROVE  PairsInv'
<1>. USE DEF PairsInv
<1>1. UNCHANGED <<threads, members>> /\ task[p].kind = "none"
      BY DEF FindDirectThread, IsIdle
<1>2. CASE DirectThreads(two) = {}
  <2>1. PICK t : t = [kind |-> "create", pair |-> two]
        OBVIOUS
  <2>2. Become(p, t) /\ opened' = opened
        BY <1>2, <2>1 DEF FindDirectThread
  <2>3. /\ blurred \subseteq blurred'
        /\ (\E q \in Procs : At(q, two)) => two \in blurred'
        BY <1>2 DEF FindDirectThread, At
  <2>4. /\ DOMAIN task' = Procs /\ task'[p] = t
        /\ \A q \in Procs : q # p => task'[q] = task[q]
        BY <2>2, PairTask
  <2>5. ThreadsOK' /\ OneJoiner'
        BY <1>1, <2>1, <2>4 DEF ThreadsOK, OneJoiner
  <2>6. JoinedByTwo'
        BY <1>1, <2>1, <2>3, <2>4 DEF JoinedByTwo, Members
  <2>7. ASSUME NEW pair \in Pairs \ blurred', pair # two
        PROVE  InOrder(pair)'
        BY <1>1, <2>1, <2>2, <2>3, <2>7, NotAtPair DEF At
  <2>8. ASSUME two \notin blurred'
        PROVE  InOrder(two)'
    <3>1. \A q \in Procs : ~At(q, two)
          BY <2>3, <2>8
    <3>2. \A q \in Procs : At(q, two)' => q = p
          BY <2>4, <3>1 DEF At
    <3>3. DirectThreads(two)' = {} /\ two \notin DOMAIN opened'
      <4>1. DirectThreads(two)' = DirectThreads(two)
            BY <1>1 DEF DirectThreads, Members
      <4>. QED BY <1>2, <2>2, <2>3, <2>8, <4>1 DEF InOrder
    <3>. QED BY <2>1, <2>4, <3>2, <3>3 DEF InOrder
  <2>. QED BY <2>5, <2>6, <2>7, <2>8
<1>3. CASE DirectThreads(two) # {}
  <2>1. PICK t \in DirectThreads(two) : opened' = Put(opened, two, t)
        BY <1>3 DEF FindDirectThread
  <2>2. UNCHANGED <<task, blurred>>
        BY <1>3 DEF FindDirectThread
  <2>3. ThreadsOK' /\ OneJoiner' /\ JoinedByTwo'
        BY <1>1, <2>2 DEF ThreadsOK, OneJoiner, JoinedByTwo, Members
  <2>4. ASSUME NEW pair \in Pairs \ blurred
        PROVE  InOrder(pair)'
    <3>1. DirectThreads(pair)' = DirectThreads(pair)
          BY <1>1 DEF DirectThreads, Members
    <3>2. pair \in DOMAIN opened' => opened'[pair] \in DirectThreads(pair)
          BY <2>1 DEF Put, InOrder
    <3>. QED BY <1>1, <2>2, <3>1, <3>2 DEF InOrder, Members, At
  <2>. QED BY <2>2, <2>3, <2>4
<1>. QED BY <1>2, <1>3

LEMMA CreateKeepsPairs ==
    ASSUME PairsInv, NEW p \in Procs, NEW new \in ThreadIds, CreateDirect(p, new)
    PROVE  PairsInv'
<1>. USE DEF PairsInv
<1>1. PICK two : two = task[p].pair
      OBVIOUS
<1>2. PICK t : t = [kind |-> "join", pair |-> two, thread |-> new, left |-> two]
      OBVIOUS
<1>3. /\ task[p].kind = "create" /\ new \notin DOMAIN threads
      /\ threads' = Put(threads, new, "direct") /\ Become(p, t)
      /\ UNCHANGED <<members, opened, blurred>>
      BY <1>1, <1>2 DEF CreateDirect, history
<1>4. two \in Pairs
      BY <1>1, <1>3 DEF ThreadsOK
<1>5. /\ DOMAIN task' = Procs /\ task'[p] = t
      /\ \A q \in Procs : q # p => task'[q] = task[q]
      BY <1>3, PairTask
<1>6. /\ DOMAIN threads' = DOMAIN threads \cup {new} /\ threads'[new] = "direct"
      /\ \A u \in DOMAIN threads : threads'[u] = threads[u]
      BY <1>3 DEF Put
<1>7. Members(new) = {} /\ \A u : Members(u)' = Members(u)
      BY <1>3 DEF ThreadsOK, Members
<1>8. \A pair \in Pairs : DirectThreads(pair)' = DirectThreads(pair)
  <2>. SUFFICES ASSUME NEW pair \in Pairs PROVE DirectThreads(pair)' = DirectThreads(pair)
       OBVIOUS
  <2>1. ~(pair \subseteq Members(new))
        BY <1>7, PairHasMembers
  <2>. QED BY <1>6, <1>7, <2>1 DEF DirectThreads
<1>9. ThreadsOK'
      BY <1>2, <1>3, <1>4, <1>5, <1>6 DEF ThreadsOK
<1>10. OneJoiner'
      BY <1>2, <1>3, <1>5 DEF OneJoiner, ThreadsOK
<1>11. JoinedByTwo'
  <2>1. ASSUME NEW q \in Procs, task'[q].kind = "join", NEW pair \in Pairs \ blurred,
               pair \subseteq Members(task'[q].thread) \cup task'[q].pair
        PROVE  pair = task'[q].pair
    <3>1. CASE q = p
          BY <1>2, <1>4, <1>5, <1>7, <2>1, <3>1, PairsApart
    <3>2. CASE q # p
          BY <1>5, <2>1, <3>2 DEF JoinedByTwo
    <3>. QED BY <3>1, <3>2
  <2>2. \A u : Members(u) = {v \in Users : <<u, v>> \in members'}
        BY <1>3 DEF Members
  <2>. QED BY <1>3, <2>1, <2>2 DEF JoinedByTwo, Members
<1>12. ASSUME NEW pair \in Pairs \ blurred
       PROVE  InOrder(pair)'
  <2>1. \A q \in Procs : At(q, pair)' <=> At(q, pair)
        BY <1>1, <1>2, <1>3, <1>5 DEF At
  <2>2. \A q, r \in Procs : At(q, pair)' /\ At(r, pair)' => q = r
        BY <2>1 DEF InOrder
  <2>3. \A q \in Procs : At(q, pair)' /\ task'[q].kind = "create" => DirectThreads(pair)' = {}
        BY <1>2, <1>5, <1>8, <2>1 DEF InOrder
  <2>4. ASSUME NEW q \in Procs, At(q, pair)', task'[q].kind = "join"
        PROVE  /\ Members(task[q].thread)' = pair \ task'[q].left
               /\ DirectThreads(pair)' \subseteq {task'[q].thread}
    <3>1. CASE q = p
      <4>1. pair = two /\ At(p, pair)
            BY <1>2, <1>5, <2>1, <2>4, <3>1 DEF At
      <4>2. DirectThreads(pair)' = {}
            BY <1>3, <1>8, <4>1 DEF InOrder
      <4>3. Members(task[q].thread)' = {}
            BY <1>2, <1>3, <1>5, <1>7, <3>1 DEF Members
      <4>. QED BY <1>2, <1>5, <3>1, <4>1, <4>2, <4>3
    <3>2. CASE q # p
          BY <1>3, <1>5, <1>8, <2>1, <2>4, <3>2 DEF InOrder, Members
    <3>. QED BY <3>1, <3>2
  <2>5. \A u \in DirectThreads(pair)' : Members(u)' = pair
        BY <1>7, <1>8 DEF InOrder
  <2>6. \A u, v \in DirectThreads(pair)' : u = v
        BY <1>8 DEF InOrder
  <2>7. pair \in DOMAIN opened' => opened'[pair] \in DirectThreads(pair)'
        BY <1>3, <1>8 DEF InOrder
  <2>. QED BY <2>2, <2>3, <2>4, <2>5, <2>6, <2>7 DEF InOrder
<1>. QED BY <1>3, <1>9, <1>10, <1>11, <1>12

\* One more member of a thread.
LEMMA OneMore ==
    ASSUME NEW x, NEW u \in Users, members' = members \cup {<<x, u>>}
    PROVE  /\ Members(x)' = Members(x) \cup {u}
           /\ \A y : y # x => Members(y)' = Members(y)
BY DEF Members

LEMMA JoinKeepsPairs ==
    ASSUME PairsInv, NEW p \in Procs, Join(p)
    PROVE  PairsInv'
<1>. USE DEF PairsInv
<1>1. PICK u \in task[p].left :
         /\ \/ members' = members \cup {<<task[p].thread, u>>} /\ UNCHANGED blurred
            \/ blurred' = blurred \cup {task[p].pair} /\ UNCHANGED members
         /\ task' = [task EXCEPT ![p].left = @ \ {u}]
      BY DEF Join
<1>2. /\ task[p].kind = "join" /\ UNCHANGED <<threads, opened>>
      /\ task[p].pair \in Pairs /\ task[p].left \subseteq task[p].pair
      BY DEF Join, ThreadsOK
<1>3. PICK two, x, rest :
         /\ two \in Pairs /\ two = task[p].pair /\ x = task[p].thread
         /\ rest = task[p].left \ {u}
      BY <1>2
<1>4. u \in two /\ u \in Users /\ rest \subseteq two
      BY <1>1, <1>2, <1>3 DEF Pairs
<1>5. PICK t : t = [task[p] EXCEPT !.left = rest]
      OBVIOUS
<1>6. Become(p, t)
      BY <1>1, <1>3, <1>5 DEF Become
<1>7. /\ DOMAIN task' = Procs /\ task'[p] = t
      /\ \A q \in Procs : q # p => task'[q] = task[q]
      BY <1>6, PairTask
<1>8. t.kind = "join" /\ t.pair = two /\ t.thread = x /\ t.left = rest
      BY <1>2, <1>3, <1>5 DEF ThreadsOK
<1>9. blurred \subseteq blurred' /\ members \subseteq members'
      BY <1>1
<1>10. ThreadsOK'
  <2>1. members' \subseteq (DOMAIN threads) \X Users
        BY <1>1, <1>2, <1>3, <1>4 DEF ThreadsOK
  <2>. QED BY <1>2, <1>3, <1>4, <1>7, <1>8, <2>1 DEF ThreadsOK
<1>11. OneJoiner'
      BY <1>2, <1>3, <1>7, <1>8 DEF OneJoiner
<1>12. CASE members' = members \cup {<<x, u>>} /\ blurred' = blurred
  <2>1. Members(x)' = Members(x) \cup {u} /\ \A y : y # x => Members(y)' = Members(y)
        BY <1>4, <1>12, OneMore
  <2>2. \A q \in Procs : q # p /\ task[q].kind = "join" => task[q].thread # x
        BY <1>2, <1>3 DEF OneJoiner
  <2>3. JoinedByTwo'
    <3>1. ASSUME NEW q \in Procs, task'[q].kind = "join", NEW pair \in Pairs \ blurred,
                 pair \subseteq Members(task[q].thread)' \cup task'[q].pair
          PROVE  pair = task'[q].pair
      <4>1. CASE q = p
        <5>1. pair \subseteq Members(x) \cup two
              BY <1>4, <1>7, <1>8, <2>1, <3>1, <4>1
        <5>. QED BY <1>2, <1>3, <1>7, <1>8, <4>1, <5>1 DEF JoinedByTwo
      <4>2. CASE q # p
        <5>1. task'[q] = task[q] /\ task[q].thread # x
              BY <1>7, <2>2, <3>1, <4>2
        <5>2. PICK y : y = task[q].thread
              OBVIOUS
        <5>3. pair \subseteq Members(y) \cup task[q].pair
              BY <2>1, <3>1, <5>1, <5>2
        <5>. QED BY <3>1, <5>1, <5>2, <5>3 DEF JoinedByTwo
      <4>. QED BY <4>1, <4>2
    <3>. QED BY <1>12, <3>1 DEF JoinedByTwo, Members
  <2>4. ASSUME NEW pair \in Pairs \ blurred, pair # two
        PROVE  InOrder(pair)'
    <3>1. ~(pair \subseteq Members(x) \cup two)
          BY <1>2, <1>3, <2>4 DEF JoinedByTwo
    <3>2. ~(pair \subseteq Members(x)) /\ ~(pair \subseteq Members(x)')
          BY <1>4, <2>1, <3>1
    <3>3. DirectThreads(pair)' = DirectThreads(pair)
          BY <1>2, <2>1, <3>2 DEF DirectThreads
    <3>4. \A q \in Procs : At(q, pair)' <=> At(q, pair)
          BY <1>2, <1>3, <1>7, <1>8, <2>4 DEF At
    <3>5. \A q \in Procs : At(q, pair) => q # p
          BY <1>3, <2>4 DEF At
    <3>6. \A q, r \in Procs : At(q, pair)' /\ At(r, pair)' => q = r
          BY <3>4 DEF InOrder
    <3>7. \A q \in Procs : At(q, pair)' /\ task'[q].kind = "create" => DirectThreads(pair)' = {}
          BY <1>7, <3>3, <3>4, <3>5 DEF InOrder
    <3>8. ASSUME NEW q \in Procs, At(q, pair)', task'[q].kind = "join"
          PROVE  /\ Members(task[q].thread)' = pair \ task'[q].left
                 /\ DirectThreads(pair)' \subseteq {task'[q].thread}
      <4>1. PICK y : y = task[q].thread
            OBVIOUS
      <4>2. task'[q] = task[q] /\ y # x /\ At(q, pair)
            BY <1>7, <2>2, <3>4, <3>5, <3>8, <4>1
      <4>3. Members(y) = pair \ task[q].left /\ DirectThreads(pair) \subseteq {y}
            BY <3>8, <4>1, <4>2 DEF InOrder
      <4>4. Members(y)' = pair \ task[q].left
            BY <2>1, <4>2, <4>3
      <4>5. task'[q].thread = y
            BY <4>1, <4>2
      <4>. QED BY <3>3, <4>2, <4>3, <4>4, <4>5 DEF Members
    <3>9. \A y \in DirectThreads(pair)' : Members(y)' = pair
      <4>1. \A y \in DirectThreads(pair) : y # x
            BY <3>2 DEF DirectThreads
      <4>. QED BY <2>1, <3>3, <4>1 DEF InOrder
    <3>10. \A y, z \in DirectThreads(pair)' : y = z
          BY <3>3 DEF InOrder
    <3>11. pair \in DOMAIN opened' => opened'[pair] \in DirectThreads(pair)'
          BY <1>2, <3>3 DEF InOrder
    <3>. QED BY <3>6, <3>7, <3>8, <3>9, <3>10, <3>11 DEF InOrder
  <2>5. ASSUME two \notin blurred
        PROVE  InOrder(two)'
    <3>1. /\ At(p, two) /\ Members(x) = two \ task[p].left /\ DirectThreads(two) \subseteq {x}
          /\ two \in DOMAIN opened => opened[two] \in DirectThreads(two)
          BY <1>2, <1>3, <2>5 DEF InOrder, At
    <3>2. Members(x)' = two \ rest
          BY <1>3, <1>4, <2>1, <3>1
    <3>3. DirectThreads(two) \subseteq DirectThreads(two)' /\ DirectThreads(two)' \subseteq {x}
          BY <1>2, <2>1, <3>1 DEF DirectThreads
    <3>4. \A y \in DirectThreads(two)' : Members(y)' = two
      <4>1. ASSUME NEW y \in DirectThreads(two)'
            PROVE  two \subseteq Members(y)' /\ y = x
            BY <3>3 DEF DirectThreads
      <4>. QED BY <3>2, <4>1
    <3>5. \A q \in Procs : At(q, two)' => q = p
      <4>1. \A q \in Procs : At(q, two) => q = p
            BY <1>3, <2>5, <3>1 DEF InOrder
      <4>. QED BY <1>7, <4>1 DEF At
    <3>6. Members(task[p].thread)' = Members(x)'
      <4>1. task'[p].thread = x
            BY <1>7, <1>8
      <4>. QED BY <4>1 DEF Members
    <3>7. \A q \in Procs : At(q, two)' => task'[q].kind # "create"
          BY <1>7, <1>8, <3>5
    <3>8. \A q \in Procs : At(q, two)' /\ task'[q].kind = "join" =>
             /\ Members(task[q].thread)' = two \ task'[q].left
             /\ DirectThreads(two)' \subseteq {task'[q].thread}
          BY <1>7, <1>8, <3>2, <3>3, <3>5, <3>6
    <3>9. \A y, z \in DirectThreads(two)' : y = z
          BY <3>3
    <3>10. two \in DOMAIN opened' => opened'[two] \in DirectThreads(two)'
          BY <1>2, <3>1, <3>3
    <3>. QED BY <3>4, <3>5, <3>7, <3>8, <3>9, <3>10 DEF InOrder
  <2>. QED BY <1>10, <1>11, <1>12, <2>3, <2>4, <2>5
<1>13. CASE blurred' = blurred \cup {two} /\ members' = members
  <2>1. JoinedByTwo'
    <3>1. \A q \in Procs : task'[q].kind = task[q].kind /\ task'[q].pair = task[q].pair
                            /\ task'[q].thread = task[q].thread
          BY <1>2, <1>3, <1>7, <1>8
    <3>. QED BY <1>9, <1>13, <3>1 DEF JoinedByTwo, Members
  <2>2. ASSUME NEW pair \in Pairs \ blurred'
        PROVE  InOrder(pair)'
    <3>1. pair # two /\ pair \in Pairs \ blurred
          BY <1>13
    <3>2. ~At(p, pair) /\ t.pair # pair
          BY <1>3, <1>8, <3>1 DEF At
    <3>. QED BY <1>2, <1>6, <1>13, <3>1, <3>2, NotAtPair
  <2>. QED BY <1>10, <1>11, <2>1, <2>2
<1>. QED BY <1>1, <1>3, <1>12, <1>13

LEMMA JoinedKeepsPairs ==
    ASSUME PairsInv, NEW p \in Procs, Joined(p)
    PROVE  PairsInv'
<1>. USE DEF PairsInv
<1>1. PICK two, x : two = task[p].pair /\ x = task[p].thread
      OBVIOUS
<1>2. /\ task[p].kind = "join" /\ task[p].left = {} /\ two \in Pairs
      /\ x \in DOMAIN threads /\ threads[x] = "direct"
      /\ opened' = Put(opened, two, x) /\ Become(p, Idle)
      /\ UNCHANGED <<threads, members, blurred>>
      BY <1>1 DEF Joined, ThreadsOK
<1>3. /\ DOMAIN task' = Procs /\ task'[p] = Idle
      /\ \A q \in Procs : q # p => task'[q] = task[q]
      BY <1>2, PairTask
<1>4. ThreadsOK' /\ OneJoiner' /\ JoinedByTwo'
      BY <1>2, <1>3 DEF ThreadsOK, OneJoiner, JoinedByTwo, Idle, Members
<1>5. ASSUME NEW pair \in Pairs \ blurred, pair # two
      PROVE  InOrder(pair)'
  <2>1. ~At(p, pair) /\ Idle.kind \notin {"create", "join"}
        BY <1>1, <1>5 DEF At, Idle
  <2>2. pair \in DOMAIN opened' => pair \in DOMAIN opened /\ opened'[pair] = opened[pair]
        BY <1>2, <1>5 DEF Put
  <2>3. PICK t : t = Idle
        OBVIOUS
  <2>. QED BY <1>2, <2>1, <2>2, <2>3, NotAtPair
<1>6. ASSUME two \notin blurred
      PROVE  InOrder(two)'
  <2>1. InOrder(two) /\ At(p, two)
        BY <1>1, <1>2, <1>6 DEF At
  <2>2. Members(x) = two
    <3>1. Members(task[p].thread) = two \ task[p].left
          BY <1>2, <2>1 DEF InOrder
    <3>. QED BY <1>1, <1>2, <3>1
  <2>3. x \in DirectThreads(two)
        BY <1>2, <2>2 DEF DirectThreads
  <2>4. DirectThreads(two)' = DirectThreads(two)
        BY <1>2 DEF DirectThreads, Members
  <2>5. \A q \in Procs : ~At(q, two)'
        BY <1>3, <2>1 DEF InOrder, At, Idle
  <2>6. opened'[two] = x
        BY <1>2 DEF Put
  <2>. QED BY <1>2, <2>1, <2>3, <2>4, <2>5, <2>6 DEF InOrder, Members
<1>. QED BY <1>2, <1>4, <1>5, <1>6

LEMMA AddMemberKeepsPairs ==
    ASSUME PairsInv, NEW x \in ThreadIds, NEW u \in Users, AddMember(x, u)
    PROVE  PairsInv'
<1>. USE DEF PairsInv
<1>1. /\ x \in DOMAIN threads /\ members' = members \cup {<<x, u>>}
      /\ UNCHANGED <<threads, task, opened>>
      BY DEF AddMember
<1>2. Members(x)' = Members(x) \cup {u} /\ \A y : y # x => Members(y)' = Members(y)
      BY <1>1, OneMore
<1>3. /\ blurred \subseteq blurred'
      /\ \A pair \in Pairs \ blurred' :
            /\ ~(pair \subseteq Members(x)')
            /\ \A q \in Procs : task[q].kind = "join" /\ task[q].thread = x =>
                  ~(pair \subseteq Members(x)' \cup task[q].pair)
  <2>1. PICK all :
           /\ blurred' = blurred \cup {pair \in Pairs : pair \subseteq all}
           /\ all = Members(x) \cup {u} \cup
                 UNION {task[p].pair : p \in {q \in Procs : task[q].kind = "join" /\ task[q].thread = x}}
        BY DEF AddMember
  <2>2. Members(x)' \subseteq all
        BY <1>2, <2>1
  <2>3. ASSUME NEW q \in Procs, task[q].kind = "join", task[q].thread = x
        PROVE  task[q].pair \subseteq all
        BY <2>1, <2>3
  <2>. QED BY <2>1, <2>2, <2>3
<1>4. ThreadsOK' /\ OneJoiner'
      BY <1>1 DEF ThreadsOK, OneJoiner
<1>5. JoinedByTwo'
  <2>1. ASSUME NEW q \in Procs, task[q].kind = "join", NEW pair \in Pairs \ blurred', NEW y,
               y = task[q].thread, pair \subseteq Members(y)' \cup task[q].pair
        PROVE  pair = task[q].pair
    <3>1. y # x
          BY <1>3, <2>1
    <3>2. pair \subseteq Members(y) \cup task[q].pair /\ pair \notin blurred
          BY <1>2, <1>3, <2>1, <3>1
    <3>. QED BY <2>1, <3>2 DEF JoinedByTwo
  <2>. QED BY <1>1, <2>1 DEF JoinedByTwo, Members
<1>6. ASSUME NEW pair \in Pairs \ blurred'
      PROVE  InOrder(pair)'
  <2>1. ~(pair \subseteq Members(x)') /\ ~(pair \subseteq Members(x)) /\ pair \notin blurred
        BY <1>2, <1>3
  <2>2. DirectThreads(pair)' = DirectThreads(pair) /\ x \notin DirectThreads(pair)
        BY <1>1, <1>2, <2>1 DEF DirectThreads
  <2>3. \A q \in Procs : At(q, pair)' <=> At(q, pair)
        BY <1>1 DEF At
  <2>4. ASSUME NEW q \in Procs, At(q, pair), task[q].kind = "join", NEW y, y = task[q].thread
        PROVE  Members(y)' = pair \ task[q].left /\ DirectThreads(pair) \subseteq {y}
    <3>1. y # x
          BY <1>3, <2>4 DEF At
    <3>. QED BY <1>2, <2>1, <2>4, <3>1 DEF InOrder
  <2>5. \A q \in Procs : At(q, pair)' /\ task'[q].kind = "join" =>
           /\ Members(task[q].thread)' = pair \ task'[q].left
           /\ DirectThreads(pair)' \subseteq {task'[q].thread}
        BY <1>1, <2>2, <2>3, <2>4 DEF Members
  <2>6. \A y \in DirectThreads(pair)' : Members(y)' = pair
        BY <1>2, <2>1, <2>2 DEF InOrder
  <2>7. \A q, r \in Procs : At(q, pair)' /\ At(r, pair)' => q = r
        BY <2>1, <2>3 DEF InOrder
  <2>8. \A q \in Procs : At(q, pair)' /\ task'[q].kind = "create" => DirectThreads(pair)' = {}
        BY <1>1, <2>1, <2>2, <2>3 DEF InOrder
  <2>9. /\ \A y, z \in DirectThreads(pair)' : y = z
        /\ pair \in DOMAIN opened' => opened'[pair] \in DirectThreads(pair)'
        BY <1>1, <2>1, <2>2 DEF InOrder
  <2>. QED BY <2>5, <2>6, <2>7, <2>8, <2>9 DEF InOrder
<1>. QED BY <1>4, <1>5, <1>6

LEMMA RestartKeepsPairs ==
    ASSUME PairsInv, Restart
    PROVE  PairsInv'
<1>. USE DEF PairsInv
<1>1. /\ task' = [p \in Procs |-> Idle] /\ UNCHANGED <<threads, members, opened>>
      /\ blurred \subseteq blurred'
      BY DEF Restart
<1>2. ThreadsOK' /\ OneJoiner' /\ JoinedByTwo'
      BY <1>1 DEF ThreadsOK, OneJoiner, JoinedByTwo, Idle
<1>3. ASSUME NEW pair \in Pairs \ blurred'
      PROVE  InOrder(pair)'
  <2>1. InOrder(pair)
        BY <1>1
  <2>2. DirectThreads(pair)' = DirectThreads(pair)
        BY <1>1 DEF DirectThreads, Members
  <2>3. \A q \in Procs : ~At(q, pair)'
        BY <1>1 DEF At, Idle
  <2>. QED BY <1>1, <2>1, <2>2, <2>3 DEF InOrder, Members
<1>. QED BY <1>2, <1>3

LEMMA PairsHold == PairsInv /\ [ChatNext]_chatVars => PairsInv'
<1>. SUFFICES ASSUME PairsInv, [ChatNext]_chatVars PROVE PairsInv'
     OBVIOUS
<1>1. ASSUME NEW p \in Procs, NEW s \in Chats, Ask(p, s)
      PROVE  PairsInv'
  <2>1. UNCHANGED <<threads, members, opened, blurred>> /\ task[p].kind = "none"
        BY <1>1 DEF Ask, IsIdle, history
  <2>2. CASE task' = task
        BY <2>1, <2>2, SameKeepsPairs
  <2>3. CASE Become(p, [kind |-> "ask", session |-> s, exchange |-> asked + 1])
    <3>1. PICK t : t = [kind |-> "ask", session |-> s, exchange |-> asked + 1]
          OBVIOUS
    <3>. QED BY <2>1, <2>3, <3>1, QuietKeepsPairs
  <2>. QED BY <1>1, <2>2, <2>3 DEF Ask
<1>2. ASSUME NEW p \in Procs, NEW s \in Chats, BeginClose(p, s)
      PROVE  PairsInv'
  <2>1. PICK t : t = [kind |-> "close", session |-> s]
        OBVIOUS
  <2>2. /\ UNCHANGED <<threads, members, opened, blurred>> /\ task[p].kind = "none"
        /\ Become(p, t) /\ t.kind = "close"
        BY <1>2, <2>1 DEF BeginClose, IsIdle
  <2>. QED BY <2>2, QuietKeepsPairs
<1>3. ASSUME NEW p \in Procs, Answer(p) \/ EndClose(p)
      PROVE  PairsInv'
  <2>1. PICK t : t = Idle
        OBVIOUS
  <2>2. /\ UNCHANGED <<threads, members, opened, blurred>> /\ task[p].kind \in {"ask", "close"}
        /\ Become(p, t) /\ t.kind = "none"
        BY <1>3, <2>1 DEF Answer, EndClose, Idle
  <2>. QED BY <2>2, QuietKeepsPairs
<1>4. ASSUME NEW p \in Procs,
             \/ \E pair \in Pairs : FindDirectThread(p, pair)
             \/ \E t \in ThreadIds : CreateDirect(p, t)
             \/ Join(p) \/ Joined(p)
      PROVE  PairsInv'
      BY <1>4, FindKeepsPairs, CreateKeepsPairs, JoinKeepsPairs, JoinedKeepsPairs
<1>5. ASSUME NEW s \in Chats, Handoff(s)
      PROVE  PairsInv'
      BY <1>5, SameKeepsPairs DEF Handoff, CanInsert, ThreadTypes
<1>6. ASSUME NEW t \in ThreadIds, NEW u \in Users, AddMember(t, u)
      PROVE  PairsInv'
      BY <1>6, AddMemberKeepsPairs
<1>7. CASE UNCHANGED chatVars
      BY <1>7, SameKeepsPairs DEF chatVars
<1>. QED BY <1>1, <1>2, <1>3, <1>4, <1>5, <1>6, <1>7, RestartKeepsPairs DEF ChatNext

LEMMA PairsBegin == ChatInit => PairsInv
BY DEF ChatInit, PairsInv, ThreadsOK, OneJoiner, JoinedByTwo, InOrder, DirectThreads, At, Nothing, Idle

\* Two members of staff have one thread for the two of them, whichever asks for
\* it and however many ask for others at a time, unless both asked at once, a
\* member could not be added or someone added a third (http/chat.go:251).
THEOREM OneThreadEach == ChatSpec => []OneThreadForTwo
<1>1. PairsInv => OneThreadForTwo
  <2>. SUFFICES ASSUME PairsInv, NEW pair \in Pairs \ blurred
                PROVE  /\ Cardinality(DirectThreads(pair)) <= 1
                       /\ pair \in DOMAIN opened => Members(opened[pair]) = pair
       BY DEF OneThreadForTwo
  <2>1. InOrder(pair)
        BY DEF PairsInv
  <2>2. DirectThreads(pair) = {} \/ \E t : DirectThreads(pair) = {t}
        BY <2>1 DEF InOrder
  <2>3. Cardinality(DirectThreads(pair)) <= 1
    <3>1. CASE DirectThreads(pair) = {}
          BY <3>1, FS_EmptySet
    <3>2. ASSUME NEW t, DirectThreads(pair) = {t}
          PROVE  Cardinality(DirectThreads(pair)) <= 1
      <4>1. Cardinality({t}) = 1
            BY FS_Singleton
      <4>. QED BY <3>2, <4>1
    <3>. QED BY <2>2, <3>1, <3>2
  <2>. QED BY <2>1, <2>3 DEF InOrder
<1>. QED BY <1>1, PairsBegin, PairsHold, PTL DEF ChatSpec
==============================================================================
