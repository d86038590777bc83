----------------------------- MODULE SalesLedger -----------------------------
(***************************************************************************)
(* What invoicing promises the bookkeeper, whatever requests it serves and *)
(* however they interleave: an invoice holds its goods from the moment it  *)
(* is sent to the tax authority, its worth is income exactly while it is   *)
(* issued, and its content changes only before that.  No request, no       *)
(* phase, no stored total appears here.                                    *)
(***************************************************************************)
EXTENDS Integers

CONSTANTS Invoices, Products, Goods, Lines, Worth, Opening

VARIABLES
  phase,   \* open: may change; held: goods set aside; sold; void: canceled
  content, \* the line items of each invoice
  onHand,  \* stock of the goods
  income   \* worth of the sold invoices

ledger == <<phase, content, onHand, income>>

LedgerInit ==
  /\ phase = [i \in Invoices |-> "open"]
  /\ content \in [Invoices -> Lines]
  /\ onHand = [p \in Goods |-> Opening[p]]
  /\ income = 0

Move(i, from, to) ==
  /\ phase[i] = from
  /\ phase' = [phase EXCEPT ![i] = to]

Take(i) ==
  /\ \A p \in Goods : content[i][p] <= onHand[p]
  /\ onHand' = [p \in Goods |-> onHand[p] - content[i][p]]

PutBack(i) == onHand' = [p \in Goods |-> onHand[p] + content[i][p]]

Write(i) ==
  /\ phase[i] = "open"
  /\ \E l \in Lines : content' = [content EXCEPT ![i] = l]
  /\ UNCHANGED <<phase, onHand, income>>

Hold(i) ==
  /\ Move(i, "open", "held")
  /\ Take(i)
  /\ UNCHANGED <<content, income>>

Release(i) ==
  /\ Move(i, "held", "open")
  /\ PutBack(i)
  /\ UNCHANGED <<content, income>>

Sell(i) ==
  /\ Move(i, "held", "sold")
  /\ income' = income + Worth[content[i]]
  /\ UNCHANGED <<content, onHand>>

Void(i) ==
  /\ Move(i, "sold", "void")
  /\ PutBack(i)
  /\ income' = income - Worth[content[i]]
  /\ UNCHANGED content

LedgerNext ==
  \E i \in Invoices : Write(i) \/ Hold(i) \/ Release(i) \/ Sell(i) \/ Void(i)

LedgerSpec == LedgerInit /\ [][LedgerNext]_ledger
=============================================================================
