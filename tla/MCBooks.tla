------------------------------ MODULE MCBooks ------------------------------
(* A carpenter's books: wood is bought, a table is made of it and sold. *)
EXTENDS Books

CONSTANTS wood, table

Voucher(type, wallet, deductible) ==
  [table |-> "voucher", type |-> type, wallet |-> wallet, item |-> "ITEM_A",
   deductible |-> deductible]

Moves(ofWood, ofTables) == [p \in {wood, table} |-> IF p = wood THEN ofWood ELSE ofTables]

MCAbout ==
  <<Voucher("RECEIPT", "CASH", FALSE),
    Voucher("PAYMENT", "CASH", TRUE),
    [table |-> "invoice", moves |-> Moves(0, -1)],
    [table |-> "invoice", moves |-> Moves(0, -1)],
    [table |-> "order", moves |-> Moves(-1, 1)],
    [table |-> "bill", moves |-> Moves(1, 0)]>>

Span(f, t) == [from |-> f, to |-> t]
MCRanges    == {Span(1, 1), Span(2, 2), Span(1, 2)}
FirstDay    == {Span(1, 1)}

MCConfigs ==
  <<[from |-> 1, to |-> 2, group |-> 2, vatRate |-> 1, pitRate |-> 2, method |-> "PERCENTAGE"]>>
=============================================================================
