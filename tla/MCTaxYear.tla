----------------------------- MODULE MCTaxYear -----------------------------
(* Two or three quarters of a business of tax group 2. *)
EXTENDS TaxYear, TLC

CONSTANTS a, b, s1, s2, e1

On(q)   == [quarter |-> q, late |-> FALSE]
Late(q) == [quarter |-> q, late |-> TRUE]

TwoDates  == {On(1), On(2)}
NextDates == {On(2), On(3)}
SomeLate  == {On(1), Late(1), On(2)}

OneYear    == <<1, 1>>
TwoYears   == <<1, 2>>
LongerYear == <<1, 1, 1>>

(* 1% VAT and 2% income tax on what exceeds the threshold. *)
MCConfigs  == <<[group |-> 2, vatRate |-> 1, pitRate |-> 2]>>
MCConfigOf == [q \in Quarters |-> 1]
MCAmount   == [p \in Papers |-> IF p = e1 THEN 1 ELSE 2]
MCSales    == Permutations(Sales)

SellerOps     == PaperOps
SessionOps    == {"declare", "submit", "submit force", "submit ignore"}
AnyOfOne == [r \in Requests |-> SellerOps \cup SessionOps \cup {"close", "reopen"}]
(* One request at a time is what some theorems ask for. *)
ASSUME OneIsAlone == Permits = AnyOfOne /\ Cardinality(Requests) = 1 => Alone

DraftsAndCloses == [r \in Requests |-> {"draft", "close"}]

SellsAndCloses == [r \in Requests |-> SellerOps \cup {"close"}]

(* A seller who also keeps the books, and an accountant with admin rights. *)
RacingPermits ==
  [r \in Requests |->
     IF r = a THEN {"draft", "send", "close", "reopen", "submit force", "pay tax"}
     ELSE {"cancel", "close", "reopen", "submit force", "override"}]

=============================================================================
