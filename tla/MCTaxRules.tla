----------------------------- MODULE MCTaxRules -----------------------------
(* A small catalogue of industries, and the calendar of 2026 and a month. *)
EXTENDS TaxRules, TLC

CONSTANTS r1, r2, trade, retail, kiosk, crafts, popular

MCVat    == [c \in Categories |-> CASE c = trade -> 1 [] c = retail -> 3 [] c = kiosk -> None
                                    [] c = crafts -> None]
MCPit    == [c \in Categories |-> CASE c = trade -> 2 [] c = retail -> None [] c = kiosk -> None
                                    [] c = crafts -> None]
MCParent == [c \in Categories |-> CASE c = trade -> None [] c = retail -> trade
                                    [] c = kiosk -> retail [] c = crafts -> None]
MCTag    == [t \in Tags |-> kiosk]

(* 2026 begins on a Thursday. *)
MC2026   == <<31, 28, 31, 30, 31, 30, 31, 31, 30, 31, 30, 31, 31>>
MCDays   == {90, 91, 180, 273, 365}
MCSums   == {0, 4, 5, 9}
MCSlots  == Permutations(Requests)
=============================================================================
