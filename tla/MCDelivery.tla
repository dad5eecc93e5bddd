------------------------------ MODULE MCDelivery ------------------------------
(* Two bills of one account, of which the later prints the day of the earlier *)
(* beside its own. *)
EXTENDS Delivery, TLC

CONSTANTS april, july

MCDocs == {april, july}
MCFacts == {"april's day", "april's total", "july's day", "july's total", "account"}
MCMarks ==
    [d \in MCDocs |->
        IF d = april THEN {"april's day", "april's total", "account"}
        ELSE {"july's day", "july's total", "account"}]
MCPrints ==
    [d \in MCDocs |->
        IF d = april THEN {"april's day", "april's total", "account"}
        ELSE {"april's day", "july's day", "july's total", "account"}]
MCRivals == [d \in MCDocs |-> MCDocs \ {d}]

MCSymmetry == Permutations(Names)
===============================================================================
