------------------------------- MODULE MCPanelRuns -------------------------------
(* One app with two people's accounts, and up to three requests. *)
EXTENDS PanelRuns, TLC

CONSTANTS r1, r2, r3, a1, a2, app

MCTwo == {r1, r2}
MCThree == {r1, r2, r3}
MCOneAccount == {a1}
MCAccounts == {a1, a2}
MCApps == {app}
MCAppOf == [a \in Accounts |-> app]
MCStays == {"get", "names"}
MCAllKinds == {"get", "apply", "names"}
MCSymmetry == Permutations(Requests)
=============================================================================
