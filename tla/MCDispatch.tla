---------------------------- MODULE MCDispatch ----------------------------
(* Two witness requests of one wallet with different delivery plans; the   *)
(* second is encrypted, or may be a message of any other type.            *)
EXTENDS Dispatch, TLC
CONSTANTS m1, m2, w1
MCMessages == {m1, m2}
MCWallets == {w1}
MCWalletOf == [m \in MCMessages |-> w1]
MCTypesOf == (m1 :> {"witness"}) @@ (m2 :> Types)
MCPlanOf == (m1 :> "deposit") @@ (m2 :> "refuse")
MCResponses == {{"cheque", "certificate", "peer_audit"}, {"scar_consent"}}
MCSealed == {m2}
MCSkipLists == {{m1, m2}}
MCAverages == {2}
=============================================================================
