------------------------- MODULE MCCertificatePush -------------------------
(* Model-checking instance of CertificatePush: command lines that combine   *)
(* the change steps, with and without --apply and its companions.           *)
EXTENDS CertificatePush

MCFlagSets ==
    {f \in SUBSET {"add", "selfSigned", "delete", "nsuDelete", "apply",
                   "cancel", "diagnostics"} : "nsuDelete" \in f => "delete" \in f}
    \cup {{"nsuType", "remove", "getCerts", "update", "csr", "reset", "apply",
           "diagnostics"}}
=============================================================================
