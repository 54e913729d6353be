------------------------- MODULE MCCarrierHealth -------------------------
(* One account that idles and one that polls, beside the dispatch loop.    *)
(* The cap of the backoff is longer than the longest legitimate silence,   *)
(* as in the code (30 min and 15), and so is the IDLE recycle time.        *)
EXTENDS CarrierHealth
CONSTANTS imap, pop3, dispatch
TwoAccounts == {imap, pop3}
OnlyImap == {imap}
OneSlice == [l \in {imap, pop3, dispatch} |-> 1]
=============================================================================
