-------------------------- MODULE MCPullDelivery --------------------------
(* Instances of PullDelivery for TLC.                                      *)
EXTENDS PullDelivery, TLC
CONSTANTS m1, m2, m3

ThreeMails == {m1, m2, m3}
OneSpam == {m3}

Imap == [carrier |-> "imap", use_idle |-> TRUE, spam_filter |-> FALSE]
Pop3 == [carrier |-> "pop3", use_idle |-> FALSE, spam_filter |-> FALSE]
BothCarriers == {Imap, [Pop3 EXCEPT !.spam_filter = TRUE]}
PlainPop3 == {Pop3}
=============================================================================
