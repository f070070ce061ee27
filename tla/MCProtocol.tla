----------------------------- MODULE MCProtocol -----------------------------
(* Instances of GrantProtocol for TLC. *)
EXTENDS GrantProtocol, TLC

CONSTANTS g1, g2, f1, f2, s1, s2

\* Both have to sign.
TwoSign == [g \in HighSecurity |-> <<s1, s2>>]

\* One signature is enough.
OneSign == [g \in HighSecurity |-> <<s1>>]

\* Fees of one percent; a threshold below or above any payout.
Plain == [stored |-> TRUE, feeBps |-> 100, threshold |-> 0]
Thresholded == [Plain EXCEPT !.threshold = 50]

PlainConfig == {Plain}
ThresholdConfig == {Plain, Thresholded}
=============================================================================
