------------------------------ MODULE MCTracking ------------------------------
(***************************************************************************)
(* Small instances of Tracking for TLC.                                    *)
(***************************************************************************)
EXTENDS Tracking

CONSTANTS r1, r2, l1

TwoRecipients == {r1, r2}
OneLink == {l1}

Draft1 == [to |-> <<r1, r2>>, sandboxed |-> FALSE, trackOpens |-> TRUE,
           trackLinks |-> "HtmlOnly", html |-> {l1}, text |-> {l1}]
OneDraft == {Draft1}
OpensAndClicks == {"opens", "clicks"}
TwoTypes == {"SoftBounce", "SpamComplaint"}
=============================================================================
