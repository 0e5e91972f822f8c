---------------------------- MODULE MCRecipients ----------------------------
(***************************************************************************)
(* Small instances of Recipients for TLC.                                  *)
(***************************************************************************)
EXTENDS Recipients, TLC

CONSTANTS s1, e1, e2, m1, r1, r2

OneStream == {s1}
OneEmail == {e1}
TwoEmails == {e1, e2}

\* "hardbounce@" on the bounce-testing domain.
FakeFirst == e1 :> "HardBounce"
\* And "softbounce@" there, which may wait for the webhooks of the first.
BothFake == e1 :> "HardBounce" @@ e2 :> "SoftBounce"
NoFake == <<>>

AllEvents == Events
NoBounceEvents == {"subscriptionChange"}

OneRequest == {r1}
TwoRequests == {r1, r2}
OneMessage == {m1}

Symmetry == Permutations({r1, r2})
=============================================================================
