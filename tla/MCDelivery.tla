------------------------------ MODULE MCDelivery ------------------------------
(***************************************************************************)
(* Small instances of Delivery for TLC.                                    *)
(***************************************************************************)
EXTENDS Delivery, TLC

CONSTANTS v1, v2, a1, m1, m2, e, u1, u2, r1, r2

OneServer == {v1}
TwoServers == {v1, v2}
OneHook == {a1}
NoHooks == {}
OneEvent == {e}
NoEvents == {}
OneMail == {m1}
TwoMails == {m1, m2}
OneRequest == {r1}
TwoRequests == {r1, r2}
OneUrl == {u1}
RemoteUrl == {u2}

HooksForEvent == e :> <<a1>>
NoHooksFor == <<>>
OwnerOfHook == a1 :> v1 @@ m1 :> v1
OwnerOfMail == m1 :> v1
OwnerOfMails == m1 :> v1 @@ m2 :> v2

GoodOrBad == {"200", "busy"}
OneRetry == <<1>>
TwoRetries == <<1, 1>>

Symmetry == Permutations({r1, r2})
=============================================================================
