--------------------------- MODULE BenefitLedger ---------------------------
(***************************************************************************)
(* What billing promises about introductory benefits and founder grants,   *)
(* whatever Stripe, the webhooks and the checkout requests do: a benefit   *)
(* is consumed once and for good, a founder benefit only by the holder of  *)
(* a grant, and a grant goes to one user or is retired, never both.        *)
(***************************************************************************)
CONSTANTS
  Users, Grants,
  Nobody   \* not a user

VARIABLES
  benefit,  \* the introductory benefit a user has consumed, "" for none
  holder,   \* the user a grant has been redeemed by
  retired   \* the grants revoked before use

ledger == <<benefit, holder, retired>>

Holds(u) == \E g \in Grants : holder[g] = u

Init ==
  /\ benefit = [u \in Users |-> ""]
  /\ holder = [g \in Grants |-> Nobody]
  /\ retired = {}

Redeem(u, g) ==
  /\ benefit[u] = "" /\ ~Holds(u)
  /\ holder[g] = Nobody /\ g \notin retired
  /\ holder' = [holder EXCEPT ![g] = u]
  /\ UNCHANGED <<benefit, retired>>

Retire(g) ==
  /\ holder[g] = Nobody
  /\ retired' = retired \cup {g}
  /\ UNCHANGED <<benefit, holder>>

Consume(u, kind) ==
  /\ benefit[u] = ""
  /\ kind = "founder" => Holds(u)
  /\ benefit' = [benefit EXCEPT ![u] = kind]
  /\ UNCHANGED <<holder, retired>>

Next ==
  \/ \E g \in Grants : Retire(g)
  \/ \E u \in Users, g \in Grants : Redeem(u, g)
  \/ \E u \in Users, kind \in {"standard", "founder"} : Consume(u, kind)

Spec == Init /\ [][Next]_ledger

-----------------------------------------------------------------------------
(* A founder benefit belongs to the holder of a grant, no user holds two   *)
(* grants, and a retired grant has no holder.                              *)
LedgerSound ==
  /\ \A u \in Users : benefit[u] = "founder" => Holds(u)
  /\ \A g, h \in Grants :
       holder[g] = holder[h] /\ holder[g] # Nobody => g = h
  /\ \A g \in retired : holder[g] = Nobody
=============================================================================
