---------------------------- MODULE TravelClaims ----------------------------
(***************************************************************************)
(* What a comment of the repository says about preset goods, and the code  *)
(* does not do even when nothing fails.                                    *)
(***************************************************************************)
EXTENDS MCTravel

\* No statement fails and no process dies.
CalmSpec == Init /\ [][\E w \in Workers : Work(w) \/ RejectBody(w) \/ Accept(w)]_vars

\* travel_info.h:500-502, "true,是预置的物品": goods that an offer points to by
\* a preset id, and that are not its owner's, come from the schema script.
PresetGoodsAreFromTheScript ==
  \A t \in Offers, i \in OfferId :
    row[t][i] # None /\ row[t][i].goods \in Preset =>
      row["goods"][row[t][i].goods].by \in {System, row[t][i].by}
=============================================================================
