-------------------------------- MODULE MCWorld --------------------------------
(* Small worlds: one profile of habits for the care conflict over bench,    *)
(* injury and promise, one for the conflict over the meal.                   *)
EXTENDS World, TLC

CONSTANTS mara, jonas, rin

NpcOrder == <<mara, jonas, rin>>
Healers == jonas :> 1 @@ mara :> 2
Rates == mara :> 2 @@ jonas :> 1 @@ rin :> 1

Care ==
  mara :> {"wait", "work", "relieve", "treat", "accept-renegotiation", "reject-renegotiation"} @@
  jonas :> {"wait", "work", "relieve", "treat", "propose-renegotiation"} @@
  rin :> {"wait", "relieve", "stay-at-cot", "routine-work"}
Hunger ==
  mara :> {"wait", "eat", "eat-violation", "request-transfer"} @@
  jonas :> {"wait", "eat", "eat-violation", "request-transfer"} @@
  rin :> {"wait", "eat", "eat-violation", "transfer", "refuse-request", "release"}

Case(injury, removal, creditor, debtor, owner) ==
  [injury |-> injury, removal |-> removal,
   creditor |-> creditor, debtor |-> debtor, owner |-> owner]
Cases ==
  {Case(1, None, mara, jonas, rin), Case(None, 5, mara, jonas, rin),
   Case(2, None, rin, mara, jonas)}
Profiles == {Care, Hunger}
=============================================================================
