-------------------------- MODULE MCBrokerIngestion ------------------------
(* Instances of BrokerIngestion for TLC. *)
EXTENDS BrokerIngestion, TLC

CONSTANTS e1, e2, e3, k1

OneKey == [e \in Events |-> k1]
Of(event, kind) == [event |-> event, kind |-> kind]

OwnKey == [e \in Events |-> e]

(* e1 is published twice; e3, which the contract refuses, is last, as no *)
(* consumer gets past it. *)
LogMixed == <<Of(e1, "suspicious"), Of(e2, "suspicious"), Of(e1, "suspicious"),
              Of(e3, "invalid")>>
LogClean == <<Of(e1, "suspicious"), Of(e3, "quiet"), Of(e2, "suspicious"),
              Of(e1, "suspicious"), Of(e2, "suspicious")>>
LogOne == <<Of(e1, "suspicious")>>
LogPoison == <<Of(e3, "unparsable"), Of(e1, "quiet")>>
=============================================================================
