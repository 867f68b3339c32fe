------------------------------ MODULE Delivery ------------------------------
(***************************************************************************)
(* What a user of the MQTT client counts on: within one connection the     *)
(* messages the broker publishes to it come out complete, in the order     *)
(* they were sent, each exactly once.  A new connection starts afresh (the *)
(* client asks for a clean session).  MqttLink uses the client as if this  *)
(* were all there is to it; MqttClient implements it.                      *)
(***************************************************************************)
EXTENDS Naturals, Sequences

CONSTANT Messages

VARIABLES offered, delivered

deliveryVars == <<offered, delivered>>

DeliveryInit == offered = <<>> /\ delivered = <<>>

Offer ==
    /\ \E m \in Messages : offered' = Append(offered, m)
    /\ UNCHANGED delivered

Deliver ==
    /\ Len(delivered) < Len(offered)
    /\ delivered' = Append(delivered, offered[Len(delivered) + 1])
    /\ UNCHANGED offered

Restart == offered' = <<>> /\ delivered' = <<>>

DeliverySpec == DeliveryInit /\ [][Offer \/ Deliver \/ Restart]_deliveryVars
=============================================================================
