---------------------------- MODULE MCMqttClient ----------------------------
(* A small instance of MqttClient for TLC: packets of two bytes, and one  *)
(* that the buffer cannot hold.                                            *)
EXTENDS MqttClient

MCPacketSizes == {2, 4}
=============================================================================
