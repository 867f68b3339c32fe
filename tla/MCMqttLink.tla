----------------------------- MODULE MCMqttLink -----------------------------
(* Small instances of MqttLink for TLC.                                    *)
EXTENDS MqttLink

TwoStates == <<"cover", "wind">>
OneState == <<"cover">>
OneConfig == <<"config">>
TwoCommands == <<"set", "reset">>
OneCommand == <<"set">>
=============================================================================
