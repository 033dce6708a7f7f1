----------------------------- MODULE MCMqttClient -----------------------------
\* Instances of MqttClient for TLC: forwarders that publish and routes, with the
\* bounds of the configurations.
EXTENDS MqttClient
===============================================================================
