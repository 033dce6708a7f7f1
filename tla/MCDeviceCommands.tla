--------------------------- MODULE MCDeviceCommands ---------------------------
\* The instance of DeviceCommands for TLC: one register with two values, channels of
\* capacity one, a second run of the device.
EXTENDS DeviceCommands
===============================================================================
