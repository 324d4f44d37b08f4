--------------------------- MODULE MCModbusDevice ---------------------------
\* ModbusDevice with a group that is read in every cycle, and one that is not.
EXTENDS ModbusDevice

MCSparse == <<FALSE, TRUE>>
=============================================================================
