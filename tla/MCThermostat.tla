---------------------------- MODULE MCThermostat ----------------------------
\* Thermostat with two sensors whose readings are on either side of the band, or in it.
EXTENDS Thermostat

CONSTANTS hall, bath   \* the sensors
MCSensors == {hall, bath}
=============================================================================
