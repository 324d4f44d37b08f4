---------------------------- MODULE MCMessaging ----------------------------
\* Messaging with the state of one output, switched on and off again.
EXTENDS Messaging

CONSTANTS output
MCTopics == {output}
MCPayloads == {"ON", "OFF"}
=============================================================================
