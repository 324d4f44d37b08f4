---------------------------- MODULE GateSensing ----------------------------
(***************************************************************************)
(* What is seen of a gate and of its contacts, and how they agree.         *)
(***************************************************************************)
VARIABLES
    config,     \* the gate's configuration
    state,      \* _state
    operation,  \* _current_operation
    contacts,   \* the contacts that are closed
    queue,      \* the contacts' events on their way
    lastSync    \* history: the last event handled was one of those the manager asked for

HasClosed == "closed" \in config.sensors

\* "Contact sensor state always takes priority over command-based state": of a gate with a
\* closed_sensor, once the events of a change are handled, the state is what the contacts say,
\* whatever commands were under way.
SensorsDecide ==
    (HasClosed /\ queue = <<>> /\ ~lastSync) =>
        IF "closed" \in contacts THEN state = "closed"
        ELSE IF "open" \notin config.sensors THEN state = "open"
        ELSE IF "open" \in contacts THEN state = "open"
        ELSE state \in {"opening", "closing"}

\* What a gate with a closed_sensor is thought to be doing is what its state says: no command
\* that waited for its relay puts back an operation that a sensor has ended.
OperationIsState == (HasClosed /\ operation # "idle") => state = operation
=============================================================================
