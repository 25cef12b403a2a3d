------------------------------ MODULE MCDaemons ------------------------------
(***************************************************************************)
(* One local service whose first event mw::com does not know, one remote    *)
(* service with two events of different sizes, and one remote service with  *)
(* an event that has no serializer.                                         *)
(***************************************************************************)
EXTENDS DaemonProperties, TLC

CONSTANTS l1, r1, r2

Event(name, id, ipc, serializer) ==
    [name |-> name, event_id |-> id, ipc |-> ipc, serializer |-> serializer]

MCEvents ==
    (l1 :> <<Event("speed", 32769, FALSE, NullSerializer(8)),
             Event("gear", 32770, TRUE, NullSerializer(4))>>) @@
    (r1 :> <<Event("near", 32769, TRUE, NullSerializer(2)),
             Event("far", 32770, TRUE, NullSerializer(6))>>) @@
    (r2 :> <<Event("raw", 32769, TRUE, NoSerializer),
             Event("text", 32770, TRUE, NullSerializer(3))>>)

\* A local service with an event without serializer beside a large one.
MCEventsFallback ==
    l1 :> <<Event("raw", 32769, TRUE, NoSerializer),
            Event("image", 32770, TRUE, NullSerializer(1490))>>
=============================================================================
