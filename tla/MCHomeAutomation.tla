-------------------------- MODULE MCHomeAutomation --------------------------
(* Instances of HomeAutomation for TLC. *)
EXTENDS HomeAutomation

MCPublisher == {Sensor}

\* Off, a query by number, past the range, negative.
MCPayloads  == {{}, {0}, {12}, {-1}}
DocPayloads == {{0}, {5}, {50}}

MCReadings  == {70}
=============================================================================
