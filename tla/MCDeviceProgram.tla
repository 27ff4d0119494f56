-------------------------- MODULE MCDeviceProgram --------------------------
(* Instance of DeviceProgram for TLC: digits 0 and 1, bytes up to 3. *)
EXTENDS DeviceProgram

MCKeyLen == [prv |-> 1, pub |-> 1, hmac |-> 2]

\* Two runs of the generator that differ in every field.
MCSecrets ==
  {[prv |-> <<2>>, id |-> 0, pub |-> <<1>>, hmac |-> <<3, 2>>],
   [prv |-> <<1>>, id |-> 1, pub |-> <<3>>, hmac |-> <<1, 3>>]}
=============================================================================
