--------------------------- MODULE MCModbusManager ---------------------------
(* Instances of ModbusManager for TLC; the cfg files give its constants. *)
EXTENDS ModbusManager

\* Two devices: the first can end a health round, both can be lost.
MCFaults == << {"no_probe", "broken"}, {"silent", "broken"} >>
=============================================================================
