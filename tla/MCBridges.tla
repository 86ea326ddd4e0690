------------------------------ MODULE MCBridges ------------------------------
EXTENDS Bridges

MCTopics == { <<"modbus", "+", "set">>, <<"modbus", "#">> }
MCCommandTopic == <<"modbus", "1", "set">>

\* A valid command and one just out of range.
MCCommands ==
  [ can    |-> { [can_id |-> n, extended |-> FALSE, data |-> <<0, 255>>] : n \in {2047, 2048} },
    modbus |-> { [function_code |-> 5, value |-> n] : n \in {1, 2} },
    io     |-> { [channel |-> n, value |-> 1] : n \in {3, 4} } ]

=============================================================================
