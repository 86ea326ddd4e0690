------------------------ MODULE MCModbusTCPServer ------------------------
EXTENDS ModbusTCPServer
CONSTANTS d1, d2, d3  \* RTU devices; d3 has been removed

\* Registers 1, 2 and 3 and coil 4; a block of two registers stands for the
\* six of a channel; the channel's block is not contiguous.
MCRegisters == 1..3
MCNoMap == <<Free, Free, Free, Free>>
MCMaps ==
  {MCNoMap, <<d1, d1, Free, Free>>, <<d2, Fixed, Free, Free>>,
   <<Unserved, Free, Free, Fixed>>, <<Free, d3, Free, Free>>}
MCChannelTables == {{}, {1, 3, 4}}
MCRequests == {<<1, 2>>}
MCIdRegisters == {1}
==========================================================================
