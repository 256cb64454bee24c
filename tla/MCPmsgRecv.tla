---------------------------- MODULE MCPmsgRecv ----------------------------
(* PmsgRecv with short messages: no data, one byte, and a start flag within  *)
(* the data.                                                                *)
EXTENDS PmsgRecv

MCData == {<<>>, <<1>>, <<Flag, 1>>}
=============================================================================
