------------------------ MODULE MCControlEndpoint ------------------------
(***************************************************************************)
(* An instance of ControlEndpoint for TLC.  The descriptor fills two       *)
(* packets; a read of 2 bytes is cut off and ends without an empty packet, *)
(* one of 6 bytes ends with one.  A call is one packet, as it is in the    *)
(* code (64 bytes).                                                        *)
(***************************************************************************)
EXTENDS ControlEndpoint

Req(kind, value, len) == [kind |-> kind, wValue |-> value, wLength |-> len]

MCRequests == {Req("GET_DESCRIPTOR", 0, 2), Req("GET_DESCRIPTOR", 0, 6),
               Req("SET_IDLE", 0, 0), Req("SET_REPORT", 0, 2),
               Req("SET_ADDRESS", 1, 0), Req("SET_ADDRESS", 0, 0),
               Req("SET_FEATURE", 0, 0),
               Req("SET_CONFIGURATION", 0, 0), Req("SET_CONFIGURATION", 1, 0),
               Req("UNKNOWN_CONFIGURATION", 2, 0), Req("UNSUPPORTED", 0, 0)}

MCDataLen == [GET_DESCRIPTOR |-> 4]
==========================================================================
