-------------------------- MODULE MCPktDispatcher --------------------------
(***************************************************************************)
(* Packets for PktDispatcher: what the handlers of a stream with RTP, RTCP *)
(* and a media format return, and a ZRTP message, which the RTP handler    *)
(* does not take and the ZRTP handler answers with RTP_OK.                 *)
(***************************************************************************)
EXTENDS DispatcherRefinement

Packet(primary, aux) == [primary |-> primary, aux |-> aux]

SomeKinds ==
    {Packet(<<"MODIFIED">>, <<"NOT_HANDLED", "READY">>),
     Packet(<<"MODIFIED">>, <<"ERROR", "MULTIPLE">>),
     Packet(<<"NOT_HANDLED", "OK">>, <<>>)}
=============================================================================
