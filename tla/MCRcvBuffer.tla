----------------------------- MODULE MCRcvBuffer -----------------------------
EXTENDS RcvBufferCalls
\* One message of a packet, one of two packets, then two more of one packet.
MCMessageOf == <<1, 2, 2, 3, 4>>
=============================================================================
