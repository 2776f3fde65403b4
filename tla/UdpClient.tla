----------------------------- MODULE UdpClient -----------------------------
(***************************************************************************)
(* The UDP client firmware (main.c, udp_1ge_client.c) and the server on    *)
(* the host that it talks to (udp_socket_server/main.c).  The client says  *)
(* "ready" on every turn of its main loop; the server answers the first    *)
(* datagram it gets, if that is "ready", with a file, and exits.  The      *)
(* network loses and reorders datagrams, and strangers may send to the     *)
(* server.  Packet buffers come from lwIP's pool (external).               *)
(***************************************************************************)
EXTENDS ClockSetup

CONSTANTS PBUF_POOL_SIZE

ASSUME PoolAssumption == PBUF_POOL_SIZE \in Nat \ {0}

VARIABLES
  client,    \* where main() is; "exited" when it returned
  pool,      \* packet buffers free
  printed,   \* packets that recv_udp_packet was called with
  toServer,  \* datagrams on their way to the server
  toClient,  \* an answer is on its way
  server     \* "down", "waiting" in recvfrom, "answering"

udp == <<client, pool, printed, toServer, toClient, server>>

UdpInit ==
  /\ client = "off"
  /\ pool = PBUF_POOL_SIZE
  /\ printed = 0
  /\ toServer = {}
  /\ toClient = FALSE
  /\ server = "down"

-----------------------------------------------------------------------------
(***************************************************************************)
(* The client.                                                             *)
(***************************************************************************)

\* main() goes on only with a programmed clock; init_udp may fail, which ends
\* the program.
InitUdp ==
  /\ client = "off"
  /\ design = "udp_client"
  /\ ClockDone
  /\ client' \in IF prog = "ok" THEN {"connect", "exited"} ELSE {"exited"}
  /\ UNCHANGED <<clock, design, pool, printed, toServer, toClient, server>>

\* init_udp_transfer: the same of the connection to the server.
InitUdpTransfer ==
  /\ client = "connect"
  /\ client' \in {"input", "exited"}
  /\ UNCHANGED <<clock, design, pool, printed, toServer, toClient, server>>

\* xemacif_input hands an answer to recv_udp_packet, which prints it and
\* does not free it.
ReceiveInput ==
  /\ client = "input"
  /\ client' = "alloc"
  /\ IF toClient /\ pool > 0
     THEN /\ pool' = pool - 1
          /\ printed' = printed + 1
          /\ toClient' = FALSE
     ELSE UNCHANGED <<pool, printed, toClient>>
  /\ UNCHANGED <<clock, design, toServer, server>>

\* send_udp_packet: the buffer, or ERR_BUF.
Alloc ==
  /\ client = "alloc"
  /\ IF pool > 0 THEN pool' = pool - 1 /\ client' = "send"
     ELSE client' = "input" /\ UNCHANGED pool
  /\ UNCHANGED <<clock, design, printed, toServer, toClient, server>>

\* send_udp_packet: udp_send, with or without success.
UdpSend(ok) ==
  /\ client = "send"
  /\ toServer' = IF ok THEN toServer \cup {"ready"} ELSE toServer
  /\ client' = IF ok THEN "sent" ELSE "refused"
  /\ UNCHANGED <<clock, design, pool, printed, toClient, server>>

\* send_udp_packet: pbuf_free.  Mutants: not after an error; the client says
\* ready once.
FreeUnlessError ==
  /\ client \in {"sent", "refused"}
  /\ pool' = IF client = "sent" THEN pool + 1 ELSE pool
  /\ client' = "input"
  /\ UNCHANGED <<clock, design, printed, toServer, toClient, server>>
FreeLast ==
  /\ client \in {"sent", "refused"}
  /\ pool' = pool + 1
  /\ client' = IF client = "sent" THEN "exited" ELSE "input"
  /\ UNCHANGED <<clock, design, printed, toServer, toClient, server>>
Free ==
  /\ client \in {"sent", "refused"}
  /\ pool' = pool + 1
  /\ client' = "input"
  /\ UNCHANGED <<clock, design, printed, toServer, toClient, server>>

-----------------------------------------------------------------------------
(***************************************************************************)
(* The server: start_server().  Somebody may start it again.               *)
(***************************************************************************)
ServerStart ==
  /\ design = "udp_client"
  /\ server = "down"
  /\ server' = "waiting"
  /\ UNCHANGED <<clock, design, client, pool, printed, toServer, toClient>>

\* recvfrom, then the comparisons with "exit" and "ready".
ServerRecv(m) ==
  /\ server = "waiting"
  /\ m \in toServer
  /\ toServer' = toServer \ {m}
  /\ server' = IF m = "ready" THEN "answering" ELSE "down"
  /\ UNCHANGED <<clock, design, client, pool, printed, toClient>>

\* The file is sent, unless it could not be read; the program ends.
ServerSend ==
  /\ server = "answering"
  /\ toClient' \in {toClient, TRUE}
  /\ server' = "down"
  /\ UNCHANGED <<clock, design, client, pool, printed, toServer>>

-----------------------------------------------------------------------------
(***************************************************************************)
(* The network (external).  Datagrams to a socket nobody has open go       *)
(* nowhere.                                                                *)
(***************************************************************************)
Strangers == {"exit", "other"}

StrangerSends ==
  /\ design = "udp_client"
  /\ \E m \in Strangers : toServer' = toServer \cup {m}
  /\ UNCHANGED <<clock, design, client, pool, printed, toClient, server>>

Lose ==
  /\ \/ \E m \in toServer : toServer' = toServer \ {m} /\ UNCHANGED toClient
     \/ toClient /\ toClient' = FALSE /\ UNCHANGED toServer
  /\ UNCHANGED <<clock, design, client, pool, printed, server>>

-----------------------------------------------------------------------------
UdpMain == InitUdp \/ InitUdpTransfer \/ ReceiveInput \/ Alloc
           \/ (\E ok \in BOOLEAN : UdpSend(ok)) \/ Free

UdpServer == ServerStart \/ ServerSend \/ \E m \in toServer : ServerRecv(m)

UdpStep == UdpMain \/ UdpServer \/ StrangerSends \/ Lose

-----------------------------------------------------------------------------
\* Every buffer of the pool is free, in the send in progress, or one that
\* recv_udp_packet was handed and kept (udp_1ge_client.c:105): sends do not
\* leak, with and without errors, and the pool is used up by as many answers
\* as it has buffers.
PbufsAccounted ==
  pool + printed + (IF client \in {"send", "sent", "refused"} THEN 1 ELSE 0)
    = PBUF_POOL_SIZE

\* A waiting server is asked, although requests get lost and some sends
\* fail: the client says "ready" until its pool is used up.
ServerIsAsked ==
  (server = "waiting" /\ client = "input")
     ~> (server # "waiting" \/ printed = PBUF_POOL_SIZE)
=============================================================================
