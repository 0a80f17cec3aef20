----------------------------- MODULE Transfers -----------------------------
(***************************************************************************)
(* The three ways in which the sockets move data, each alone: datagrams    *)
(* that are acknowledged (UdpAck), streams and frames (Streams), and a     *)
(* datagram server that accepts clients (UdpAccept).  Which of them runs   *)
(* is chosen once; the others stay in one state.                           *)
(***************************************************************************)
EXTENDS UdpAck, Streams, UdpAccept

VARIABLE mode   \* the one that runs

transferVars == <<mode, vars, streamVars, acceptVars>>

TransfersInit ==
  /\ mode \in {"datagrams", "streams", "accept"}
  /\ Init /\ StreamsInit /\ AcceptInit
  /\ mode # "datagrams" => family = "udp"
  /\ mode # "streams" => sort = "tcp"
  /\ mode # "accept" => byAddr

TransfersNext ==
  \/ mode = "datagrams" /\ Next /\ UNCHANGED <<mode, streamVars, acceptVars>>
  \/ mode = "streams" /\ StreamsNext /\ UNCHANGED <<mode, vars, acceptVars>>
  \/ mode = "accept" /\ AcceptNext /\ UNCHANGED <<mode, vars, streamVars>>

\* The fairness of the three; nothing of what does not run is enabled.
TransfersSpec ==
  /\ TransfersInit /\ [][TransfersNext]_transferVars
  /\ \A p \in Peers : WF_vars(GetAck(p) \/ GetData(p) \/ Ack(p))
  /\ AcceptFairness

-----------------------------------------------------------------------------
\* Every variable of the three has its type.
TransfersTypeOK ==
  mode \in {"datagrams", "streams", "accept"} /\ TypeOK /\ StreamsTypeOK /\ AcceptTypeOK
=============================================================================
