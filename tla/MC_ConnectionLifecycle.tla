------------------------ MODULE MC_ConnectionLifecycle ------------------------
(***************************************************************************)
(* Two connections from a client runtime whose roles start on worker 1 (a *)
(* worker group of one) and then on the local worker 0, whose tcp-rx and  *)
(* tcp-tx tasks run the transport (WorkerId::local()).                    *)
(***************************************************************************)
EXTENDS ConnectionLifecycle

\* on_worker_group over worker 1, then local() on worker 0
MCOrder == <<1, 0>>

\* The hub's handshake always gives plane 0x42424242
HubPlanes == [t \in 1..NConns |-> 1111638594]

\* One TcpServer's handshakes give next_plane_id, from 0
ServerPlanes == [t \in 1..NConns |-> t - 1]
=============================================================================
