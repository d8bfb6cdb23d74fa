-------------------------- MODULE MCAgentTransport --------------------------
(***************************************************************************)
(* The agent's buffer and its transport for TLC: a behaviour is one of the *)
(* buffer, in an agent whose transport has ended, or one of the transport, *)
(* in an agent whose buffer is used no more.                               *)
(***************************************************************************)
EXTENDS AgentBuffer, AgentTransfer, TLC

\* No action of the buffer is enabled: a record was nil.
BufferOff ==
    /\ pool = {} /\ buf = <<>> /\ hold = [s \in Sources |-> NilRecord]
    /\ made = [s \in Sources |-> 0] /\ feed = [p \in Plugins |-> "cut in length"]
    /\ sending = <<NilRecord>> /\ sendPc = "put" /\ sent = <<>> /\ newest = NilRecord
    /\ crashed = TRUE

\* No action of the transport is enabled.
TransferOff == Start /\ main = "exited"

TransportInit == (BufferInit /\ TransferOff) \/ (Init /\ BufferOff)
TransportNext == (BufferNext /\ UNCHANGED vars) \/ (Next /\ UNCHANGED bufferVars)
TransportSpec == TransportInit /\ [][TransportNext]_<<bufferVars, vars>>

\* The types; buffer and use count stay within their limits.
TransportTypeOK == BufferTypeOK /\ TypeOK

Symmetry == Permutations(Conns) \cup Permutations(Streams)
=============================================================================
