-------------------------- MODULE MCMessageTransfer --------------------------
EXTENDS MessageTransfer

MCPayloads == {<<>>, <<2, 8, 9>>}
MCVectors == {<<>>, <<<<2>>, <<>>, <<8, 9>>>>}

Rights == ControlMessage("Socket", "Rights", <<"f">>)
Credentials == ControlMessage("Socket", "Credentials", "root")
Unsendable == ControlMessage("Socket", "DetailedTimestamp", 0)
MCControls == {<<>>, <<Rights, Credentials>>, <<Unsendable>>}

MCAnswers == [host |-> <<[family |-> "AF_UNIX", addr |-> <<>>, port |-> 0],
                         [family |-> "AF_INET", addr |-> <<10, 0, 0, 1>>, port |-> 0]>>]
MCPeers == {Hostname("host"), Dotted(<<10, 0, 0>>)}
Label == Raw("SOL_SOCKET", "SCM_SECURITY", 1, "label")
PktInfo == Raw("IPPROTO_IP", "IP_PKTINFO", 12,
               [interface |-> 1, destination |-> V4(<<10, 0, 0, 2>>), specific |-> {V4(<<10, 0, 0, 2>>)}])
V6Address == V6([i \in 1 .. 16 |-> i])
PktInfo6 == Raw("IPPROTO_IPV6", "IPV6_PKTINFO", 20, [interface |-> 1, destination |-> V6Address, specific |-> {}])
TClass == Raw("IPPROTO_IPV6", "IPV6_TCLASS", 4, 185)
MCSockets == {[own |-> {}, adds |-> <<Label>>],
              [own |-> {[form |-> "path", parts |-> <<>>]}, adds |-> <<>>],
              [own |-> {Mapped(<<10, 0, 0, 1>>)}, adds |-> <<PktInfo>>],
              [own |-> {Colons(<<Blank, Blank, 1>>)}, adds |-> <<TClass>>],
              [own |-> {Colons(<<0, 1, 1, 1, 1, 1, 1, 1>>)}, adds |-> <<PktInfo6>>]}

DataBuffer(id, cap) == [id |-> id, cap |-> cap, bytes |-> <<>>]
MCBuffers == {DataBuffer("a", 2), DataBuffer("b", 0)}
MCControlBuffers == {DataBuffer("c", 73)}
=============================================================================
