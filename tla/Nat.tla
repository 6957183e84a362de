--------------------------------- MODULE Nat ---------------------------------
(***************************************************************************)
(* The two STUN answers and what the client makes of them:                 *)
(* server/src/stun.rs and client/src/nat.rs.                               *)
(***************************************************************************)
EXTENDS Naturals

Port == 0 .. 65535

SamePort == [kind |-> "SamePort"]
DifferentPort(port) == [kind |-> "DifferentPort", port |-> port]

StunResult == {SamePort} \cup [kind : {"DifferentPort"}, port : Port]

\* The server's answer to a request that states one port and comes from another.
stun_response(stated, observed) ==
  IF observed = stated THEN SamePort ELSE DifferentPort(observed)

\* detect_kind, once both answers are in.
kind_of(r1, r2) ==
  IF r1 = SamePort /\ r2 = SamePort THEN [kind |-> "Easy"]
  ELSE IF r1.kind = "DifferentPort" /\ r2.kind = "DifferentPort"
       THEN IF r1.port = r2.port
            THEN [kind |-> "FixedPortMapping", observed_port |-> r1.port]
            ELSE [kind |-> "Hard"]
  ELSE [kind |-> "Inconsistent"]

\* The port that monitor_interface announces for a kind of NAT.
port_for(kind, new_port) ==
  IF kind.kind = "FixedPortMapping" THEN kind.observed_port ELSE new_port
=============================================================================
