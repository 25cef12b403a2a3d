------------------------------ MODULE MCGateway ------------------------------
(***************************************************************************)
(* Instances of GatewayBinding for TLC: one someipd, one or two gatewayd.  *)
(***************************************************************************)
EXTENDS GatewayProperties, TLC

CONSTANTS someipd, gatewayd, gatewayd2, k1, k2

OneClient == {gatewayd}
TwoClients == {gatewayd, gatewayd2}
SymmetricClients == Permutations(TwoClients)
SymmetricKeys == Permutations({k1, k2})
ServerProvides == [k \in Key |-> someipd]
ClientProvides == [k \in Key |-> gatewayd]
BothProvide == [k \in Key |-> IF k = k1 THEN someipd ELSE gatewayd]

\* How often each kind of environment step may happen.
OnceEach == [x \in EnvStep |-> IF x \in {"offer", "request"} THEN 1 ELSE 0]
DiscoverySteps ==
    [OnceEach EXCEPT !["offer"] = 2, !["stop"] = 1, !["request"] = 2, !["lose"] = 1]
ReverseSteps ==
    [OnceEach EXCEPT !["offer"] = 2, !["stop"] = 1, !["lose"] = 1, !["publish"] = 2]
EventSteps == [OnceEach EXCEPT !["request"] = 2, !["lose"] = 1, !["publish"] = 2]
ChurnSteps ==
    [OnceEach EXCEPT !["offer"] = 2, !["request"] = 3, !["withdraw"] = 1, !["restart"] = 1,
                     !["publish"] = 1]
CrossingSteps == [OnceEach EXCEPT !["offer"] = 2, !["request"] = 2]
StopSteps == [OnceEach EXCEPT !["offer"] = 2, !["stop"] = 1]
RerequestSteps == [OnceEach EXCEPT !["request"] = 2, !["withdraw"] = 1]
=============================================================================
