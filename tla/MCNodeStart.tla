---------------------------- MODULE MCNodeStart ----------------------------
(* Instances of NodeStart for TLC. *)
EXTENDS NodeStart

\* As in manifests/overlays: both optional variables are set.
Full == [link |-> "GRPC", prefix |-> "eno", mtu |-> "9300"]

\* The same daemons without them, for VXLAN.
Bare == [link |-> "VXLAN", prefix |-> "unset", mtu |-> "unset"]

\* As in manifests/base: no variable is set.
Plain == [link |-> "unset", prefix |-> "unset", mtu |-> "unset"]

Rollout  == {Full, Bare}
BaseOnly == {Plain}
=============================================================================
