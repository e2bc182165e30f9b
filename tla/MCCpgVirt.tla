----------------------------- MODULE MCCpgVirt -----------------------------
(* CpgVirt for TLC. *)
EXTENDS CpgVirt

\* One libvirt connection lists every machine, or each has one of its own.
OneUri == [v \in VMs |-> 1]
TwoUris == [v \in VMs |-> v]
=============================================================================
