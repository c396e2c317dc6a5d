----------------------------- MODULE MCCronFire -----------------------------
(* A small instance of CronFire for TLC. *)
EXTENDS CronFire

CONSTANTS old, new

BothGateways == {old, new}
OldGateway == {old}
NewGateway == {new}
=============================================================================
