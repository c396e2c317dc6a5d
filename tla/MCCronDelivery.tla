--------------------------- MODULE MCCronDelivery ---------------------------
(* A small instance of CronDelivery for TLC. *)
EXTENDS CronDelivery

CONSTANTS old, new

BothGateways == {old, new}
NewGateway == {new}
First == {1}
=============================================================================
