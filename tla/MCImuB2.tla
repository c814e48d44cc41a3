------------------------------ MODULE MCImuB2 ------------------------------
(***************************************************************************)
(* The IMU of Lisa/L with imu_b2_v1.1: both sensors on SPI2, and a third   *)
(* slave whose driver writes, reads, or does both in either proportion.    *)
(***************************************************************************)
EXTENDS ImuB2

MCSlaveOf ==
  [max1168_req |-> "max1168", max1168_read |-> "max1168",
   ms2100_req |-> "ms2100", ms2100_read |-> "ms2100", other |-> "slave"]
MCTransactions == DOMAIN MCSlaveOf
MCSelect ==
  [max1168_req |-> "SPISelect", max1168_read |-> "SPIUnselect",
   ms2100_req |-> "SPISelectUnselect", ms2100_read |-> "SPISelectUnselect",
   other |-> "SPISelectUnselect"]
MCLengths == {[out |-> 0, in |-> 0], [out |-> 1, in |-> 2], [out |-> 2, in |-> 1]}
=============================================================================
