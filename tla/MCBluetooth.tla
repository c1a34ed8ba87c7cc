----------------------------- MODULE MCBluetooth -----------------------------
(* Instances of BluetoothManager for TLC. *)
EXTENDS BluetoothManager
=============================================================================
