------------------------- MODULE MCModbusRegisters -------------------------
(***************************************************************************)
(* Instances of ModbusRegisters for TLC: registers of two bits, so that a  *)
(* FLOAT64 has 256 bit patterns.  Sources share registers where they can.  *)
(***************************************************************************)
EXTENDS ModbusRegisters

AllAddresses == 0 .. 3
Holding(f, a) == [type |-> "HOLDING_REGISTER", format |-> f, register |-> a]
Coil == [type |-> "COIL", format |-> "BOOLEAN", register |-> 0]
Input == [type |-> "INPUT_REGISTER", format |-> "INT16", register |-> 0]

MixedSources ==
    {Holding(f, 0) : f \in Formats \ {"STRING", "FLOAT32"}} \cup {Holding("FLOAT32", 2), Coil, Input}

Go(type, numbers) == [type : {type}, num : numbers]
MixedValues ==
    Go("bool", 0 .. 1) \cup Go("int", {-9, -2, 7, 17}) \cup Go("int16", {-2})
        \cup Go("uint16", {3}) \cup Go("int32", {-8}) \cup Go("uint32", {14})
        \cup Go("float32", {9}) \cup Go("float64", {27, 228})
=============================================================================
