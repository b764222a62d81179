--------------------------- MODULE ModbusRegisters --------------------------
(***************************************************************************)
(* How pkg/modbus/client.go stores Go values in 16-bit registers and reads *)
(* them back: Read and Write dispatch on the type of the register and on   *)
(* the format of the source; wider values take two or four registers, in   *)
(* either word order; a number is cut to the width of its format.          *)
(*                                                                         *)
(* A Go value is a record of its type and a number: the number itself for  *)
(* the integer types, 0 or 1 for bool, the bit pattern for float32 and     *)
(* float64.  Conversions between floats and integers, or of a float to    *)
(* another width, are left out, and so are the bytes of a string.  Whether *)
(* the client is connected is the subject of SourceClient.                 *)
(***************************************************************************)
EXTENDS Integers

CONSTANTS
    Base,         \* how many values a register has (2^16 in the code)
    Addresses,    \* addresses of registers
    Sources,      \* plc.VariableSource: [type, format, register]
    Values        \* Go values that are written

Half == Base \div 2
RegisterTypes == {"HOLDING_REGISTER", "INPUT_REGISTER", "COIL", "DISCRETE_INPUT"}
Formats == {"INT16", "UINT16", "INT32", "UINT32", "FLOAT32", "FLOAT64", "BOOLEAN", "STRING"}

\* What a value of a Go type can be.
IsGoValue(v) ==
    /\ v.num \in Int
    /\ CASE v.type = "bool" -> v.num \in 0 .. 1
         [] v.type = "int16" -> v.num \in -Half .. (Half - 1)
         [] v.type = "uint16" -> v.num \in 0 .. (Base - 1)
         [] v.type = "int32" -> v.num \in -(Half * Base) .. (Half * Base - 1)
         [] v.type \in {"uint32", "float32"} -> v.num \in 0 .. (Base * Base - 1)
         [] v.type \in {"uint64", "float64"} -> v.num \in 0 .. (Base * Base * Base * Base - 1)
         [] OTHER -> v.type \in {"int", "int64", "string"}

ASSUME BaseAssumption == Base \in Nat /\ Half >= 1 /\ Base = 2 * Half
IsBit(s) == s.type \in {"COIL", "DISCRETE_INPUT"}

Width(s) ==
    IF IsBit(s) THEN 1
    ELSE CASE s.format \in {"INT32", "UINT32", "FLOAT32"} -> 2
           [] s.format = "FLOAT64" -> 4
           [] OTHER -> 1

Cells(s) == s.register .. (s.register + Width(s) - 1)

ASSUME SourcesAssumption ==
    /\ Sources \subseteq [type : RegisterTypes, format : Formats, register : Addresses]
    /\ Addresses \subseteq Nat
    /\ \A s \in Sources : Cells(s) \subseteq Addresses
ASSUME ValuesAssumption == \A v \in Values : IsGoValue(v)

None == [type |-> "none", num |-> 0]

VARIABLES
    reverseWords, \* config.ReverseWords
    memory,       \* memory[r][a]: the register or bit of type r at address a
    written       \* written[s]: the value last written through s; None if its
                  \* cells were written through another source since, or perhaps

vars == <<reverseWords, memory, written>>

-----------------------------------------------------------------------------
(* The cells a source stands for.                                          *)

Overlap(s, t) == s.type = t.type /\ Cells(s) \cap Cells(t) # {}

Init ==
    /\ reverseWords \in BOOLEAN
    /\ memory = [r \in RegisterTypes |-> [a \in Addresses |-> 0]]
    /\ written = [s \in Sources |-> None]

-----------------------------------------------------------------------------
(* Words and numbers.                                                      *)

\* regsToUint32, regsToUint64
Join2(a, b) == IF reverseWords THEN (b * Base) + a ELSE (a * Base) + b
Join4(a, b, c, d) ==
    IF reverseWords
    THEN (Join2(c, d) * (Base * Base)) + Join2(a, b)
    ELSE (Join2(a, b) * (Base * Base)) + Join2(c, d)

\* Mutated form: the word order is forgotten on the way out.
BigEndian2(n) == <<(n \div Base) % Base, n % Base>>
\* uint32ToRegs, uint64ToRegs
Split2(n) ==
    IF reverseWords
    THEN <<n % Base, (n \div Base) % Base>>
    ELSE <<(n \div Base) % Base, n % Base>>
Split4(n) ==
    LET low == Split2(n % (Base * Base))
        high == Split2(n \div (Base * Base))
    IN IF reverseWords
       THEN <<low[1], low[2], high[1], high[2]>>
       ELSE <<high[1], high[2], low[1], low[2]>>

\* The conversion of an unsigned number to a signed one of the same width
Signed(n, half) == IF n >= half THEN n - 2 * half ELSE n

\* The truth value of a number.
TruthOf(n) == IF n # 0 THEN 1 ELSE 0

-----------------------------------------------------------------------------
(* Read.                                                                   *)

ReadRegisters(s, r) ==
    CASE s.format = "INT16" -> [type |-> "int16", num |-> Signed(r[0], Half)]
      [] s.format = "INT32" -> [type |-> "int32", num |-> Signed(Join2(r[0], r[1]), Half * Base)]
      [] s.format = "UINT32" -> [type |-> "uint32", num |-> Join2(r[0], r[1])]
      [] s.format = "FLOAT32" -> [type |-> "float32", num |-> Join2(r[0], r[1])]
      [] s.format = "FLOAT64" -> [type |-> "float64", num |-> Join4(r[0], r[1], r[2], r[3])]
      [] s.format = "BOOLEAN" -> [type |-> "bool", num |-> TruthOf(r[0])]
      [] OTHER -> [type |-> "uint16", num |-> r[0]]

ReadFrom(mem, s) ==
    LET r == [i \in 0 .. (Width(s) - 1) |-> mem[s.type][s.register + i]]
    IN IF IsBit(s) THEN [type |-> "bool", num |-> r[0]] ELSE ReadRegisters(s, r)

Read(s) == ReadFrom(memory, s)

-----------------------------------------------------------------------------
(* Write.                                                                  *)

Floats == {"float32", "float64"}

\* Mutated form: toUint16 does not know int16.
UnsignedTo16 == Floats \cup {"uint16", "int", "int32", "int64", "uint32", "uint64"}
To16 == Floats \cup {"uint16", "int16", "int", "int32", "int64", "uint32", "uint64"}
To32 == Floats \cup {"uint32", "int32", "int", "int64", "uint16", "uint64"}
ToFloat32 == Floats \cup {"int", "int32", "int64", "uint16", "uint32"}
ToFloat64 == ToFloat32 \cup {"uint64"}

\* The types of values that Write takes for a source; others are an error.
Accepted(s) ==
    CASE s.type = "COIL" -> {"bool", "int", "float64"}
      [] s.type \in {"INPUT_REGISTER", "DISCRETE_INPUT"} -> {}
      [] OTHER ->
           CASE s.format \in {"INT32", "UINT32"} -> To32
             [] s.format = "FLOAT32" -> ToFloat32
             [] s.format = "FLOAT64" -> ToFloat64
             [] s.format = "BOOLEAN" -> {"bool"}
             [] OTHER -> To16

\* The type of the values that a format is for
OwnType(f) ==
    CASE f = "INT16" -> "int16"
      [] f = "UINT16" -> "uint16"
      [] f = "INT32" -> "int32"
      [] f = "UINT32" -> "uint32"
      [] f = "FLOAT32" -> "float32"
      [] f = "FLOAT64" -> "float64"
      [] f = "BOOLEAN" -> "bool"
      [] f = "STRING" -> "string"

\* The conversions of floats that are left out
Rounds(s, type) ==
    IF ~IsBit(s) /\ s.format \in {"FLOAT32", "FLOAT64"}
    THEN type # OwnType(s.format)
    ELSE type \in Floats

Encoded(s, n) ==
    IF IsBit(s) THEN <<TruthOf(n)>>
    ELSE CASE s.format \in {"INT32", "UINT32", "FLOAT32"} -> Split2(n % (Base * Base))
           [] s.format = "FLOAT64" -> Split4(n)
           [] s.format = "BOOLEAN" -> <<n>>
           [] OTHER -> <<n % Base>>

Stored(s, n) ==
    [memory EXCEPT ![s.type] = [a \in Addresses |->
        IF a \in Cells(s) THEN Encoded(s, n)[a - s.register + 1] ELSE @[a]]]

\* What is known of every source once v may have been written through s.
KnownAfter(s, v) ==
    [t \in Sources |-> IF t = s THEN v ELSE IF Overlap(s, t) THEN None ELSE written[t]]

Write(s, v) ==
    /\ v.type \in Accepted(s)
    /\ memory' = Stored(s, v.num)
    /\ written' = KnownAfter(s, v)
    /\ UNCHANGED reverseWords

\* The request or its answer is lost: an error, whatever the device has done.
WriteFails(s, v) ==
    /\ v.type \in Accepted(s)
    /\ memory' \in {memory, Stored(s, v.num)}
    /\ written' = KnownAfter(s, None)
    /\ UNCHANGED reverseWords

\* A value of another type, or a source that is read-only
WriteRefused(s, v) ==
    /\ v.type \notin Accepted(s)
    /\ UNCHANGED vars

Next ==
    \E s \in Sources, v \in Values :
        /\ v.type \in Accepted(s) => ~Rounds(s, v.type)
        /\ Write(s, v) \/ WriteFails(s, v) \/ WriteRefused(s, v)

Spec == Init /\ [][Next]_vars

-----------------------------------------------------------------------------
TypeOK ==
    /\ reverseWords \in BOOLEAN
    /\ memory \in [RegisterTypes -> [Addresses -> 0 .. (Base - 1)]]
    /\ memory["COIL"] \in [Addresses -> 0 .. 1]
    /\ written \in [Sources -> Values \cup {None}]

\* The numbers a format has room for
Range16(s) == IF s.format = "INT16" THEN -Half .. (Half - 1) ELSE 0 .. (Base - 1)
Range32(s) ==
    IF s.format = "INT32" THEN -(Half * Base) .. (Half * Base - 1) ELSE 0 .. (Base * Base - 1)

Representable(s, n) ==
    IF IsBit(s) \/ s.format = "BOOLEAN" THEN n \in 0 .. 1
    ELSE CASE s.format = "FLOAT64" -> TRUE
           [] s.format \in {"INT32", "UINT32", "FLOAT32"} -> n \in Range32(s)
           [] OTHER -> n \in Range16(s)

(***************************************************************************)
(* A number written through a source whose format has room for it is the   *)
(* number that is read back, in either word order, signed or not, until    *)
(* its registers are written through another source.                       *)
(***************************************************************************)
ReadsBack ==
    \A s \in Sources :
        (written[s] # None /\ Representable(s, written[s].num))
            => Read(s).num = written[s].num

(***************************************************************************)
(* Whatever a writable source holds can be written back through it as it   *)
(* was read, which leaves the device as it is; a boolean is normalised.    *)
(***************************************************************************)
WriteBackChangesNothing ==
    \A s \in Sources : Accepted(s) # {} =>
        /\ Read(s).type \in Accepted(s)
        /\ s.format # "BOOLEAN" => Stored(s, Read(s).num) = memory
=============================================================================
