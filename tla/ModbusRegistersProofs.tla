----------------------- MODULE ModbusRegistersProofs ------------------------
(***************************************************************************)
(* Proofs about ModbusRegisters, for registers of any even size; and, at   *)
(* the end, about ClientLock, the lock that Read and Write look under for  *)
(* the connection they use.                                                *)
(***************************************************************************)
EXTENDS ModbusRegisters, ClientLock, TLAPS

-----------------------------------------------------------------------------
(* Arithmetic.                                                             *)

\* Division with remainder, for a positive divisor.
LEMMA DivMod ==
    ASSUME NEW n \in Int, NEW b \in Nat, b > 0
    PROVE  /\ n \div b \in Int
           /\ n % b \in 0 .. (b - 1)
           /\ n = (b * (n \div b)) + (n % b)
BY SMT

\* Quotient and remainder are unique.
LEMMA DivModUnique ==
    ASSUME NEW b \in Nat, b > 0, NEW q \in Int, NEW r \in 0 .. (b - 1)
    PROVE  /\ ((q * b) + r) \div b = q
           /\ ((q * b) + r) % b = r
BY SMT

\* A number below b * b has two digits in base b, ...
LEMMA TwoDigits ==
    ASSUME NEW b \in Nat, b > 0, NEW n \in 0 .. (b * b - 1)
    PROVE  /\ n \div b \in 0 .. (b - 1)
           /\ n % b \in 0 .. (b - 1)
           /\ n = ((n \div b) * b) + (n % b)
BY DivMod, SMT

\* ... and two digits make a number below b * b.
LEMMA DigitsMake ==
    ASSUME NEW b \in Nat, b > 0, NEW q \in 0 .. (b - 1), NEW r \in 0 .. (b - 1)
    PROVE  (q * b) + r \in 0 .. (b * b - 1)
BY SMT

\* A digit is its own remainder.
LEMMA SmallMod ==
    ASSUME NEW b \in Nat, b > 0, NEW r \in 0 .. (b - 1)
    PROVE  r % b = r /\ r \div b = 0
BY SMT

LEMMA BaseFacts ==
    /\ Base \in Nat /\ Base > 0 /\ Half \in Nat /\ Half > 0 /\ Base = 2 * Half
    /\ Base * Base \in Nat /\ Base * Base > 0 /\ Base * Base = 2 * (Half * Base)
    /\ Half * Base \in Nat /\ Half * Base > 0
BY BaseAssumption, SMT DEF Half

\* What uint32ToRegs splits, regsToUint32 joins, in either word order.
LEMMA SplitJoin2 ==
    ASSUME NEW n \in 0 .. (Base * Base - 1)
    PROVE  /\ Split2(n)[1] \in 0 .. (Base - 1)
           /\ Split2(n)[2] \in 0 .. (Base - 1)
           /\ Join2(Split2(n)[1], Split2(n)[2]) = n
<1>1. /\ n \div Base \in 0 .. (Base - 1)
      /\ n % Base \in 0 .. (Base - 1)
      /\ n = ((n \div Base) * Base) + (n % Base)
  BY BaseFacts, TwoDigits
<1>2. (n \div Base) % Base = n \div Base
  BY <1>1, BaseFacts, SmallMod
<1> QED
  BY <1>1, <1>2 DEF Split2, Join2

\* What regsToUint32 joins, uint32ToRegs splits.
LEMMA JoinSplit2 ==
    ASSUME NEW a \in 0 .. (Base - 1), NEW b \in 0 .. (Base - 1)
    PROVE  /\ Join2(a, b) \in 0 .. (Base * Base - 1)
           /\ Split2(Join2(a, b)) = <<a, b>>
<1>1. \A q, r \in 0 .. (Base - 1) :
          /\ (q * Base) + r \in 0 .. (Base * Base - 1)
          /\ (((q * Base) + r) \div Base) % Base = q
          /\ ((q * Base) + r) % Base = r
  <2> TAKE q, r \in 0 .. (Base - 1)
  <2>1. (q * Base) + r \in 0 .. (Base * Base - 1)
    BY BaseFacts, DigitsMake
  <2>2. ((q * Base) + r) \div Base = q /\ ((q * Base) + r) % Base = r
    BY BaseFacts, DivModUnique
  <2>3. q % Base = q
    BY BaseFacts, SmallMod
  <2> QED
    BY <2>1, <2>2, <2>3
<1> QED
  BY <1>1 DEF Split2, Join2

\* The same for uint64ToRegs and regsToUint64.
LEMMA SplitJoin4 ==
    ASSUME NEW n \in 0 .. (Base * Base * Base * Base - 1)
    PROVE  /\ \A i \in 1 .. 4 : Split4(n)[i] \in 0 .. (Base - 1)
           /\ Join4(Split4(n)[1], Split4(n)[2], Split4(n)[3], Split4(n)[4]) = n
<1> DEFINE B2 == Base * Base
           high == n \div B2
           low == n % B2
<1>1. n \in 0 .. (B2 * B2 - 1)
  BY BaseFacts, SMT
<1>2. high \in 0 .. (B2 - 1) /\ low \in 0 .. (B2 - 1) /\ n = (high * B2) + low
  BY <1>1, BaseFacts, TwoDigits
<1>3. /\ Split2(high)[1] \in 0 .. (Base - 1) /\ Split2(high)[2] \in 0 .. (Base - 1)
      /\ Join2(Split2(high)[1], Split2(high)[2]) = high
  BY <1>2, SplitJoin2
<1>4. /\ Split2(low)[1] \in 0 .. (Base - 1) /\ Split2(low)[2] \in 0 .. (Base - 1)
      /\ Join2(Split2(low)[1], Split2(low)[2]) = low
  BY <1>2, SplitJoin2
<1> HIDE DEF high, low
<1>5. Split4(n) = IF reverseWords
                  THEN <<Split2(low)[1], Split2(low)[2], Split2(high)[1], Split2(high)[2]>>
                  ELSE <<Split2(high)[1], Split2(high)[2], Split2(low)[1], Split2(low)[2]>>
  BY DEF Split4, high, low
<1> QED
  BY <1>2, <1>3, <1>4, <1>5, Z3 DEF Join4

LEMMA JoinSplit4 ==
    ASSUME NEW a \in 0 .. (Base - 1), NEW b \in 0 .. (Base - 1),
           NEW c \in 0 .. (Base - 1), NEW d \in 0 .. (Base - 1)
    PROVE  Split4(Join4(a, b, c, d)) = <<a, b, c, d>>
<1> DEFINE B2 == Base * Base
           high == IF reverseWords THEN Join2(c, d) ELSE Join2(a, b)
           low == IF reverseWords THEN Join2(a, b) ELSE Join2(c, d)
<1>1. high \in 0 .. (B2 - 1) /\ low \in 0 .. (B2 - 1)
  BY JoinSplit2
<1>2. Join4(a, b, c, d) = (high * B2) + low
  BY DEF Join4
<1>3. Split2(high) = (IF reverseWords THEN <<c, d>> ELSE <<a, b>>)
  BY JoinSplit2
<1>4. Split2(low) = (IF reverseWords THEN <<a, b>> ELSE <<c, d>>)
  BY JoinSplit2
<1>5. B2 \in Nat /\ B2 > 0
  BY BaseFacts
<1> HIDE DEF B2, high, low
<1>6. high \in Int
  BY <1>1, <1>5
<1>7. ((high * B2) + low) \div B2 = high /\ ((high * B2) + low) % B2 = low
  BY <1>1, <1>5, <1>6, DivModUnique
<1>8. Split4(Join4(a, b, c, d)) = IF reverseWords
          THEN <<Split2(low)[1], Split2(low)[2], Split2(high)[1], Split2(high)[2]>>
          ELSE <<Split2(high)[1], Split2(high)[2], Split2(low)[1], Split2(low)[2]>>
  BY <1>2, <1>7 DEF Split4, B2
<1> QED
  BY <1>3, <1>4, <1>8

\* A signed number of a width survives the way through the unsigned one.
LEMMA SignedBack ==
    ASSUME NEW h \in Nat, h > 0, NEW n \in (-h) .. (h - 1)
    PROVE  /\ n % (2 * h) \in 0 .. (2 * h - 1)
           /\ Signed(n % (2 * h), h) = n
<1>1. CASE n >= 0
  <2>1. n % (2 * h) = n
    BY <1>1, SmallMod
  <2> QED
    BY <1>1, <2>1 DEF Signed
<1>2. CASE n < 0
  <2>1. n % (2 * h) = n + 2 * h
    <3>1. n = ((-1) * (2 * h)) + (n + 2 * h)
      BY SMT
    <3>2. n + 2 * h \in 0 .. (2 * h - 1) /\ 2 * h \in Nat /\ 2 * h > 0
      BY <1>2
    <3> QED
      BY <3>1, <3>2, DivModUnique
  <2> QED
    BY <1>2, <2>1 DEF Signed
<1> QED
  BY <1>1, <1>2

LEMMA SignedForth ==
    ASSUME NEW h \in Nat, h > 0, NEW n \in 0 .. (2 * h - 1)
    PROVE  /\ Signed(n, h) \in (-h) .. (h - 1)
           /\ Signed(n, h) % (2 * h) = n
<1>1. CASE n < h
  <2>1. n % (2 * h) = n
    BY SmallMod
  <2> QED
    BY <1>1, <2>1 DEF Signed
<1>2. CASE n >= h
  <2>1. (n - 2 * h) % (2 * h) = n
    <3>1. n - 2 * h = ((-1) * (2 * h)) + n
      BY SMT
    <3>2. 2 * h \in Nat /\ 2 * h > 0
      BY SMT
    <3> QED
      BY <3>1, <3>2, DivModUnique
  <2> QED
    BY <1>2, <2>1 DEF Signed
<1> QED
  BY <1>1, <1>2

-----------------------------------------------------------------------------
(* The cells of a source.                                                  *)

LEMMA SourceFacts ==
    ASSUME NEW s \in Sources
    PROVE  /\ s.type \in RegisterTypes /\ s.format \in Formats /\ s.register \in Nat
           /\ Width(s) \in 1 .. 4
           /\ \A i \in 0 .. (Width(s) - 1) :
                  s.register + i \in Cells(s) /\ s.register + i \in Addresses
<1>1. s.type \in RegisterTypes /\ s.format \in Formats /\ s.register \in Nat
  BY SourcesAssumption
<1>2. Width(s) \in 1 .. 4
  BY DEF Width
<1> QED
  BY <1>1, <1>2, SourcesAssumption DEF Cells

\* Stored changes the cells of the source, to the words of the number, ...
LEMMA StoredCells ==
    ASSUME TypeOK, NEW s \in Sources, NEW n,
           NEW i \in 0 .. (Width(s) - 1)
    PROVE  Stored(s, n)[s.type][s.register + i] = Encoded(s, n)[i + 1]
<1>1. s.register + i \in Cells(s) /\ s.register + i \in Addresses /\ s.type \in RegisterTypes
  BY SourceFacts
<1>2. (s.register + i) - s.register + 1 = i + 1
  BY SourceFacts
<1> QED
  BY <1>1, <1>2 DEF Stored, TypeOK

\* ... and nothing else.
LEMMA StoredElsewhere ==
    ASSUME TypeOK, NEW s \in Sources, NEW n, NEW t \in Sources, ~Overlap(s, t),
           NEW i \in 0 .. (Width(t) - 1)
    PROVE  Stored(s, n)[t.type][t.register + i] = memory[t.type][t.register + i]
<1>1. t.register + i \in Cells(t) /\ t.register + i \in Addresses /\ t.type \in RegisterTypes
  BY SourceFacts
<1>2. s.type \in RegisterTypes
  BY SourceFacts
<1>3. s.type # t.type \/ t.register + i \notin Cells(s)
  BY <1>1 DEF Overlap
<1> QED
  BY <1>1, <1>2, <1>3 DEF Stored, TypeOK

\* A source reads the same from memories that agree on its cells.
LEMMA ReadOfCells ==
    ASSUME NEW m1, NEW m2, NEW s \in Sources,
           \A i \in 0 .. (Width(s) - 1) :
               m1[s.type][s.register + i] = m2[s.type][s.register + i]
    PROVE  ReadFrom(m1, s) = ReadFrom(m2, s)
<1>1. [i \in 0 .. (Width(s) - 1) |-> m1[s.type][s.register + i]]
          = [i \in 0 .. (Width(s) - 1) |-> m2[s.type][s.register + i]]
  OBVIOUS
<1> QED
  BY <1>1, Zenon DEF ReadFrom

-----------------------------------------------------------------------------
(* What is written is read.                                                *)

\* The words written for an accepted value fit their registers and bits.
LEMMA EncodedFits ==
    ASSUME NEW s \in Sources, NEW v \in Values, v.type \in Accepted(s), ~Rounds(s, v.type)
    PROVE  \A i \in 0 .. (Width(s) - 1) :
               Encoded(s, v.num)[i + 1] \in (IF IsBit(s) THEN 0 .. 1 ELSE 0 .. (Base - 1))
<1>1. v.num \in Int /\ IsGoValue(v)
  BY ValuesAssumption DEF IsGoValue
<1>2. CASE IsBit(s)
  BY <1>2 DEF Width, Encoded, TruthOf
<1>3. CASE ~IsBit(s) /\ s.format \in {"INT32", "UINT32", "FLOAT32"}
  <2>1. v.num % (Base * Base) \in 0 .. (Base * Base - 1)
    BY <1>1, BaseFacts, DivMod
  <2>2. /\ Split2(v.num % (Base * Base))[1] \in 0 .. (Base - 1)
        /\ Split2(v.num % (Base * Base))[2] \in 0 .. (Base - 1)
    BY <2>1, SplitJoin2
  <2>3. Width(s) = 2 /\ Encoded(s, v.num) = Split2(v.num % (Base * Base))
    BY <1>3 DEF Width, Encoded
  <2> QED
    BY <1>3, <2>2, <2>3
<1>4. CASE ~IsBit(s) /\ s.format = "FLOAT64"
  <2>1. v.type = "float64"
    BY <1>4 DEF Rounds, OwnType
  <2>2. v.num \in 0 .. (Base * Base * Base * Base - 1)
    BY <1>1, <2>1 DEF IsGoValue
  <2>3. \A i \in 1 .. 4 : Split4(v.num)[i] \in 0 .. (Base - 1)
    BY <2>2, SplitJoin4
  <2>4. Width(s) = 4 /\ Encoded(s, v.num) = Split4(v.num)
    BY <1>4 DEF Width, Encoded
  <2> QED
    BY <1>4, <2>3, <2>4
<1>5. CASE ~IsBit(s) /\ s.format = "BOOLEAN"
  <2>1. v.type = "bool"
    BY <1>5 DEF Accepted, IsBit
  <2>2. v.num \in 0 .. 1
    BY <1>1, <2>1 DEF IsGoValue
  <2> QED
    BY <1>5, <2>2, BaseFacts DEF Width, Encoded
<1>6. CASE ~IsBit(s) /\ s.format \in {"INT16", "UINT16", "STRING"}
  <2>1. v.num % Base \in 0 .. (Base - 1)
    BY <1>1, BaseFacts, DivMod
  <2>2. Width(s) = 1 /\ Encoded(s, v.num) = <<v.num % Base>>
    BY <1>6 DEF Width, Encoded
  <2> QED
    BY <1>6, <2>1, <2>2
<1> QED
  BY <1>2, <1>3, <1>4, <1>5, <1>6, SourceFacts DEF Formats

\* A representable value is read back from the words it was written as.
LEMMA WrittenIsRead ==
    ASSUME TypeOK, NEW s \in Sources, NEW v \in Values, v.type \in Accepted(s),
           ~Rounds(s, v.type), Representable(s, v.num)
    PROVE  ReadFrom(Stored(s, v.num), s).num = v.num
<1> DEFINE r == [i \in 0 .. (Width(s) - 1) |-> Stored(s, v.num)[s.type][s.register + i]]
           e == Encoded(s, v.num)
<1>1. v.num \in Int /\ IsGoValue(v)
  BY ValuesAssumption DEF IsGoValue
<1>2. \A i \in 0 .. (Width(s) - 1) : r[i] = e[i + 1]
  BY StoredCells
<1>3. ReadFrom(Stored(s, v.num), s)
          = IF IsBit(s) THEN [type |-> "bool", num |-> r[0]] ELSE ReadRegisters(s, r)
  BY DEF ReadFrom
<1> HIDE DEF r
<1>4. CASE IsBit(s)
  <2>1. Width(s) = 1 /\ e = <<TruthOf(v.num)>> /\ v.num \in 0 .. 1
    BY <1>4 DEF Width, Encoded, Representable
  <2> QED
    BY <1>2, <1>3, <1>4, <2>1 DEF TruthOf
<1>5. CASE ~IsBit(s) /\ s.format \in {"INT32", "UINT32", "FLOAT32"}
  <2> DEFINE u == v.num % (Base * Base)
  <2>1. Width(s) = 2 /\ e = Split2(u) /\ v.num \in Range32(s)
    BY <1>5 DEF Width, Encoded, Representable
  <2>2. u \in 0 .. (Base * Base - 1)
    BY <1>1, BaseFacts, DivMod
  <2>3. r[0] = Split2(u)[1] /\ r[1] = Split2(u)[2]
    BY <1>2, <2>1
  <2>4. Join2(r[0], r[1]) = u
    BY <2>2, <2>3, SplitJoin2
  <2>5. CASE s.format = "INT32"
    <3>1. v.num \in (-(Half * Base)) .. (Half * Base - 1)
      BY <2>1, <2>5 DEF Range32
    <3>2. Signed(u, Half * Base) = v.num
      BY <3>1, BaseFacts, SignedBack
    <3> QED
      BY <1>3, <1>5, <2>4, <2>5, <3>2 DEF ReadRegisters
  <2>6. CASE s.format \in {"UINT32", "FLOAT32"}
    <3>1. v.num \in 0 .. (Base * Base - 1)
      BY <2>1, <2>6 DEF Range32
    <3>2. u = v.num
      BY <3>1, BaseFacts, SmallMod
    <3> QED
      BY <1>3, <1>5, <2>4, <2>6, <3>2 DEF ReadRegisters
  <2> QED
    BY <1>5, <2>5, <2>6
<1>6. CASE ~IsBit(s) /\ s.format = "FLOAT64"
  <2>1. v.type = "float64"
    BY <1>6 DEF Rounds, OwnType
  <2>2. v.num \in 0 .. (Base * Base * Base * Base - 1)
    BY <1>1, <2>1 DEF IsGoValue
  <2>3. Width(s) = 4 /\ e = Split4(v.num)
    BY <1>6 DEF Width, Encoded
  <2>4. /\ r[0] = Split4(v.num)[1] /\ r[1] = Split4(v.num)[2]
        /\ r[2] = Split4(v.num)[3] /\ r[3] = Split4(v.num)[4]
    BY <1>2, <2>3
  <2>5. Join4(r[0], r[1], r[2], r[3]) = v.num
    BY <2>2, <2>4, SplitJoin4
  <2> QED
    BY <1>3, <1>6, <2>5 DEF ReadRegisters
<1>7. CASE ~IsBit(s) /\ s.format = "BOOLEAN"
  <2>1. Width(s) = 1 /\ e = <<v.num>> /\ v.num \in 0 .. 1
    BY <1>7 DEF Width, Encoded, Representable
  <2>2. r[0] = v.num
    BY <1>2, <2>1
  <2> QED
    BY <1>3, <1>7, <2>1, <2>2 DEF ReadRegisters, TruthOf
<1>8. CASE ~IsBit(s) /\ s.format \in {"INT16", "UINT16", "STRING"}
  <2>1. Width(s) = 1 /\ e = <<v.num % Base>> /\ v.num \in Range16(s)
    BY <1>8 DEF Width, Encoded, Representable
  <2>2. r[0] = v.num % Base
    BY <1>2, <2>1
  <2>3. CASE s.format = "INT16"
    <3>1. Signed(v.num % Base, Half) = v.num
      BY <2>1, <2>3, BaseFacts, SignedBack DEF Range16
    <3> QED
      BY <1>3, <1>8, <2>2, <2>3, <3>1 DEF ReadRegisters
  <2>4. CASE s.format \in {"UINT16", "STRING"}
    <3>1. v.num % Base = v.num
      BY <2>1, <2>4, BaseFacts, SmallMod DEF Range16
    <3> QED
      BY <1>3, <1>8, <2>2, <2>4, <3>1 DEF ReadRegisters
  <2> QED
    BY <1>8, <2>3, <2>4
<1> QED
  BY <1>4, <1>5, <1>6, <1>7, <1>8, SourceFacts DEF Formats

\* Storing the words that are there already changes nothing.
LEMMA StoredSame ==
    ASSUME TypeOK, NEW s \in Sources, NEW n,
           \A i \in 0 .. (Width(s) - 1) :
               Encoded(s, n)[i + 1] = memory[s.type][s.register + i]
    PROVE  Stored(s, n) = memory
<1>1. s.type \in RegisterTypes /\ s.register \in Nat /\ Width(s) \in 1 .. 4
  BY SourceFacts
<1>2. \A a \in Cells(s) :
          a - s.register \in 0 .. (Width(s) - 1) /\ s.register + (a - s.register) = a
  BY <1>1 DEF Cells
<1>3. \A a \in Cells(s) : Encoded(s, n)[a - s.register + 1] = memory[s.type][a]
  BY <1>2
<1>4. memory \in [RegisterTypes -> [Addresses -> 0 .. (Base - 1)]]
  BY DEF TypeOK
<1>5. [a \in Addresses |-> IF a \in Cells(s) THEN Encoded(s, n)[a - s.register + 1]
                           ELSE memory[s.type][a]] = memory[s.type]
  BY <1>1, <1>3, <1>4
<1> QED
  BY <1>1, <1>4, <1>5 DEF Stored

\* What a writable source holds is written back as it was read.
LEMMA ReadIsWrittenBack ==
    ASSUME TypeOK, NEW s \in Sources, Accepted(s) # {}
    PROVE  /\ Read(s).type \in Accepted(s)
           /\ s.format # "BOOLEAN" => Stored(s, Read(s).num) = memory
<1> DEFINE r == [i \in 0 .. (Width(s) - 1) |-> memory[s.type][s.register + i]]
           n == Read(s).num
<1>1. s.type \in {"COIL", "HOLDING_REGISTER"}
  BY SourceFacts DEF Accepted, RegisterTypes
<1>2. \A i \in 0 .. (Width(s) - 1) :
          r[i] \in 0 .. (Base - 1) /\ (s.type = "COIL" => r[i] \in 0 .. 1)
  BY SourceFacts DEF TypeOK
<1>3. Read(s) = IF IsBit(s) THEN [type |-> "bool", num |-> r[0]] ELSE ReadRegisters(s, r)
  BY DEF Read, ReadFrom
<1>4. (\A i \in 0 .. (Width(s) - 1) : Encoded(s, n)[i + 1] = r[i]) => Stored(s, n) = memory
  BY StoredSame
<1> HIDE DEF r, n
<1>5. n = Read(s).num
  BY DEF n
<1>6. CASE s.type = "COIL"
  <2>1. IsBit(s) /\ Width(s) = 1 /\ Read(s) = [type |-> "bool", num |-> r[0]]
    BY <1>3, <1>6 DEF IsBit, Width
  <2>2. Encoded(s, n) = <<r[0]>>
    BY <1>2, <1>5, <1>6, <2>1 DEF Encoded, TruthOf
  <2>3. Stored(s, n) = memory
    BY <1>4, <2>1, <2>2
  <2> QED
    BY <1>5, <1>6, <2>1, <2>3 DEF Accepted
<1>7. CASE s.type = "HOLDING_REGISTER"
  <2>1. ~IsBit(s) /\ Read(s) = ReadRegisters(s, r)
    BY <1>3, <1>7 DEF IsBit
  <2>2. CASE s.format \in {"INT32", "UINT32", "FLOAT32"}
    <3>1. Width(s) = 2 /\ r[0] \in 0 .. (Base - 1) /\ r[1] \in 0 .. (Base - 1)
      BY <1>2, <2>1, <2>2 DEF Width
    <3>2. /\ Join2(r[0], r[1]) \in 0 .. (Base * Base - 1)
          /\ Split2(Join2(r[0], r[1])) = <<r[0], r[1]>>
      BY <3>1, JoinSplit2
    <3>3. n % (Base * Base) = Join2(r[0], r[1])
      <4>1. CASE s.format = "INT32"
        <5>1. n = Signed(Join2(r[0], r[1]), Half * Base)
          BY <1>5, <2>1, <4>1 DEF ReadRegisters
        <5> QED
          BY <3>2, <5>1, BaseFacts, SignedForth
      <4>2. CASE s.format \in {"UINT32", "FLOAT32"}
        <5>1. n = Join2(r[0], r[1])
          BY <1>5, <2>1, <4>2 DEF ReadRegisters
        <5> QED
          BY <3>2, <5>1, BaseFacts, SmallMod
      <4> QED
        BY <2>2, <4>1, <4>2
    <3>4. Encoded(s, n) = <<r[0], r[1]>>
      BY <2>1, <2>2, <3>2, <3>3 DEF Encoded
    <3>5. Stored(s, n) = memory
      BY <1>4, <3>1, <3>4
    <3>6. Read(s).type \in Accepted(s)
      BY <1>7, <2>1, <2>2 DEF ReadRegisters, Accepted, To32, ToFloat32, Floats
    <3> QED
      BY <1>5, <3>5, <3>6
  <2>3. CASE s.format = "FLOAT64"
    <3>1. /\ Width(s) = 4
          /\ r[0] \in 0 .. (Base - 1) /\ r[1] \in 0 .. (Base - 1)
          /\ r[2] \in 0 .. (Base - 1) /\ r[3] \in 0 .. (Base - 1)
      BY <1>2, <2>1, <2>3 DEF Width
    <3>2. n = Join4(r[0], r[1], r[2], r[3])
      BY <1>5, <2>1, <2>3 DEF ReadRegisters
    <3>3. Encoded(s, n) = <<r[0], r[1], r[2], r[3]>>
      <4>1. Encoded(s, n) = Split4(n)
        BY <2>1, <2>3 DEF Encoded
      <4>2. Split4(Join4(r[0], r[1], r[2], r[3])) = <<r[0], r[1], r[2], r[3]>>
        BY ONLY <3>1, JoinSplit4
      <4> QED
        BY <3>2, <4>1, <4>2
    <3>4. Stored(s, n) = memory
      BY <1>4, <3>1, <3>3
    <3>5. Read(s).type \in Accepted(s)
      BY <1>7, <2>1, <2>3 DEF ReadRegisters, Accepted, ToFloat64, ToFloat32, Floats
    <3> QED
      BY <1>5, <3>4, <3>5
  <2>4. CASE s.format = "BOOLEAN"
    BY <1>7, <2>1, <2>4 DEF ReadRegisters, Accepted
  <2>5. CASE s.format \in {"INT16", "UINT16", "STRING"}
    <3>1. Width(s) = 1 /\ r[0] \in 0 .. (Base - 1)
      BY <1>2, <2>1, <2>5 DEF Width
    <3>2. n % Base = r[0]
      <4>1. CASE s.format = "INT16"
        <5>1. n = Signed(r[0], Half)
          BY <1>5, <2>1, <4>1 DEF ReadRegisters
        <5> QED
          BY <3>1, <5>1, BaseFacts, SignedForth
      <4>2. CASE s.format \in {"UINT16", "STRING"}
        <5>1. n = r[0]
          BY <1>5, <2>1, <4>2 DEF ReadRegisters
        <5> QED
          BY <3>1, <5>1, BaseFacts, SmallMod
      <4> QED
        BY <2>5, <4>1, <4>2
    <3>3. Encoded(s, n) = <<r[0]>>
      BY <2>1, <2>5, <3>2 DEF Encoded
    <3>4. Stored(s, n) = memory
      BY <1>4, <3>1, <3>3
    <3>5. Read(s).type \in Accepted(s)
      BY <1>7, <2>1, <2>5 DEF ReadRegisters, Accepted, To16
    <3> QED
      BY <1>5, <3>4, <3>5
  <2> QED
    BY <2>2, <2>3, <2>4, <2>5, SourceFacts DEF Formats
<1> QED
  BY <1>1, <1>6, <1>7

-----------------------------------------------------------------------------
(* The theorems.                                                           *)

IInv == TypeOK /\ ReadsBack

LEMMA InitHolds == Init => IInv
<1> SUFFICES ASSUME Init PROVE IInv
  OBVIOUS
<1>1. TypeOK
  <2>1. [a \in Addresses |-> 0] \in [Addresses -> 0 .. (Base - 1)]
    BY BaseFacts
  <2>2. [a \in Addresses |-> 0] \in [Addresses -> 0 .. 1]
    OBVIOUS
  <2>3. memory["COIL"] = [a \in Addresses |-> 0]
    BY DEF Init, RegisterTypes
  <2>4. memory \in [RegisterTypes -> [Addresses -> 0 .. (Base - 1)]]
    BY <2>1 DEF Init
  <2>5. written \in [Sources -> Values \cup {None}]
    BY DEF Init
  <2> QED
    BY <2>2, <2>3, <2>4, <2>5 DEF Init, TypeOK
<1>2. ReadsBack
  BY DEF Init, ReadsBack
<1> QED
  BY <1>1, <1>2 DEF IInv

\* The memory after a write is a memory.
LEMMA StoredFits ==
    ASSUME TypeOK, NEW s \in Sources, NEW v \in Values,
           v.type \in Accepted(s), ~Rounds(s, v.type)
    PROVE  /\ Stored(s, v.num) \in [RegisterTypes -> [Addresses -> 0 .. (Base - 1)]]
           /\ Stored(s, v.num)["COIL"] \in [Addresses -> 0 .. 1]
<1> DEFINE e == Encoded(s, v.num)
<1>1. s.type \in RegisterTypes /\ s.register \in Nat /\ Width(s) \in 1 .. 4
  BY SourceFacts
<1>2. \A i \in 0 .. (Width(s) - 1) :
          e[i + 1] \in (IF IsBit(s) THEN 0 .. 1 ELSE 0 .. (Base - 1))
  BY EncodedFits
<1>3. \A a \in Cells(s) : a - s.register \in 0 .. (Width(s) - 1)
  BY <1>1 DEF Cells
<1>4. \A a \in Cells(s) :
          e[a - s.register + 1] \in (IF IsBit(s) THEN 0 .. 1 ELSE 0 .. (Base - 1))
  BY <1>2, <1>3
<1>5. 0 .. 1 \subseteq 0 .. (Base - 1)
  BY BaseFacts
<1>6. s.type = "COIL" => IsBit(s)
  BY DEF IsBit
<1> HIDE DEF e
<1>7. Stored(s, v.num) = [memory EXCEPT ![s.type] = [a \in Addresses |->
          IF a \in Cells(s) THEN e[a - s.register + 1] ELSE @[a]]]
  BY DEF Stored, e
<1>8. [a \in Addresses |-> IF a \in Cells(s) THEN e[a - s.register + 1] ELSE memory[s.type][a]]
          \in [Addresses -> 0 .. (Base - 1)]
  BY <1>1, <1>4, <1>5 DEF TypeOK
<1>9. s.type = "COIL" =>
          [a \in Addresses |-> IF a \in Cells(s) THEN e[a - s.register + 1] ELSE memory[s.type][a]]
              \in [Addresses -> 0 .. 1]
  BY <1>4, <1>6 DEF TypeOK
<1> QED
  BY <1>1, <1>7, <1>8, <1>9 DEF TypeOK, RegisterTypes

\* Other sources that share no cell with s read what they read before.
LEMMA OthersKeep ==
    ASSUME TypeOK, NEW s \in Sources, NEW n, NEW t \in Sources, ~Overlap(s, t)
    PROVE  ReadFrom(Stored(s, n), t) = Read(t)
BY StoredElsewhere, ReadOfCells DEF Read

\* The word order is fixed, so a later reading depends on the memory alone.
LEMMA ReadLater ==
    ASSUME UNCHANGED reverseWords, NEW t
    PROVE  Read(t)' = ReadFrom(memory', t)
BY DEF Read, ReadFrom, ReadRegisters, Join4, Join2

LEMMA WriteKeeps ==
    ASSUME IInv, NEW s \in Sources, NEW v \in Values, ~Rounds(s, v.type), Write(s, v)
    PROVE  IInv'
<1>1. TypeOK /\ v.type \in Accepted(s)
  BY DEF IInv, Write
<1>2. TypeOK'
  BY <1>1, StoredFits DEF Write, KnownAfter, TypeOK
<1>3. ReadsBack'
  <2> SUFFICES ASSUME NEW t \in Sources, written'[t] # None, Representable(t, written'[t].num)
               PROVE  Read(t)'.num = written'[t].num
    BY DEF ReadsBack
  <2>1. CASE t = s
    <3>1. written'[t] = v /\ memory' = Stored(s, v.num)
      BY <2>1 DEF Write, KnownAfter
    <3>2. Read(t)' = ReadFrom(Stored(s, v.num), s)
      BY <2>1, <3>1, ReadLater DEF Write
    <3>3. Representable(s, v.num)
      BY <2>1, <3>1
    <3> QED
      BY <1>1, <3>1, <3>2, <3>3, WrittenIsRead
  <2>2. CASE t # s
    <3>1. ~Overlap(s, t) /\ written'[t] = written[t]
      BY <2>2 DEF Write, KnownAfter
    <3>2. Read(t)' = Read(t)
      BY <1>1, <3>1, OthersKeep, ReadLater DEF Write
    <3> QED
      BY <3>1, <3>2 DEF IInv, ReadsBack
  <2> QED
    BY <2>1, <2>2
<1> QED
  BY <1>2, <1>3 DEF IInv

LEMMA WriteFailsKeeps ==
    ASSUME IInv, NEW s \in Sources, NEW v \in Values, ~Rounds(s, v.type), WriteFails(s, v)
    PROVE  IInv'
<1>1. TypeOK /\ v.type \in Accepted(s)
  BY DEF IInv, WriteFails
<1>2. TypeOK'
  BY <1>1, StoredFits DEF WriteFails, KnownAfter, TypeOK
<1>3. ReadsBack'
  <2> SUFFICES ASSUME NEW t \in Sources, written'[t] # None, Representable(t, written'[t].num)
               PROVE  Read(t)'.num = written'[t].num
    BY DEF ReadsBack
  <2>1. ~Overlap(s, t) /\ written'[t] = written[t]
    BY DEF WriteFails, KnownAfter
  <2>2. Read(t)' = Read(t)
    <3>1. memory' = Stored(s, v.num) => Read(t)' = Read(t)
      BY <1>1, <2>1, OthersKeep, ReadLater DEF WriteFails
    <3>2. memory' = memory => Read(t)' = Read(t)
      BY ReadLater DEF WriteFails, Read
    <3> QED
      BY <3>1, <3>2 DEF WriteFails
  <2> QED
    BY <2>1, <2>2 DEF IInv, ReadsBack
<1> QED
  BY <1>2, <1>3 DEF IInv

LEMMA IdleKeeps ==
    ASSUME IInv, UNCHANGED vars
    PROVE  IInv'
<1>1. \A t : Read(t)' = Read(t)
  BY ReadLater DEF Read, vars
<1>2. ReadsBack'
  BY <1>1 DEF IInv, ReadsBack, vars
<1>3. TypeOK'
  BY DEF IInv, TypeOK, vars
<1> QED
  BY <1>2, <1>3 DEF IInv

LEMMA StepKeeps == IInv /\ [Next]_vars => IInv'
<1> SUFFICES ASSUME IInv, [Next]_vars PROVE IInv'
  OBVIOUS
<1>1. ASSUME NEW s \in Sources, NEW v \in Values,
             v.type \in Accepted(s) => ~Rounds(s, v.type), Write(s, v)
      PROVE  IInv'
  BY <1>1, WriteKeeps DEF Write
<1>2. ASSUME NEW s \in Sources, NEW v \in Values,
             v.type \in Accepted(s) => ~Rounds(s, v.type), WriteFails(s, v)
      PROVE  IInv'
  BY <1>2, WriteFailsKeeps DEF WriteFails
<1>3. ASSUME NEW s \in Sources, NEW v \in Values, WriteRefused(s, v)
      PROVE  IInv'
  BY <1>3, IdleKeeps DEF WriteRefused
<1>4. CASE UNCHANGED vars
  BY <1>4, IdleKeeps
<1> QED
  BY <1>1, <1>2, <1>3, <1>4 DEF Next

LEMMA Invariance == Spec => []IInv
BY InitHolds, StepKeeps, PTL DEF Spec

(***************************************************************************)
(* Registers and bits always hold what a register or bit can hold: every   *)
(* conversion of Write cuts to the width of a word.                        *)
(***************************************************************************)
THEOREM TypeCorrect == Spec => []TypeOK
<1>1. IInv => TypeOK
  BY DEF IInv
<1> QED
  BY <1>1, Invariance, PTL

(***************************************************************************)
(* For every register size and every layout of sources, whether they share *)
(* registers or not: what is written through a source whose format has     *)
(* room for it is what Read returns.                                       *)
(***************************************************************************)
THEOREM RoundTrip == Spec => []ReadsBack
<1>1. IInv => ReadsBack
  BY DEF IInv
<1> QED
  BY <1>1, Invariance, PTL

(***************************************************************************)
(* A program that reads a writable source and writes the value back, as a  *)
(* mapping of a device on itself does, never gets an error for its type    *)
(* and never alters the device, a boolean that is not 0 or 1 excepted.     *)
(***************************************************************************)
THEOREM WriteBack == Spec => []WriteBackChangesNothing
<1>1. TypeOK => WriteBackChangesNothing
  BY ReadIsWrittenBack DEF WriteBackChangesNothing
<1> QED
  BY <1>1, TypeCorrect, PTL

-----------------------------------------------------------------------------
(* ClientLock, for any number of readers and writers, with nested read     *)
(* locks or without.                                                       *)

\* The writer that has announced itself is the one between Announce and Unlock.
AnnouncedWriter ==
    \A w \in Writers : announced = w <=> wpc[w] \in {"announced", "inside", "dialling"}

\* A writer is inside only while there is no reader.
Exclusion ==
    \A w \in Writers, r \in Readers : wpc[w] \in {"inside", "dialling"} => holds[r] = 0

\* How many read locks a reader has follows from where it is.
LocksHeld ==
    \A r \in Readers :
        /\ rpc[r] \in {"idle", "parked", "using"} => holds[r] = 0
        /\ rpc[r] \in {"section", "parkedInside", "refused", "passed"} => holds[r] = 1
        /\ rpc[r] = "nested" => holds[r] = 2

\* "connecting" is the state of a writer that dials.
ConnectingDials == state = "connecting" => \E w \in Writers : wpc[w] = "dialling"

\* What IsConnected has answered is still so.
AnswerHolds == \A r \in Readers : rpc[r] = "passed" => Connected

\* A reader is parked behind a writer only, and without nesting only as long as
\* it holds no lock.
ParkedBehindWriter == \A r \in Readers : rpc[r] \in Parked => announced # NoWriter
PlainReaders ==
    ~Nested => \A r \in Readers : rpc[r] \in {"idle", "parked", "section", "using"}

LockInv ==
    /\ LockTypeOK
    /\ AnnouncedWriter
    /\ Exclusion
    /\ LocksHeld
    /\ ConnectingDials
    /\ AnswerHolds
    /\ ParkedBehindWriter
    /\ PlainReaders

\* What an invariant step of a reader changes.
ReaderOnly(r) ==
    /\ UNCHANGED <<connection, announced, wpc>>
    /\ rpc' = [rpc EXCEPT ![r] = rpc'[r]]
    /\ holds' = [holds EXCEPT ![r] = holds'[r]]

(* A reader's step keeps the invariant if it gets the number of its locks  *)
(* right, takes none while a writer is announced, and believes only a      *)
(* connection that is there.                                               *)
LEMMA ReaderStepKeeps ==
    ASSUME LockInv, NEW r \in Readers, ReaderOnly(r),
           rpc'[r] \in ReaderPcs, holds'[r] \in 0 .. 2,
           holds'[r] <= holds[r] \/ announced = NoWriter,
           LocksHeld!(r)',
           rpc'[r] = "passed" => Connected,
           rpc'[r] \in Parked => announced # NoWriter,
           ~Nested => rpc'[r] \in {"idle", "parked", "section", "using"}
    PROVE  LockInv'
<1> USE DEF LockInv, LockTypeOK, ReaderOnly, connection
<1>1. LockTypeOK'
  OBVIOUS
<1>2. AnnouncedWriter'
  BY DEF AnnouncedWriter
<1>3. Exclusion'
  BY LockAssumption DEF Exclusion, AnnouncedWriter
<1>4. LocksHeld'
  BY DEF LocksHeld
<1>5. ConnectingDials' /\ AnswerHolds'
  BY DEF ConnectingDials, AnswerHolds, Connected
<1>6. ParkedBehindWriter' /\ PlainReaders'
  BY DEF ParkedBehindWriter, PlainReaders, Nested
<1> QED
  BY <1>1, <1>2, <1>3, <1>4, <1>5, <1>6

-----------------------------------------------------------------------------
LEMMA ReadersKeep ==
    ASSUME LockInv, NEW r \in Readers, CallRead(r) \/ ReaderStep(r)
    PROVE  LockInv'
<1> USE DEF LockInv, LockTypeOK, ReaderGoes, ReaderOnly, connection, Parked, ReaderPcs, LocksHeld
<1>1. CASE CallRead(r)
  <2>1. /\ ReaderOnly(r) /\ rpc'[r] \in {"section", "parked"}
        /\ holds'[r] = IF rpc'[r] = "parked" THEN 0 ELSE 1
        /\ holds'[r] = 0 \/ announced = NoWriter
        /\ rpc'[r] = "parked" => announced # NoWriter
    BY <1>1 DEF CallRead, RLock
  <2> QED
    BY <2>1, ReaderStepKeeps
<1>2. CASE TakeClient(r)
  <2>1. ReaderOnly(r) /\ rpc'[r] \in {"using", "idle"} /\ holds'[r] = 0 /\ holds[r] = 1
    BY <1>2 DEF TakeClient, RUnlock, Released
  <2> QED
    BY <2>1, ReaderStepKeeps
<1>3. CASE CallIsConnected(r)
  <2>1. /\ ReaderOnly(r) /\ rpc'[r] \in {"nested", "parkedInside"} /\ holds[r] = 1
        /\ holds'[r] = IF rpc'[r] = "nested" THEN 2 ELSE 1
        /\ holds'[r] = 1 \/ announced = NoWriter
        /\ rpc'[r] = "parkedInside" => announced # NoWriter
        /\ Nested
    BY <1>3 DEF CallIsConnected, RLock
  <2> QED
    BY <2>1, ReaderStepKeeps
<1>4. CASE IsConnected(r)
  <2>1. /\ ReaderOnly(r) /\ holds[r] = 2 /\ holds'[r] = 1
        /\ rpc'[r] = IF Connected THEN "passed" ELSE "refused"
        /\ Nested
    BY <1>4 DEF IsConnected, RUnlock, Released, PlainReaders
  <2> QED
    BY <2>1, ReaderStepKeeps
<1>5. CASE NotConnected(r) \/ CopyClient(r)
  <2>1. ReaderOnly(r) /\ rpc'[r] \in {"using", "idle"} /\ holds'[r] = 0 /\ holds[r] = 1
    BY <1>5 DEF NotConnected, CopyClient, RUnlock, Released
  <2> QED
    BY <2>1, ReaderStepKeeps
<1>6. CASE Return(r)
  <2>1. ReaderOnly(r) /\ rpc'[r] = "idle" /\ holds'[r] = 0 /\ holds[r] = 0
    BY <1>6 DEF Return
  <2> QED
    BY <2>1, ReaderStepKeeps
<1> QED
  BY <1>1, <1>2, <1>3, <1>4, <1>5, <1>6 DEF ReaderStep

LEMMA WritersKeep ==
    ASSUME LockInv, NEW w \in Writers, CallLock(w) \/ Announce(w) \/ WriterStep(w)
    PROVE  LockInv'
<1> USE LockAssumption DEF LockInv, LockTypeOK, WriterGoes, WriterPcs, connection
<1>1. CASE CallLock(w)
  BY <1>1 DEF CallLock, AnnouncedWriter, Exclusion, LocksHeld, ConnectingDials, AnswerHolds,
     Connected,
     ParkedBehindWriter, PlainReaders, Nested
<1>2. CASE Announce(w)
  BY <1>2 DEF Announce, AnnouncedWriter, Exclusion, LocksHeld, ConnectingDials, AnswerHolds,
     Connected,
     ParkedBehindWriter, PlainReaders, Nested
<1>3. CASE Acquire(w)
  <2>1. LockTypeOK' /\ AnnouncedWriter' /\ LocksHeld' /\ ConnectingDials' /\ AnswerHolds'
    BY <1>3 DEF Acquire, AnnouncedWriter, LocksHeld, ConnectingDials, AnswerHolds, Connected
  <2>2. Exclusion'
    BY <1>3 DEF Acquire, MayWrite, Exclusion
  <2>3. ParkedBehindWriter' /\ PlainReaders'
    BY <1>3 DEF Acquire, ParkedBehindWriter, PlainReaders, Nested
  <2> QED
    BY <2>1, <2>2, <2>3
<1>4. CASE Dial(w)
  <2>1. LockTypeOK' /\ AnnouncedWriter' /\ LocksHeld' /\ Exclusion' /\ ConnectingDials'
    BY <1>4 DEF Dial, AnnouncedWriter, LocksHeld, Exclusion, ConnectingDials
  <2>2. AnswerHolds'
    BY <1>4 DEF Dial, Exclusion, LocksHeld, AnswerHolds
  <2>3. ParkedBehindWriter' /\ PlainReaders'
    BY <1>4 DEF Dial, ParkedBehindWriter, PlainReaders, Nested
  <2> QED
    BY <2>1, <2>2, <2>3
<1>5. CASE DialEnds(w) \/ Drop(w) \/ LeaveAsIs(w)
  <2>1. /\ wpc[w] \in {"inside", "dialling"} /\ wpc' = [wpc EXCEPT ![w] = "idle"] /\ Unlock
        /\ state' \in {"connected", "error", "disconnected"} \/ UNCHANGED connection
        /\ state' \in {"disconnected", "connecting", "connected", "error"}
        /\ client' \in {"nil", "object"} /\ kind' = kind
        /\ wpc[w] = "dialling" => state' \in {"connected", "error"}
    BY <1>5 DEF DialEnds, Drop, LeaveAsIs
  <2>2. announced = w /\ \A v \in Writers : v # w => wpc[v] \in {"idle", "called"}
    BY <2>1 DEF AnnouncedWriter
  <2>3. \A r \in Readers : holds[r] = 0 /\ rpc[r] \in {"idle", "parked", "using"}
    BY <2>1 DEF Exclusion, LocksHeld, ReaderPcs, Parked
  <2>4. announced' = NoWriter
    BY <2>1 DEF Unlock
  <2>5. \A r \in Readers :
            \/ rpc[r] = "parked" /\ rpc'[r] = "section" /\ holds'[r] = 1
            \/ rpc[r] # "parked" /\ rpc'[r] = rpc[r] /\ holds'[r] = 0
    BY <2>1, <2>3 DEF Unlock, Parked
  <2>6. rpc' \in [Readers -> ReaderPcs] /\ holds' \in [Readers -> 0 .. 2]
    BY <2>1, <2>3, <2>5 DEF Unlock, ReaderPcs, Parked
  <2>7. LockTypeOK'
    BY <2>1, <2>4, <2>6
  <2>8. AnnouncedWriter' /\ Exclusion'
    BY <2>1, <2>2, <2>4 DEF AnnouncedWriter, Exclusion
  <2>9. LocksHeld' /\ AnswerHolds'
    BY <2>3, <2>5 DEF LocksHeld, AnswerHolds
  <2>10. ConnectingDials'
    BY <2>1, <2>2 DEF ConnectingDials
  <2>11. ParkedBehindWriter' /\ PlainReaders'
    BY <2>1, <2>3, <2>5 DEF ParkedBehindWriter, PlainReaders, Nested, Parked
  <2> QED
    BY <2>7, <2>8, <2>9, <2>10, <2>11
<1> QED
  BY <1>1, <1>2, <1>3, <1>4, <1>5 DEF WriterStep

LEMMA StutterKeeps == ASSUME LockInv, UNCHANGED lockVars PROVE LockInv'
  BY DEF LockInv, LockTypeOK, AnnouncedWriter, Exclusion, LocksHeld, ConnectingDials,
     AnswerHolds, Connected,
         ParkedBehindWriter, PlainReaders, Nested, lockVars, connection

LEMMA LockInductive == LockSpec => []LockInv
<1>1. LockInit => LockInv
  BY LockAssumption DEF LockInit, LockInv, LockTypeOK, AnnouncedWriter, Exclusion, LocksHeld,
     ConnectingDials, AnswerHolds, ParkedBehindWriter, PlainReaders, Parked, ReaderPcs,
     WriterPcs
<1>2. LockInv /\ [LockNext]_lockVars => LockInv'
  BY ReadersKeep, WritersKeep, StutterKeeps DEF LockNext
<1> QED
  BY <1>1, <1>2, PTL DEF LockSpec

-----------------------------------------------------------------------------
(* The lock and the connection keep their types, and no reader ever has    *)
(* more than the two read locks of a nested operation.                     *)
THEOREM LockTypeCorrect == LockSpec => []LockTypeOK
  BY LockInductive, PTL DEF LockInv

(* What lets SourceClient model Connect as one step: under c.mu nobody     *)
(* sees the state "connecting" (Connect and State of every client).        *)
THEOREM ConnectIsAtomic == LockSpec => []ReadersSeeWholeSteps
<1>1. LockInv => ReadersSeeWholeSteps
  BY DEF LockInv, LockTypeOK, Exclusion, ConnectingDials, ReadersSeeWholeSteps
<1> QED
  BY <1>1, LockInductive, PTL

(* No operation reaches the library with a client that was not connected   *)
(* when its read lock was released (opcua/client.go:221-227).              *)
THEOREM OnlyConnectedClients == LockSpec => UsesConnectedClient
<1>1. LockInv /\ [LockNext]_lockVars
        => [\A r \in Readers : rpc[r] # "using" /\ rpc'[r] = "using" => Connected]_lockVars
  <2> SUFFICES ASSUME LockInv, LockNext, NEW r \in Readers, rpc[r] # "using", rpc'[r] = "using"
               PROVE  Connected
    OBVIOUS
  <2> USE DEF LockInv, LockTypeOK
  <2>1. PICK q \in Readers : CallRead(q) \/ ReaderStep(q)
    <3>1. ASSUME NEW w \in Writers, CallLock(w) \/ Announce(w) \/ WriterStep(w)
          PROVE  rpc'[r] # "using"
      BY <3>1 DEF CallLock, Announce, WriterStep, Acquire, Dial, DialEnds, Drop, LeaveAsIs,
         Unlock
    <3> QED
      BY <3>1 DEF LockNext
  <2>2. q = r
    BY <2>1 DEF CallRead, ReaderStep, TakeClient, CallIsConnected, IsConnected, NotConnected,
       CopyClient, Return, RLock, RUnlock, ReaderGoes
  <2>3. TakeClient(r) \/ CopyClient(r)
    BY <2>1, <2>2 DEF CallRead, ReaderStep, TakeClient, CallIsConnected, IsConnected,
       NotConnected,
       CopyClient, Return, RLock, RUnlock, ReaderGoes
  <2> QED
    BY <2>3 DEF TakeClient, CopyClient, RUnlock, ReaderGoes, AnswerHolds
<1> QED
  BY <1>1, LockInductive, PTL DEF LockSpec, UsesConnectedClient

(* Operations, Connect, Disconnect and retries of a Modbus client cannot    *)
(* all wait for one another (modbus/client.go:217-219 copies what it needs  *)
(* in one section): a reader that waits waits for a writer, a writer for a  *)
(* reader that holds one lock and asks for no second one.                   *)
THEOREM NoStandstill == LockSpec => []PlainClientsGoOn
<1>1. LockInv => PlainClientsGoOn
  <2> SUFFICES ASSUME LockInv, ~Nested, UnderWay PROVE SomebodyCanGoOn
    BY DEF PlainClientsGoOn
  <2> USE DEF LockInv, LockTypeOK
  <2>1. CASE announced # NoWriter
    <3>1. PICK w \in Writers : wpc[w] \in {"announced", "inside", "dialling"}
      BY <2>1 DEF AnnouncedWriter
    <3>2. MayWrite \/ \E r \in Readers : rpc[r] = "section"
      BY DEF MayWrite, PlainReaders, LocksHeld
    <3> QED
      BY <3>1, <3>2 DEF SomebodyCanGoOn
  <2>2. CASE announced = NoWriter
    <3>1. \A r \in Readers : rpc[r] \in {"idle", "section", "using"}
      BY <2>2 DEF PlainReaders, ParkedBehindWriter, Parked
    <3>2. \A w \in Writers : wpc[w] \in {"idle", "called"}
      BY <2>2, LockAssumption DEF AnnouncedWriter, WriterPcs
    <3> QED
      BY <2>2, <3>1, <3>2 DEF UnderWay, SomebodyCanGoOn
  <2> QED
    BY <2>1, <2>2
<1> QED
  BY <1>1, LockInductive, PTL
=============================================================================
