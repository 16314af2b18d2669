------------------------------ MODULE Programs_proofs -----------------------------
(***************************************************************************)
(* Theorems about the course's one-thread programs: the mapped file and    *)
(* the two readers of CsvParser, the overlapping messages of MessageSlab,  *)
(* the window of AlphaGenerator, the pending orders of BacktestEngine, the *)
(* masked sums of MaskedFilter and the recurrences of RunningStatistics.   *)
(***************************************************************************)
EXTENDS CsvParser, MessageSlab, BacktestEngine, MaskedFilter, RunningStatistics, SharedLemmas

-----------------------------------------------------------------------------
(* CsvParser: MemoryMappedFile                                             *)

\* The inductive invariant: what the wrapper holds at each stage of main.
Unopened == fd_ = -1 /\ descriptors = {} /\ mapped = FALSE /\ data_ = "nullptr"
Opened == fd_ = 3 /\ descriptors = {3}
WrapperInv ==
    /\ stage \in {"generate", "killed", "ifstream", "getline", "map"} => Unopened
    /\ stage \in {"stat", "mmap"} => Opened /\ mapped = FALSE /\ data_ = "nullptr"
    /\ stage = "parse" => Opened /\ mapped = TRUE /\ data_ = "mapping"
    /\ stage = "unmap" => \/ Unopened
                          \/ Opened /\ mapped = FALSE /\ data_ \in {"nullptr", "MAP_FAILED"}
                          \/ Opened /\ mapped = TRUE /\ data_ = "mapping"
    /\ stage \in {"generate", "killed", "ifstream", "getline", "map", "stat", "mmap", "parse",
                  "unmap", "done"}
    /\ stage = "done" => descriptors = {} /\ mapped = FALSE

\* Every step keeps it: open stops at the call that fails, and the destructor undoes
\* what was done.
LEMMA WrapperKept == ASSUME WrapperInv, [CsvNext]_csvVars PROVE WrapperInv'
<1>1. CASE GenerateRow \/ ParseRow \/ GetLine \/ UNCHANGED csvVars
  <2>1. UNCHANGED <<stage, fd_, data_, descriptors, mapped>>
    <3>1. CASE GenerateRow
      BY <3>1, SMT DEF GenerateRow, wrapper
    <3>2. CASE ParseRow
      BY <3>2, Zenon DEF ParseRow, wrapper
    <3>3. CASE GetLine
      BY <3>3, Zenon DEF GetLine, wrapper
    <3>4. CASE UNCHANGED csvVars
      BY <3>4, Zenon DEF csvVars
    <3> QED
      BY <1>1, <3>1, <3>2, <3>3, <3>4
  <2> QED
    BY <2>1 DEF WrapperInv, Unopened, Opened
<1>2. CASE DivideByZero \/ Generated \/ OpenStream \/ StreamEnds
  <2>1. /\ stage \in {"generate", "ifstream", "getline"}
        /\ stage' \in {"killed", "ifstream", "getline", "map"}
        /\ UNCHANGED <<fd_, data_, descriptors, mapped>>
    BY <1>2 DEF DivideByZero, Generated, OpenStream, StreamEnds, wrapper
  <2> QED
    BY <2>1 DEF WrapperInv, Unopened, Opened
<1>3. CASE OpenFile
  BY <1>3 DEF OpenFile, WrapperInv, Unopened, Opened
<1>4. CASE Stat
  BY <1>4 DEF Stat, WrapperInv, Unopened, Opened, wrapper
<1>5. CASE Map
  BY <1>5 DEF Map, WrapperInv, Unopened, Opened
<1>6. CASE ParseEnds
  BY <1>6 DEF ParseEnds, WrapperInv, Unopened, Opened, wrapper
<1>7. CASE Unmap
  BY <1>7 DEF Unmap, WrapperInv, Unopened, Opened
<1> QED
  BY <1>1, <1>2, <1>3, <1>4, <1>5, <1>6, <1>7 DEF CsvNext, Stopped

\* ~MemoryMappedFile: whichever call of open failed, nothing stays open or mapped.
THEOREM NothingLeaks == CsvSpec => []EverythingReleased
<1>1. CsvInit => WrapperInv
  BY DEF CsvInit, WrapperInv, Unopened, Opened
<1>2. WrapperInv /\ [CsvNext]_csvVars => WrapperInv'
  BY WrapperKept
<1>3. WrapperInv => EverythingReleased
  BY DEF WrapperInv, EverythingReleased, Unopened, Opened
<1> QED
  BY <1>1, <1>2, <1>3, PTL DEF CsvSpec

-----------------------------------------------------------------------------
(* CsvParser: what the file is made of                                     *)

Token == [run : Int, width : Int] \cup [char : {"comma", "point", "newline", "header"}]
Row == [timestamp_ms : Int, open : Int, high : Int, low : Int, close : Int, volume : Int]

LEMMA Tokens ==
  /\ \A v \in Int : Digits(v) \in Token /\ IsRun(Digits(v)) /\ Digits(v).run = v
  /\ \A v, w \in Int : [run |-> v, width |-> w] \in Token
  /\ \A c \in {"comma", "point", "newline", "header"} : Char(c) \in Token /\ ~ IsRun(Char(c))
  /\ \A v, w, c : [run |-> v, width |-> w] # Char(c)
  /\ \A v, c : Digits(v) # Char(c)
  /\ Char("comma") # Char("point") /\ Char("comma") # Char("newline") /\ Char("point") # Char("newline")
<1>1. \A v \in Int : Digits(v) \in Token /\ IsRun(Digits(v)) /\ Digits(v).run = v
  BY DEF Token, Digits, IsRun
<1>2. \A v, w \in Int : [run |-> v, width |-> w] \in Token
  BY DEF Token
<1>3. \A c \in {"comma", "point", "newline", "header"} : Char(c) \in Token /\ ~ IsRun(Char(c))
  BY DEF Token, Char, IsRun
<1>4. \A v, w, c : [run |-> v, width |-> w] # Char(c)
  BY DEF Char
<1>5. \A v, c : Digits(v) # Char(c)
  BY DEF Char, Digits
<1>6. \A b, c : Char(b) = Char(c) => b = c
  <2> TAKE b, c
  <2>1. Char(b).char = b /\ Char(c).char = c
    BY DEF Char
  <2> QED
    BY <2>1
<1>7. Char("comma") # Char("point") /\ Char("comma") # Char("newline") /\ Char("point") # Char("newline")
  BY <1>6
<1> QED
  BY <1>1, <1>2, <1>3, <1>4, <1>5, <1>7

\* Price x is printed from token a on, and the comma after it is token e.
Fraction(token, x) == \E w \in 1 .. 3, v \in Int : /\ token = [run |-> v, width |-> w]
                                                  /\ v * 10^(3 - w) = x % 1000
FieldAt(f, a, e, x) ==
    /\ f[a] = Digits(x \div 1000) /\ f[e] = Char("comma")
    /\ \/ e = a + 1 /\ x % 1000 = 0
       \/ e = a + 3 /\ x % 1000 # 0 /\ f[a + 1] = Char("point") /\ Fraction(f[a + 2], x)

\* A price is its units and its thousandths.
LEMMA Units ==
  ASSUME NEW x \in Int
  PROVE  x % 1000 \in Int /\ x \div 1000 \in Int /\ 1000 * (x \div 1000) + (x % 1000) = x
<1>1. PICK C \in Nat \ {0} : C = 1000
  OBVIOUS
<1>2. x % C \in Int /\ x \div C \in Int /\ C * (x \div C) + (x % C) = x
  BY DivisionWithRemainder
<1> QED
  BY <1>1, <1>2

\* The decimals a printed price shows are all it has.
LEMMA NoDigitLost ==
  ASSUME NEW y \in Int, NEW w,
         w = IF y % 100 = 0 THEN 1 ELSE IF y % 10 = 0 THEN 2 ELSE 3
  PROVE  /\ w \in 1 .. 3
         /\ \E v \in Int : v = y \div 10^(3 - w) /\ v * 10^(3 - w) = y
<1>1. CASE y % 100 = 0
  <2>1. w = 1 /\ 10^(3 - w) = 100
    BY <1>1
  <2>2. y \div 100 \in Int /\ y = 100 * (y \div 100)
    BY <1>1, DivisionWithRemainder
  <2> QED
    BY <2>1, <2>2
<1>2. CASE y % 100 # 0 /\ y % 10 = 0
  <2>1. w = 2 /\ 10^(3 - w) = 10
    BY <1>2
  <2>2. y \div 10 \in Int /\ y = 10 * (y \div 10)
    BY <1>2, DivisionWithRemainder
  <2> QED
    BY <2>1, <2>2
<1>3. CASE y % 100 # 0 /\ y % 10 # 0
  <2>1. w = 3 /\ 10^(3 - w) = 1
    BY <1>3
  <2>2. y \div 1 = y
    OBVIOUS
  <2> QED
    BY <2>1, <2>2
<1> QED
  BY <1>1, <1>2, <1>3

\* A file grows at its end.
Grows(f, g) == /\ f \in Seq(Token) /\ g \in Seq(Token) /\ Len(f) <= Len(g)
               /\ \A i \in 1 .. Len(f) : g[i] = f[i]

Put(f, t) == f \o t

LEMMA Appended ==
  ASSUME NEW f \in Seq(Token), NEW t \in Seq(Token)
  PROVE  \E g \in Seq(Token) : /\ g = Put(f, t) /\ Grows(f, g) /\ Len(g) = Len(f) + Len(t)
                             /\ \A i \in 1 .. Len(t) : g[Len(f) + i] = t[i]
<1>0. PICK g : g = f \o t
  OBVIOUS
<1>1. PICK M \in Nat, N \in Nat : M = Len(f) /\ N = Len(t)
  OBVIOUS
<1>2. /\ g \in Seq(Token) /\ Len(g) = M + N
      /\ \A i \in 1 .. M + N : g[i] = IF i <= M THEN f[i] ELSE t[i - M]
  BY <1>0, <1>1, ConcatProperties
<1>3. \A i \in 1 .. N : g[M + i] = t[i]
  <2> TAKE i \in 1 .. N
  <2>1. M + i \in 1 .. M + N /\ ~ (M + i <= M) /\ M + i - M = i
    OBVIOUS
  <2> QED
    BY <1>2, <2>1
<1>4. /\ Grows(f, g) /\ Len(g) = Len(f) + Len(t)
      /\ \A i \in 1 .. Len(t) : g[Len(f) + i] = t[i]
  BY <1>1, <1>2, <1>3 DEF Grows
<1> QED
  BY <1>0, <1>2, <1>4, Zenon DEF Put

LEMMA GrowsOn ==
  ASSUME NEW f, NEW g, NEW h, Grows(f, g), Grows(g, h)
  PROVE  Grows(f, h)
<1>1. PICK M \in Nat, N \in Nat : M = Len(f) /\ N = Len(g)
  BY DEF Grows
<1>2. /\ f \in Seq(Token) /\ h \in Seq(Token) /\ M <= N /\ N <= Len(h)
      /\ (\A i \in 1 .. M : g[i] = f[i]) /\ \A k \in 1 .. N : h[k] = g[k]
  BY <1>1 DEF Grows
<1>3. Len(h) \in Nat /\ \A i \in 1 .. M : i \in 1 .. N
  BY <1>2
<1> QED
  BY <1>1, <1>2, <1>3 DEF Grows

LEMMA FieldStays ==
  ASSUME NEW f, NEW g, Grows(f, g), NEW a \in Nat \ {0}, NEW e \in Nat, e <= Len(f), NEW x,
         FieldAt(f, a, e, x)
  PROVE  FieldAt(g, a, e, x)
<1>1. \A i \in Nat \ {0} : i <= Len(f) => g[i] = f[i]
  BY DEF Grows
<1>2. e = a + 1 \/ e = a + 3
  BY DEF FieldAt
<1>3. g[a] = f[a] /\ g[e] = f[e]
  BY <1>1, <1>2 DEF Grows
<1>4. e = a + 3 => g[a + 1] = f[a + 1] /\ g[a + 2] = f[a + 2]
  BY <1>1 DEF Grows
<1>5. CASE e = a + 1 /\ x % 1000 = 0
  BY <1>3, <1>5 DEF FieldAt
<1>6. CASE e = a + 3 /\ x % 1000 # 0
  <2>1. e # a + 1
    BY <1>6
  <2> QED
    BY <1>3, <1>4, <1>6, <2>1 DEF FieldAt
<1> QED
  BY <1>5, <1>6 DEF FieldAt

LEMMA TwoTokens ==
  ASSUME NEW a \in Token, NEW b \in Token
  PROVE  (<<a>> \o <<>>) \o <<b>> = <<a, b>>
<1>1. PICK s : s = (<<a>> \o <<>>) \o <<b>>
  OBVIOUS
<1>2. s \in Seq(Token) /\ Len(s) = 2 /\ s[1] = a /\ s[2] = b
  BY <1>1
<1>3. <<a, b>> \in Seq(Token) /\ Len(<<a, b>>) = 2 /\ <<a, b>>[1] = a /\ <<a, b>>[2] = b
  OBVIOUS
<1>4. \A i \in 1 .. Len(s) : s[i] = <<a, b>>[i]
  BY <1>2, <1>3
<1> QED
  BY <1>1, <1>2, <1>3, <1>4, SeqEqual

LEMMA FourTokens ==
  ASSUME NEW a \in Token, NEW b \in Token, NEW c \in Token, NEW d \in Token
  PROVE  (<<a>> \o <<b, c>>) \o <<d>> = <<a, b, c, d>>
<1>1. PICK s : s = (<<a>> \o <<b, c>>) \o <<d>>
  OBVIOUS
<1>2. s \in Seq(Token) /\ Len(s) = 4 /\ s[1] = a /\ s[2] = b /\ s[3] = c /\ s[4] = d
  BY <1>1
<1>3. /\ <<a, b, c, d>> \in Seq(Token) /\ Len(<<a, b, c, d>>) = 4 /\ <<a, b, c, d>>[1] = a
      /\ <<a, b, c, d>>[2] = b /\ <<a, b, c, d>>[3] = c /\ <<a, b, c, d>>[4] = d
  OBVIOUS
<1>4. \A i \in 1 .. Len(s) : s[i] = <<a, b, c, d>>[i]
  BY <1>2, <1>3
<1> QED
  BY <1>1, <1>2, <1>3, <1>4, SeqEqual

\* operator<< of a price and the comma after it: two tokens, or four.
Field(x) == Printed(x) \o <<Char("comma")>>
WholeOnly(x) == <<Digits(x \div 1000), Char("comma")>>
WithFraction(x, v, w) == <<Digits(x \div 1000), Char("point"), [run |-> v, width |-> w], Char("comma")>>

LEMMA PrintedTokens ==
  ASSUME NEW x \in Int
  PROVE  \/ x % 1000 = 0 /\ Field(x) = WholeOnly(x)
         \/ /\ x % 1000 # 0
            /\ \E v \in Int, w \in 1 .. 3 :
                  v * 10^(3 - w) = x % 1000 /\ Field(x) = WithFraction(x, v, w)
<1>1. PICK y : y = x % 1000
  OBVIOUS
<1>2. y \in Int /\ x \div 1000 \in Int
  BY <1>1, Units
<1>3. Digits(x \div 1000) \in Token /\ Char("comma") \in Token /\ Char("point") \in Token
  BY <1>2, Tokens
<1>4. CASE y = 0
  <2>1. Printed(x) = <<Digits(x \div 1000)>> \o IF y = 0 THEN <<>> ELSE Printed(x)
    BY <1>1, <1>4 DEF Printed
  <2>2. Printed(x) = <<Digits(x \div 1000)>> \o <<>>
    BY <1>4, <2>1
  <2>3. Field(x) = WholeOnly(x)
    BY <1>3, <2>2, TwoTokens DEF Field, WholeOnly
  <2> QED
    BY <1>1, <1>4, <2>3
<1>5. CASE y # 0
  <2>1. PICK w : w = IF y % 100 = 0 THEN 1 ELSE IF y % 10 = 0 THEN 2 ELSE 3
    OBVIOUS
  <2>2. w \in 1 .. 3
    BY <1>2, <2>1, NoDigitLost, ZenonT(60)
  <2>3. PICK v \in Int : v = y \div 10^(3 - w) /\ v * 10^(3 - w) = y
    BY <1>2, <2>1, NoDigitLost, ZenonT(60)
  <2>4. [run |-> v, width |-> w] \in Token
    <3>1. w \in Int
      BY <2>2
    <3> QED
      BY <2>3, <3>1, Tokens
  <2>5. Printed(x) = <<Digits(x \div 1000)>> \o <<Char("point"), [run |-> v, width |-> w]>>
    BY <1>1, <1>5, <2>1, <2>3 DEF Printed
  <2>6. Field(x) = WithFraction(x, v, w)
    BY <1>3, <2>4, <2>5, FourTokens DEF Field, WithFraction
  <2>7. x % 1000 # 0 /\ v * 10^(3 - w) = x % 1000
    BY <1>1, <1>5, <2>3
  <2> QED
    BY <2>2, <2>6, <2>7, ZenonT(60)
<1> QED
  BY <1>4, <1>5, Zenon

LEMMA FieldWritten ==
  ASSUME NEW f \in Seq(Token), NEW x \in Int
  PROVE  /\ Field(x) \in Seq(Token)
         /\ \A g : g = Put(f, Field(x)) => Grows(f, g) /\ FieldAt(g, Len(f) + 1, Len(g), x)
<1>0. SUFFICES ASSUME NEW g, g = Put(f, Field(x))
               PROVE  Field(x) \in Seq(Token) /\ Grows(f, g) /\ FieldAt(g, Len(f) + 1, Len(g), x)
  <2>1. PICK g : g = Put(f, Field(x))
    OBVIOUS
  <2> QED
    BY <2>1
<1>1. PICK b \in Token, c \in Token, d \in Token :
        b = Digits(x \div 1000) /\ c = Char("comma") /\ d = Char("point")
  BY Units, Tokens
<1>2. PICK N \in Nat : N = Len(f)
  OBVIOUS
<1>3. ASSUME x % 1000 = 0, Field(x) = WholeOnly(x)
      PROVE  Field(x) \in Seq(Token) /\ Grows(f, g) /\ FieldAt(g, Len(f) + 1, Len(g), x)
  <2>1. Field(x) = <<b, c>>
    BY <1>1, <1>3 DEF WholeOnly
  <2>2. <<b, c>> \in Seq(Token) /\ Len(<<b, c>>) = 2 /\ <<b, c>>[1] = b /\ <<b, c>>[2] = c
    OBVIOUS
  <2>3. PICK t \in Seq(Token) : t = Field(x) /\ Len(t) = 2 /\ t[1] = b /\ t[2] = c
    BY <2>1, <2>2, Zenon
  <2>4. Grows(f, g) /\ Len(g) = N + 2 /\ \A i \in 1 .. 2 : g[N + i] = t[i]
    <3>1. g = Put(f, t)
      BY <1>0, <2>3
    <3>2. Grows(f, g) /\ Len(g) = Len(f) + Len(t) /\ \A i \in 1 .. Len(t) : g[Len(f) + i] = t[i]
      <4>1. PICK h : /\ h = Put(f, t) /\ Grows(f, h) /\ Len(h) = Len(f) + Len(t)
                     /\ \A i \in 1 .. Len(t) : h[Len(f) + i] = t[i]
        BY Appended
      <4>2. g = h
        BY <3>1, <4>1, Zenon
      <4> QED
        BY <4>1, <4>2, Zenon
    <3> QED
      BY <1>2, <2>3, <3>2
  <2>5. FieldAt(g, N + 1, N + 2, x)
    <3>1. g[N + 1] = b /\ g[N + 2] = c /\ N + 2 = N + 1 + 1
      BY <2>3, <2>4
    <3> QED
      BY <1>1, <1>3, <3>1 DEF FieldAt
  <2> QED
    BY <1>2, <2>3, <2>4, <2>5, Zenon
<1>4. ASSUME NEW v \in Int, NEW w \in 1 .. 3, x % 1000 # 0, v * 10^(3 - w) = x % 1000,
             Field(x) = WithFraction(x, v, w)
      PROVE  Field(x) \in Seq(Token) /\ Grows(f, g) /\ FieldAt(g, Len(f) + 1, Len(g), x)
  <2>0. PICK frac \in Token : frac = [run |-> v, width |-> w]
    <3>1. w \in Int
      OBVIOUS
    <3> QED
      BY <3>1, Tokens
  <2>1. Field(x) = <<b, d, frac, c>>
    BY <1>1, <1>4, <2>0 DEF WithFraction
  <2>2. /\ <<b, d, frac, c>> \in Seq(Token) /\ Len(<<b, d, frac, c>>) = 4 /\ <<b, d, frac, c>>[1] = b
        /\ <<b, d, frac, c>>[2] = d /\ <<b, d, frac, c>>[3] = frac /\ <<b, d, frac, c>>[4] = c
    OBVIOUS
  <2>3. PICK t \in Seq(Token) : /\ t = Field(x) /\ Len(t) = 4 /\ t[1] = b /\ t[2] = d
                               /\ t[3] = frac /\ t[4] = c
    BY <2>1, <2>2, Zenon
  <2>4. Grows(f, g) /\ Len(g) = N + 4 /\ \A i \in 1 .. 4 : g[N + i] = t[i]
    <3>1. g = Put(f, t)
      BY <1>0, <2>3
    <3>2. Grows(f, g) /\ Len(g) = Len(f) + Len(t) /\ \A i \in 1 .. Len(t) : g[Len(f) + i] = t[i]
      <4>1. PICK h : /\ h = Put(f, t) /\ Grows(f, h) /\ Len(h) = Len(f) + Len(t)
                     /\ \A i \in 1 .. Len(t) : h[Len(f) + i] = t[i]
        BY Appended
      <4>2. g = h
        BY <3>1, <4>1, Zenon
      <4> QED
        BY <4>1, <4>2, Zenon
    <3> QED
      BY <1>2, <2>3, <3>2
  <2>5. FieldAt(g, N + 1, N + 4, x)
    <3>1. /\ g[N + 1] = b /\ g[N + 1 + 1] = d /\ g[N + 1 + 2] = frac /\ g[N + 4] = c
          /\ N + 4 = N + 1 + 3
      <4>1. g[N + 1] = b /\ g[N + 2] = d /\ g[N + 3] = frac /\ g[N + 4] = c
        <5>1. g[N + 1] = t[1] /\ g[N + 2] = t[2] /\ g[N + 3] = t[3] /\ g[N + 4] = t[4]
          BY <2>4
        <5> QED
          BY <2>3, <5>1
      <4>2. N + 2 = N + 1 + 1 /\ N + 3 = N + 1 + 2 /\ N + 4 = N + 1 + 3
        OBVIOUS
      <4> QED
        BY <4>1, <4>2
    <3>2. Fraction(g[N + 1 + 2], x)
      <4>1. g[N + 1 + 2] = [run |-> v, width |-> w]
        BY <2>0, <3>1
      <4> QED
        BY <1>4, <4>1, ZenonT(60) DEF Fraction
    <3>3. g[N + 1] = Digits(x \div 1000) /\ g[N + 4] = Char("comma") /\ g[N + 1 + 1] = Char("point")
      BY <1>1, <3>1
    <3> QED
      BY <1>4, <3>1, <3>2, <3>3 DEF FieldAt
  <2> QED
    BY <1>2, <2>3, <2>4, <2>5, Zenon
<1>5. \/ x % 1000 = 0 /\ Field(x) = WholeOnly(x)
      \/ /\ x % 1000 # 0
         /\ \E v \in Int, w \in 1 .. 3 :
               v * 10^(3 - w) = x % 1000 /\ Field(x) = WithFraction(x, v, w)
  BY PrintedTokens
<1> QED
  BY <1>3, <1>4, <1>5

\* Row r starts at token q; c holds the place before it and those of its commas.
RowAt(f, q, r, c) ==
    /\ c \in [0 .. 5 -> Nat] /\ c[0] = q - 1 /\ c[1] = q + 1
    /\ f[q] = Digits(r.timestamp_ms) /\ f[q + 1] = Char("comma")
    /\ FieldAt(f, c[1] + 1, c[2], r.open) /\ FieldAt(f, c[2] + 1, c[3], r.high)
    /\ FieldAt(f, c[3] + 1, c[4], r.low) /\ FieldAt(f, c[4] + 1, c[5], r.close)
    /\ f[c[5] + 1] = Digits(r.volume) /\ f[c[5] + 2] = Char("newline")

LEMMA Steps ==
  ASSUME NEW a \in Nat, NEW b \in Nat, NEW d \in Nat, NEW e \in Nat, NEW h \in Nat,
         b = a + 2 \/ b = a + 4, d = b + 2 \/ d = b + 4, e = d + 2 \/ e = d + 4, h = e + 2 \/ h = e + 4
  PROVE  a < b /\ b < d /\ d < e /\ e < h /\ a < h /\ b < h /\ d < h
  OBVIOUS

LEMMA Commas ==
  ASSUME NEW f, NEW q \in Nat, NEW r, NEW c, RowAt(f, q, r, c)
  PROVE  /\ c[0] \in Nat /\ c[1] \in Nat /\ c[2] \in Nat /\ c[3] \in Nat /\ c[4] \in Nat /\ c[5] \in Nat
         /\ q = c[0] + 1 /\ c[1] = c[0] + 2
         /\ c[1] < c[2] /\ c[2] < c[3] /\ c[3] < c[4] /\ c[4] < c[5]
         /\ c[1] < c[5] /\ c[2] < c[5] /\ c[3] < c[5]
<1>1. /\ c[0] \in Nat /\ c[1] \in Nat /\ c[2] \in Nat /\ c[3] \in Nat /\ c[4] \in Nat /\ c[5] \in Nat
      /\ c[0] = q - 1 /\ c[1] = q + 1
  BY DEF RowAt
<1>2. \A a \in Nat : \A e, x : FieldAt(f, a + 1, e, x) => e = a + 2 \/ e = a + 4
  BY DEF FieldAt
<1>3. /\ c[2] = c[1] + 2 \/ c[2] = c[1] + 4
      /\ c[3] = c[2] + 2 \/ c[3] = c[2] + 4
      /\ c[4] = c[3] + 2 \/ c[4] = c[3] + 4
      /\ c[5] = c[4] + 2 \/ c[5] = c[4] + 4
  BY <1>1, <1>2, Zenon DEF RowAt
<1>4. /\ c[1] < c[2] /\ c[2] < c[3] /\ c[3] < c[4] /\ c[4] < c[5]
      /\ c[1] < c[5] /\ c[2] < c[5] /\ c[3] < c[5]
  BY <1>1, <1>3, Steps, ZenonT(60)
<1> QED
  BY <1>1, <1>4

LEMMA RowStays ==
  ASSUME NEW f, NEW g, Grows(f, g), NEW q \in Nat \ {0}, NEW r, NEW c, RowAt(f, q, r, c),
         c[5] + 2 <= Len(f)
  PROVE  RowAt(g, q, r, c)
<1>1. PICK M \in Nat : M = Len(f) /\ \A i \in Nat \ {0} : i <= M => g[i] = f[i]
  BY DEF Grows
<1>2. /\ c[0] \in Nat /\ c[1] \in Nat /\ c[2] \in Nat /\ c[3] \in Nat /\ c[4] \in Nat /\ c[5] \in Nat
      /\ q = c[0] + 1 /\ c[1] = c[0] + 2
      /\ c[1] < c[2] /\ c[2] < c[3] /\ c[3] < c[4] /\ c[4] < c[5]
      /\ c[1] < c[5] /\ c[2] < c[5] /\ c[3] < c[5]
  BY Commas
<1>0. c[5] + 2 <= M
  BY <1>1
<1>3. /\ g[q] = f[q] /\ g[q + 1] = f[q + 1]
      /\ g[c[5] + 1] = f[c[5] + 1] /\ g[c[5] + 2] = f[c[5] + 2]
  <2>1. q \in Nat \ {0} /\ q + 1 \in Nat \ {0} /\ c[5] + 1 \in Nat \ {0} /\ c[5] + 2 \in Nat \ {0}
    <3>1. \A n \in Nat : n + 1 \in Nat \ {0} /\ n + 2 \in Nat \ {0}
      OBVIOUS
    <3>2. q \in Nat
      OBVIOUS
    <3> QED
      BY <1>2, <3>1, <3>2, Zenon
  <2>2. q <= M /\ q + 1 <= M /\ c[5] + 1 <= M /\ c[5] + 2 <= M
    BY <1>0, <1>2
  <2> QED
    BY <1>1, <2>1, <2>2
<1>4. /\ c[2] <= Len(f) /\ c[3] <= Len(f) /\ c[4] <= Len(f) /\ c[5] <= Len(f)
      /\ c[1] + 1 \in Nat \ {0} /\ c[2] + 1 \in Nat \ {0} /\ c[3] + 1 \in Nat \ {0} /\ c[4] + 1 \in Nat \ {0}
  <2>1. c[2] <= M /\ c[3] <= M /\ c[4] <= M /\ c[5] <= M
    BY <1>0, <1>2, SMTT(30)
  <2>2. c[1] + 1 \in Nat \ {0} /\ c[2] + 1 \in Nat \ {0} /\ c[3] + 1 \in Nat \ {0} /\ c[4] + 1 \in Nat \ {0}
    <3>1. \A n \in Nat : n + 1 \in Nat \ {0}
      OBVIOUS
    <3> QED
      BY <1>2, <3>1, Zenon
  <2> QED
    BY <1>1, <2>1, <2>2
<1>5. \A a \in Nat \ {0}, e \in Nat : \A x : e <= Len(f) /\ FieldAt(f, a, e, x) => FieldAt(g, a, e, x)
  BY FieldStays
<1>6. /\ FieldAt(g, c[1] + 1, c[2], r.open) /\ FieldAt(g, c[2] + 1, c[3], r.high)
      /\ FieldAt(g, c[3] + 1, c[4], r.low) /\ FieldAt(g, c[4] + 1, c[5], r.close)
  BY <1>2, <1>4, <1>5, Zenon DEF RowAt
<1> QED
  BY <1>3, <1>6, Zenon DEF RowAt

LEMMA Associative ==
  ASSUME NEW f \in Seq(Token), NEW t \in Seq(Token), NEW u \in Seq(Token)
  PROVE  \E s \in Seq(Token) : s = Put(t, u) /\ Put(f, s) = Put(Put(f, t), u)
<1>1. PICK s \in Seq(Token) : s = t \o u
  BY ConcatProperties
<1>2. (f \o t) \o u = f \o (t \o u)
  BY ConcatAssociative
<1> QED
  BY <1>1, <1>2, Zenon DEF Put

\* operator<< of a row
LEMMA LineWritten ==
  ASSUME NEW f \in Seq(Token), NEW r \in Row
  PROVE  \A g : g = Put(f, Line(r)) =>
                /\ Grows(f, g)
                /\ \E c : RowAt(g, Len(f) + 1, r, c) /\ Len(g) = c[5] + 2
<1>1. /\ r.timestamp_ms \in Int /\ r.open \in Int /\ r.high \in Int /\ r.low \in Int
      /\ r.close \in Int /\ r.volume \in Int
  BY DEF Row
<1>2. PICK d \in Token, e \in Token, b \in Token, n \in Token :
        d = Digits(r.timestamp_ms) /\ e = Digits(r.volume) /\ b = Char("comma") /\ n = Char("newline")
  BY <1>1, Tokens
<1>3. PICK first \in Seq(Token) : first = <<d, b>> /\ first \in Seq(Token) /\ Len(first) = 2 /\ first[1] = d /\ first[2] = b
  <2>1. /\ <<d, b>> \in Seq(Token) /\ Len(<<d, b>>) = 2
        /\ <<d, b>>[1] = d /\ <<d, b>>[2] = b
    OBVIOUS
  <2> QED
    BY <2>1, Zenon
<1>4. PICK last \in Seq(Token) : last = <<e, n>> /\ last \in Seq(Token) /\ Len(last) = 2 /\ last[1] = e /\ last[2] = n
  <2>1. /\ <<e, n>> \in Seq(Token) /\ Len(<<e, n>>) = 2
        /\ <<e, n>>[1] = e /\ <<e, n>>[2] = n
    OBVIOUS
  <2> QED
    BY <2>1, Zenon
<1>30. Len(first) = 2 /\ first[1] = d /\ first[2] = b /\ Len(last) = 2 /\ last[1] = e /\ last[2] = n
  BY <1>3, <1>4, Zenon
<1>5. PICK f1 \in Seq(Token), f2 \in Seq(Token), f3 \in Seq(Token), f4 \in Seq(Token) :
        f1 = Field(r.open) /\ f2 = Field(r.high) /\ f3 = Field(r.low) /\ f4 = Field(r.close)
  BY <1>1, FieldWritten
<1>6. PICK t1 \in Seq(Token) : t1 = Put(first, f1) /\ Put(f, t1) = Put(Put(f, first), f1)
  BY Associative
<1>7. PICK t2 \in Seq(Token) : t2 = Put(t1, f2) /\ Put(f, t2) = Put(Put(f, t1), f2)
  BY Associative
<1>8. PICK t3 \in Seq(Token) : t3 = Put(t2, f3) /\ Put(f, t3) = Put(Put(f, t2), f3)
  BY Associative
<1>9. PICK t4 \in Seq(Token) : t4 = Put(t3, f4) /\ Put(f, t4) = Put(Put(f, t3), f4)
  BY Associative
<1>10. PICK t5 \in Seq(Token) : t5 = Put(t4, last) /\ Put(f, t5) = Put(Put(f, t4), last)
  BY Associative
<1>11. Line(r) = t5
  BY <1>2, <1>3, <1>4, <1>5, <1>6, <1>7, <1>8, <1>9, <1>10, Zenon DEF Line, Field, Put
<1>12. PICK M \in Nat : M = Len(f)
  OBVIOUS
<1>13. PICK g0 \in Seq(Token) : /\ g0 = Put(f, first) /\ Grows(f, g0) /\ Len(g0) = Len(f) + Len(first)
                               /\ \A i \in 1 .. Len(first) : g0[Len(f) + i] = first[i]
  BY Appended
<1>28. Len(g0) = M + 2 /\ g0[M + 1] = d /\ g0[M + 2] = b
  BY <1>30, <1>12, <1>13
<1>14. ASSUME NEW h \in Seq(Token), NEW x \in Int
       PROVE  \E g \in Seq(Token) : /\ g = Put(h, Field(x)) /\ Grows(h, g)
                                    /\ FieldAt(g, Len(h) + 1, Len(g), x)
  <2>1. PICK g : g = Put(h, Field(x))
    OBVIOUS
  <2>2. Grows(h, g) /\ FieldAt(g, Len(h) + 1, Len(g), x)
    BY <2>1, FieldWritten
  <2> QED
    BY <2>1, <2>2 DEF Grows
<1>15. PICK g1 \in Seq(Token) : /\ g1 = Put(g0, f1) /\ Grows(g0, g1)
                               /\ FieldAt(g1, Len(g0) + 1, Len(g1), r.open)
  BY <1>1, <1>5, <1>14
<1>16. PICK g2 \in Seq(Token) : /\ g2 = Put(g1, f2) /\ Grows(g1, g2)
                               /\ FieldAt(g2, Len(g1) + 1, Len(g2), r.high)
  BY <1>1, <1>5, <1>14
<1>17. PICK g3 \in Seq(Token) : /\ g3 = Put(g2, f3) /\ Grows(g2, g3)
                               /\ FieldAt(g3, Len(g2) + 1, Len(g3), r.low)
  BY <1>1, <1>5, <1>14
<1>18. PICK g4 \in Seq(Token) : /\ g4 = Put(g3, f4) /\ Grows(g3, g4)
                               /\ FieldAt(g4, Len(g3) + 1, Len(g4), r.close)
  BY <1>1, <1>5, <1>14
<1>19. PICK g5 \in Seq(Token) : /\ g5 = Put(g4, last) /\ Grows(g4, g5) /\ Len(g5) = Len(g4) + Len(last)
                               /\ \A i \in 1 .. Len(last) : g5[Len(g4) + i] = last[i]
  BY Appended
<1>29. Len(g5) = Len(g4) + 2 /\ g5[Len(g4) + 1] = e /\ g5[Len(g4) + 2] = n
  BY <1>30, <1>19, SMTT(30)
<1>20. g5 = Put(f, Line(r))
  BY <1>6, <1>7, <1>8, <1>9, <1>10, <1>11, <1>13, <1>15, <1>16, <1>17, <1>18, <1>19, Zenon
<1>21. Grows(g3, g5) /\ Grows(g2, g5) /\ Grows(g1, g5) /\ Grows(g0, g5) /\ Grows(f, g5)
  BY <1>13, <1>15, <1>16, <1>17, <1>18, <1>19, GrowsOn
<1> DEFINE c == [k \in 0 .. 5 |-> IF k = 0 THEN M ELSE IF k = 1 THEN M + 2 ELSE IF k = 2 THEN Len(g1)
                                  ELSE IF k = 3 THEN Len(g2) ELSE IF k = 4 THEN Len(g3) ELSE Len(g4)]
<1>22. /\ c[0] = M /\ c[1] = M + 2 /\ c[2] = Len(g1) /\ c[3] = Len(g2) /\ c[4] = Len(g3)
       /\ c[5] = Len(g4) /\ c \in [0 .. 5 -> Nat]
  OBVIOUS
<1> HIDE DEF c
<1>23. \A h \in Seq(Token), a \in Nat, e0 \in Nat : \A x :
          Grows(h, g5) /\ e0 = Len(h) /\ FieldAt(h, a + 1, e0, x) => FieldAt(g5, a + 1, e0, x)
  <2> TAKE h \in Seq(Token), a \in Nat, e0 \in Nat
  <2> TAKE x
  <2>1. HAVE Grows(h, g5) /\ e0 = Len(h) /\ FieldAt(h, a + 1, e0, x)
  <2>2. a + 1 \in Nat \ {0} /\ e0 <= Len(h)
    BY <2>1
  <2> QED
    BY <2>1, <2>2, FieldStays
<1>24. /\ FieldAt(g5, c[1] + 1, c[2], r.open) /\ FieldAt(g5, c[2] + 1, c[3], r.high)
       /\ FieldAt(g5, c[3] + 1, c[4], r.low) /\ FieldAt(g5, c[4] + 1, c[5], r.close)
  <2>1. M + 2 \in Nat /\ Len(g0) \in Nat /\ Len(g1) \in Nat /\ Len(g2) \in Nat /\ Len(g3) \in Nat /\ Len(g4) \in Nat
    OBVIOUS
  <2> QED
    <3>1. FieldAt(g5, Len(g0) + 1, Len(g1), r.open)
      BY <1>15, <1>21, <1>23, <2>1, Zenon
    <3>2. FieldAt(g5, Len(g1) + 1, Len(g2), r.high)
      BY <1>16, <1>21, <1>23, <2>1, Zenon
    <3>3. FieldAt(g5, Len(g2) + 1, Len(g3), r.low)
      BY <1>17, <1>21, <1>23, <2>1, Zenon
    <3>4. FieldAt(g5, Len(g3) + 1, Len(g4), r.close)
      BY <1>18, <1>19, <1>23, <2>1, Zenon
    <3> QED
      BY <1>28, <1>22, <3>1, <3>2, <3>3, <3>4, Zenon
<1>25. g5[M + 1] = d /\ g5[M + 2] = b
  <2>1. M + 1 \in 1 .. Len(g0) /\ M + 2 \in 1 .. Len(g0)
    BY <1>28
  <2> QED
    BY <1>28, <1>21, <2>1 DEF Grows
<1>26. RowAt(g5, M + 1, r, c)
  <2>1. M = M + 1 - 1 /\ M + 2 = M + 1 + 1
    OBVIOUS
  <2>2. c[0] = M + 1 - 1 /\ c[1] = M + 1 + 1 /\ g5[M + 1] = d /\ g5[M + 1 + 1] = b
    BY <1>22, <1>25, <2>1
  <2>3. g5[c[5] + 1] = e /\ g5[c[5] + 2] = n
    BY <1>22, <1>29, Zenon
  <2>4. g5[M + 1] = Digits(r.timestamp_ms) /\ g5[M + 1 + 1] = Char("comma")
    BY <1>2, <2>2
  <2>5. g5[c[5] + 1] = Digits(r.volume) /\ g5[c[5] + 2] = Char("newline")
    BY <1>2, <2>3
  <2> QED
    BY <1>22, <1>24, <2>2, <2>4, <2>5 DEF RowAt
<1>27. RowAt(g5, Len(f) + 1, r, c) /\ Len(g5) = c[5] + 2
  BY <1>12, <1>29, <1>22, <1>26
<1> QED
  BY <1>20, <1>21, <1>27, Zenon

-----------------------------------------------------------------------------
(* CsvParser: what the readers find                                        *)

\* The first place of a character is the only one with none before it.
LEMMA FirstIs ==
  ASSUME NEW k \in Nat, NEW q \in Nat, NEW ch, k <= q, q <= Len(file), Len(file) \in Nat,
         file[q] = Char(ch), \A h \in k .. q - 1 : file[h] # Char(ch)
  PROVE  First(ch, k) = q
<1> DEFINE P(x) == x \in k .. Len(file) /\ file[x] = Char(ch) /\ \A h \in k .. x - 1 : file[h] # Char(ch)
<1>1. P(q)
  OBVIOUS
<1>2. ASSUME NEW x, P(x) PROVE x = q
  <2>1. x \in Nat /\ k <= x
    BY <1>2
  <2>2. ~ (x < q)
    <3>1. x < q => x \in k .. q - 1
      BY <2>1
    <3> QED
      BY <1>2, <3>1
  <2>3. ~ (q < x)
    <3>1. q < x => q \in k .. x - 1
      BY <2>1
    <3> QED
      BY <1>2, <3>1
  <2> QED
    BY <2>1, <2>2, <2>3
<1>3. First(ch, k) = CHOOSE x : P(x)
  BY DEF First
<1> HIDE DEF P
<1> QED
  BY <1>1, <1>2, <1>3, Zenon

\* stod and parse_double of a printed price give it back.
LEMMA FieldRead ==
  ASSUME NEW a \in Nat, NEW e \in Nat, NEW x \in Int, FieldAt(file, a, e, x),
         e <= Len(file), Len(file) \in Nat
  PROVE  /\ Stod(a, e - 1) = x
         /\ parse_double(a).val = x /\ parse_double(a).p = e
         /\ \A h \in a .. e - 1 : file[h] # Char("comma") /\ file[h] # Char("newline")
<1>1. PICK y \in Int, u \in Int : y = x % 1000 /\ u = x \div 1000 /\ 1000 * u + y = x
  BY Units
<1>2. file[a] = Digits(u) /\ file[e] = Char("comma") /\ IsRun(file[a]) /\ file[a].run = u
  BY <1>1, Tokens DEF FieldAt
<1>3. parse_int64(a) = [val |-> u, p |-> a + 1]
  BY <1>2 DEF parse_int64
<1>4. \A v, w, ch : [run |-> v, width |-> w] # Char(ch)
  BY Tokens
<1>5. file[a] # Char("comma") /\ file[a] # Char("newline")
  BY <1>2, Tokens
<1>6. CASE e = a + 1 /\ y = 0
  <2>1. e - 1 = a /\ ~ (e - 1 > a)
    BY <1>6
  <2>2. Stod(a, e - 1) = 1000 * u
    BY <1>1, <1>2, <2>1 DEF Stod
  <2>3. ~ At(a + 1, "point")
    BY <1>2, <1>6, Tokens DEF At
  <2>4. parse_double(a) = [val |-> 1000 * u, p |-> a + 1]
    BY <1>3, <2>3 DEF parse_double
  <2>5. \A h \in a .. e - 1 : h = a
    BY <1>6
  <2> QED
    BY <1>1, <1>5, <1>6, <2>2, <2>4, <2>5
<1>7. CASE e = a + 3 /\ y # 0
  <2>1. file[a + 1] = Char("point")
    BY <1>1, <1>7 DEF FieldAt
  <2>2. PICK w \in 1 .. 3, v \in Int :
          file[a + 2] = [run |-> v, width |-> w] /\ v * 10^(3 - w) = x % 1000
    <3>1. Fraction(file[a + 2], x)
      BY <1>7 DEF FieldAt
    <3> QED
      BY <3>1, Zenon DEF Fraction
  <2>3. file[a + 2].run = v /\ file[a + 2].width = w
    BY <2>2
  <2>4. e - 1 = a + 2 /\ e - 1 > a
    BY <1>7
  <2>5. Stod(a, e - 1) = 1000 * u + v * 10^(3 - w)
    <3>1. Stod(a, a + 2) = 1000 * file[a].run + file[a + 2].run * 10^(3 - file[a + 2].width)
      BY DEF Stod
    <3> QED
      BY <1>2, <2>3, <2>4, <3>1
  <2>6. At(a + 1, "point")
    BY <1>7, <2>1 DEF At
  <2>7. parse_double(a) = [val |-> 1000 * u + v * 10^(3 - w), p |-> a + 3]
    <3>1. a + 1 + 1 = a + 2 /\ a + 1 + 2 = a + 3
      OBVIOUS
    <3>2. parse_int64(a).val = u /\ parse_int64(a).p = a + 1
      BY <1>3
    <3>3. parse_double(a) = [val |-> 1000 * u + file[a + 1 + 1].run * 10^(3 - file[a + 1 + 1].width),
                             p |-> a + 1 + 2]
      BY <2>6, <3>2 DEF parse_double
    <3>4. file[a + 1 + 1].run = v /\ file[a + 1 + 1].width = w
      BY <2>3, <3>1
    <3>5. 1000 * u + file[a + 1 + 1].run * 10^(3 - file[a + 1 + 1].width) = 1000 * u + v * 10^(3 - w)
      BY <3>4
    <3> QED
      BY <3>1, <3>3, <3>5
  <2>8. \A h \in a .. e - 1 : h = a \/ h = a + 1 \/ h = a + 2
    BY <1>7
  <2>9. /\ file[a + 1] # Char("comma") /\ file[a + 1] # Char("newline")
        /\ file[a + 2] # Char("comma") /\ file[a + 2] # Char("newline")
    BY <1>4, <2>1, <2>2, Tokens
  <2>10. 1000 * u + v * 10^(3 - w) = x
    BY <1>1, <2>2
  <2>11. \A h \in a .. e - 1 : file[h] # Char("comma") /\ file[h] # Char("newline")
    BY <1>5, <2>8, <2>9, Zenon
  <2>12. Stod(a, e - 1) = x /\ parse_double(a).val = x /\ parse_double(a).p = e
    BY <1>7, <2>5, <2>7, <2>10
  <2> QED
    BY <2>11, <2>12
<1> QED
  BY <1>1, <1>6, <1>7 DEF FieldAt

\* A row, read by parse_int64 and parse_double
ParsedRow(q) ==
    LET ts == parse_int64(q)              open == parse_double(ts.p + 1)
        high == parse_double(open.p + 1)  low == parse_double(high.p + 1)
        close == parse_double(low.p + 1)  volume == parse_int64(close.p + 1)
    IN [row |-> [timestamp_ms |-> ts.val, open |-> open.val, high |-> high.val,
                 low |-> low.val, close |-> close.val, volume |-> volume.val],
        p |-> IF At(volume.p, "newline") THEN volume.p + 1 ELSE volume.p]

LEMMA RowParsed ==
  ASSUME NEW q \in Nat \ {0}, NEW r \in Row, NEW c, RowAt(file, q, r, c), c[5] + 2 <= Len(file),
         Len(file) \in Nat
  PROVE  ParsedRow(q).row = r /\ ParsedRow(q).p = c[5] + 3
<1>1. /\ c[0] \in Nat /\ c[1] \in Nat /\ c[2] \in Nat /\ c[3] \in Nat /\ c[4] \in Nat /\ c[5] \in Nat
      /\ q = c[0] + 1 /\ c[1] = c[0] + 2
      /\ c[1] < c[2] /\ c[2] < c[3] /\ c[3] < c[4] /\ c[4] < c[5]
      /\ c[1] < c[5] /\ c[2] < c[5] /\ c[3] < c[5]
  BY Commas
<1>2. /\ r.timestamp_ms \in Int /\ r.open \in Int /\ r.high \in Int /\ r.low \in Int
      /\ r.close \in Int /\ r.volume \in Int
      /\ r = [timestamp_ms |-> r.timestamp_ms, open |-> r.open, high |-> r.high,
              low |-> r.low, close |-> r.close, volume |-> r.volume]
  BY DEF Row
<1>3. /\ c[2] <= Len(file) /\ c[3] <= Len(file) /\ c[4] <= Len(file) /\ c[5] <= Len(file)
  BY <1>1
<1>4. /\ c[1] + 1 \in Nat /\ c[2] + 1 \in Nat /\ c[3] + 1 \in Nat /\ c[4] + 1 \in Nat
  <2>1. \A n \in Nat : n + 1 \in Nat
    OBVIOUS
  <2> QED
    BY <1>1, <2>1, Zenon
<1>15. \A a \in Nat, e \in Nat, x \in Int :
          e <= Len(file) /\ FieldAt(file, a, e, x) => parse_double(a).val = x /\ parse_double(a).p = e
  BY FieldRead
<1>16. /\ FieldAt(file, c[1] + 1, c[2], r.open) /\ FieldAt(file, c[2] + 1, c[3], r.high)
       /\ FieldAt(file, c[3] + 1, c[4], r.low) /\ FieldAt(file, c[4] + 1, c[5], r.close)
  BY Zenon DEF RowAt
<1>5. parse_int64(q) = [val |-> r.timestamp_ms, p |-> q + 1]
  <2>1. file[q] = Digits(r.timestamp_ms)
    BY DEF RowAt
  <2> QED
    BY <1>2, <2>1, Tokens DEF parse_int64
<1>6. parse_int64(c[5] + 1) = [val |-> r.volume, p |-> c[5] + 1 + 1]
  <2>1. file[c[5] + 1] = Digits(r.volume)
    BY DEF RowAt
  <2> QED
    BY <1>2, <2>1, Tokens DEF parse_int64
<1>7. parse_double(c[1] + 1).val = r.open /\ parse_double(c[1] + 1).p = c[2]
  BY <1>1, <1>2, <1>3, <1>4, <1>15, <1>16, Zenon
<1>8. parse_double(c[2] + 1).val = r.high /\ parse_double(c[2] + 1).p = c[3]
  BY <1>1, <1>2, <1>3, <1>4, <1>15, <1>16, Zenon
<1>9. parse_double(c[3] + 1).val = r.low /\ parse_double(c[3] + 1).p = c[4]
  BY <1>1, <1>2, <1>3, <1>4, <1>15, <1>16, Zenon
<1>10. parse_double(c[4] + 1).val = r.close /\ parse_double(c[4] + 1).p = c[5]
  BY <1>1, <1>2, <1>3, <1>4, <1>15, <1>16, Zenon
<1>11. q + 1 = c[1] /\ c[5] + 1 + 1 = c[5] + 2 /\ c[5] + 2 + 1 = c[5] + 3
  BY <1>1
<1>12. At(c[5] + 2, "newline")
  BY DEF At, RowAt
<1>13. /\ parse_int64(q).val = r.timestamp_ms /\ parse_int64(q).p = c[1]
       /\ parse_int64(c[5] + 1).val = r.volume /\ parse_int64(c[5] + 1).p = c[5] + 2
  BY <1>5, <1>6, <1>11
<1>14. ParsedRow(q) = [row |-> r, p |-> c[5] + 3]
  <2>1. ParsedRow(q) = [row |-> [timestamp_ms |-> r.timestamp_ms, open |-> r.open, high |-> r.high,
                                 low |-> r.low, close |-> r.close, volume |-> r.volume],
                        p |-> IF At(c[5] + 2, "newline") THEN c[5] + 2 + 1 ELSE c[5] + 2]
    BY <1>7, <1>8, <1>9, <1>10, <1>13, Zenon DEF ParsedRow
  <2> QED
    BY <1>2, <1>11, <1>12, <2>1
<1> QED
  BY <1>14

Spread(c0, c1, c2, c3, c4, c5) ==
    /\ c5 + 2 \in Nat /\ c0 + 1 <= c5 + 2 /\ c5 + 2 - 1 = c5 + 1
    /\ c0 + 1 \in Nat /\ c0 + 1 <= c1 /\ c1 + 1 <= c2 /\ c2 + 1 <= c3 /\ c3 + 1 <= c4 /\ c4 + 1 <= c5
    /\ \A h \in c0 + 1 .. c5 + 1 :
         \/ h = c0 + 1 \/ h = c1 \/ h = c2 \/ h = c3 \/ h = c4 \/ h = c5 \/ h = c5 + 1
         \/ h \in c1 + 1 .. c2 - 1 \/ h \in c2 + 1 .. c3 - 1
         \/ h \in c3 + 1 .. c4 - 1 \/ h \in c4 + 1 .. c5 - 1

LEMMA Places ==
  ASSUME NEW c0 \in Nat, NEW c1 \in Nat, NEW c2 \in Nat, NEW c3 \in Nat, NEW c4 \in Nat, NEW c5 \in Nat,
         c1 = c0 + 2, c1 < c2, c2 < c3, c3 < c4, c4 < c5
  PROVE  Spread(c0, c1, c2, c3, c4, c5)
  BY DEF Spread

\* The places getline finds the commas at, and the row it makes of the line.
SplitAt(g, q) == g = [k \in 0 .. 5 |-> IF k = 0 THEN q - 1 ELSE First("comma", g[k - 1] + 1)]
SplitRow(q) ==
    LET comma == CHOOSE g : SplitAt(g, q)
        field(k) == Stod(comma[k] + 1, comma[k + 1] - 1)
    IN [timestamp_ms |-> file[q].run, open |-> field(1), high |-> field(2),
        low |-> field(3), close |-> field(4), volume |-> file[comma[5] + 1].run]

LEMMA RowSplit ==
  ASSUME NEW q \in Nat \ {0}, NEW r \in Row, NEW c, RowAt(file, q, r, c), c[5] + 2 <= Len(file),
         Len(file) \in Nat
  PROVE  SplitRow(q) = r /\ First("newline", q) = c[5] + 2
<1>1. /\ c[0] \in Nat /\ c[1] \in Nat /\ c[2] \in Nat /\ c[3] \in Nat /\ c[4] \in Nat /\ c[5] \in Nat
      /\ q = c[0] + 1 /\ c[1] = c[0] + 2
      /\ c[1] < c[2] /\ c[2] < c[3] /\ c[3] < c[4] /\ c[4] < c[5]
      /\ c[1] < c[5] /\ c[2] < c[5] /\ c[3] < c[5]
  BY Commas
<1>23. /\ c[5] + 2 \in Nat /\ c[0] + 1 <= c[5] + 2 /\ c[5] + 2 - 1 = c[5] + 1
       /\ c[0] + 1 \in Nat /\ c[0] + 1 <= c[1] /\ c[1] + 1 <= c[2] /\ c[2] + 1 <= c[3]
       /\ c[3] + 1 <= c[4] /\ c[4] + 1 <= c[5]
       /\ \A h \in c[0] + 1 .. c[5] + 1 :
            \/ h = c[0] + 1 \/ h = c[1] \/ h = c[2] \/ h = c[3] \/ h = c[4] \/ h = c[5] \/ h = c[5] + 1
            \/ h \in c[1] + 1 .. c[2] - 1 \/ h \in c[2] + 1 .. c[3] - 1
            \/ h \in c[3] + 1 .. c[4] - 1 \/ h \in c[4] + 1 .. c[5] - 1
  <2>1. Spread(c[0], c[1], c[2], c[3], c[4], c[5])
    BY <1>1, Places
  <2> QED
    BY <2>1, Zenon DEF Spread
<1>2. /\ r.timestamp_ms \in Int /\ r.open \in Int /\ r.high \in Int /\ r.low \in Int
      /\ r.close \in Int /\ r.volume \in Int
      /\ r = [timestamp_ms |-> r.timestamp_ms, open |-> r.open, high |-> r.high,
              low |-> r.low, close |-> r.close, volume |-> r.volume]
  BY DEF Row
<1>3. /\ c[2] <= Len(file) /\ c[3] <= Len(file) /\ c[4] <= Len(file) /\ c[5] <= Len(file)
  BY <1>1
<1>4. /\ c[1] + 1 \in Nat /\ c[2] + 1 \in Nat /\ c[3] + 1 \in Nat /\ c[4] + 1 \in Nat
  <2>1. \A n \in Nat : n + 1 \in Nat
    OBVIOUS
  <2> QED
    BY <1>1, <2>1, Zenon
<1>5. \A a \in Nat, e \in Nat, x \in Int :
         e <= Len(file) /\ FieldAt(file, a, e, x) =>
            /\ Stod(a, e - 1) = x
            /\ \A h \in a .. e - 1 : file[h] # Char("comma") /\ file[h] # Char("newline")
  BY FieldRead
<1>6. /\ FieldAt(file, c[1] + 1, c[2], r.open) /\ FieldAt(file, c[2] + 1, c[3], r.high)
      /\ FieldAt(file, c[3] + 1, c[4], r.low) /\ FieldAt(file, c[4] + 1, c[5], r.close)
  BY Zenon DEF RowAt
<1>7. /\ Stod(c[1] + 1, c[2] - 1) = r.open /\ Stod(c[2] + 1, c[3] - 1) = r.high
      /\ Stod(c[3] + 1, c[4] - 1) = r.low /\ Stod(c[4] + 1, c[5] - 1) = r.close
  BY <1>1, <1>2, <1>3, <1>4, <1>5, <1>6, Zenon
<1>8. /\ \A h \in c[1] + 1 .. c[2] - 1 : file[h] # Char("comma") /\ file[h] # Char("newline")
      /\ \A h \in c[2] + 1 .. c[3] - 1 : file[h] # Char("comma") /\ file[h] # Char("newline")
      /\ \A h \in c[3] + 1 .. c[4] - 1 : file[h] # Char("comma") /\ file[h] # Char("newline")
      /\ \A h \in c[4] + 1 .. c[5] - 1 : file[h] # Char("comma") /\ file[h] # Char("newline")
  BY <1>1, <1>2, <1>3, <1>4, <1>5, <1>6, Zenon
<1>9. /\ file[c[1]] = Char("comma") /\ file[c[2]] = Char("comma") /\ file[c[3]] = Char("comma")
      /\ file[c[4]] = Char("comma") /\ file[c[5]] = Char("comma")
  <2>1. file[c[1]] = Char("comma")
    <3>1. c[1] = q + 1 /\ file[q + 1] = Char("comma")
      BY DEF RowAt
    <3> QED
      BY <3>1
  <2>2. \A a, e, x : FieldAt(file, a, e, x) => file[e] = Char("comma")
    BY DEF FieldAt
  <2> QED
    BY <1>6, <2>1, <2>2, Zenon
<1>10. file[q] = Digits(r.timestamp_ms) /\ file[c[5] + 1] = Digits(r.volume) /\ file[c[5] + 2] = Char("newline")
  BY DEF RowAt
<1>11. First("newline", q) = c[5] + 2
  <2>1. \A h \in q .. c[5] + 1 : file[h] # Char("newline")
    <3> TAKE h \in q .. c[5] + 1
    <3>1. \/ h = q \/ h = c[1] \/ h = c[2] \/ h = c[3] \/ h = c[4] \/ h = c[5] \/ h = c[5] + 1
          \/ h \in c[1] + 1 .. c[2] - 1 \/ h \in c[2] + 1 .. c[3] - 1
          \/ h \in c[3] + 1 .. c[4] - 1 \/ h \in c[4] + 1 .. c[5] - 1
      BY <1>1, <1>23
    <3>2. h = q \/ h = c[5] + 1 => file[h] # Char("newline")
      BY <1>10, Tokens
    <3>3. \/ h = c[1] \/ h = c[2] \/ h = c[3] \/ h = c[4] \/ h = c[5] => file[h] # Char("newline")
      BY <1>9, Tokens
    <3> QED
      BY <1>8, <3>1, <3>2, <3>3, Zenon
  <2>2. c[5] + 2 \in Nat /\ q <= c[5] + 2 /\ c[5] + 2 - 1 = c[5] + 1 /\ q \in Nat
    BY <1>1, <1>23
  <2> QED
    <3>1. PICK m \in Nat : m = c[5]
      BY <1>1
    <3>2. /\ file[m + 2] = Char("newline") /\ m + 2 <= Len(file) /\ q <= m + 2
          /\ \A h \in q .. m + 1 : file[h] # Char("newline")
      BY <1>10, <2>1, <2>2, <3>1, Zenon
    <3>3. m + 2 \in Nat /\ m + 2 - 1 = m + 1 /\ q \in Nat
      BY <2>2, <3>1
    <3>4. \A k \in Nat, n \in Nat :
             /\ k <= n /\ n <= Len(file) /\ file[n] = Char("newline")
             /\ \A h \in k .. n - 1 : file[h] # Char("newline")
             => First("newline", k) = n
      BY FirstIs
    <3>5. PICK n \in Nat : n = m + 2 /\ n - 1 = m + 1
      BY <3>3
    <3>6. /\ file[n] = Char("newline") /\ n <= Len(file) /\ q <= n
          /\ \A h \in q .. n - 1 : file[h] # Char("newline")
      BY <3>2, <3>5, Zenon
    <3>7. First("newline", q) = n
      BY <3>3, <3>4, <3>6, Zenon
    <3> QED
      BY <3>1, <3>5, <3>7, Zenon
<1>12. /\ First("comma", c[0] + 1) = c[1] /\ First("comma", c[1] + 1) = c[2] /\ First("comma", c[2] + 1) = c[3]
       /\ First("comma", c[3] + 1) = c[4] /\ First("comma", c[4] + 1) = c[5]
  <2>1. \A k \in Nat, e \in Nat :
           /\ k <= e /\ e <= Len(file) /\ file[e] = Char("comma")
           /\ \A h \in k .. e - 1 : file[h] # Char("comma")
           => First("comma", k) = e
    BY FirstIs
  <2>2. /\ c[0] + 1 \in Nat /\ c[0] + 1 <= c[1] /\ c[1] + 1 <= c[2] /\ c[2] + 1 <= c[3]
        /\ c[3] + 1 <= c[4] /\ c[4] + 1 <= c[5] /\ c[1] <= Len(file)
    <3>1. c[1] <= Len(file)
      BY <1>1, <1>3, SMTT(30)
    <3> QED
      BY <1>1, <1>23, <3>1
  <2>3. \A h \in c[0] + 1 .. c[1] - 1 : file[h] # Char("comma")
    <3>1. \A h \in c[0] + 1 .. c[1] - 1 : h = q
      BY <1>1
    <3>2. file[q] # Char("comma")
      BY <1>10, Tokens
    <3> QED
      BY <3>1, <3>2, Zenon
  <2>4. /\ \A k \in c[1] + 1 .. c[2] - 1 : file[k] # Char("comma")
        /\ \A k \in c[2] + 1 .. c[3] - 1 : file[k] # Char("comma")
        /\ \A k \in c[3] + 1 .. c[4] - 1 : file[k] # Char("comma")
        /\ \A k \in c[4] + 1 .. c[5] - 1 : file[k] # Char("comma")
    BY <1>8, Zenon
  <2>5. First("comma", c[0] + 1) = c[1]
    BY <1>1, <1>9, <2>1, <2>2, <2>3, Zenon
  <2>6. First("comma", c[1] + 1) = c[2]
    BY <1>1, <1>3, <1>4, <1>9, <2>1, <2>2, <2>4, Zenon
  <2>7. First("comma", c[2] + 1) = c[3]
    BY <1>1, <1>3, <1>4, <1>9, <2>1, <2>2, <2>4, Zenon
  <2>8. First("comma", c[3] + 1) = c[4]
    BY <1>1, <1>3, <1>4, <1>9, <2>1, <2>2, <2>4, Zenon
  <2>9. First("comma", c[4] + 1) = c[5]
    BY <1>1, <1>3, <1>4, <1>9, <2>1, <2>2, <2>4, Zenon
  <2> QED
    BY <2>5, <2>6, <2>7, <2>8, <2>9
<1>13. c \in [0 .. 5 -> Nat] /\ c[0] = q - 1
  BY DEF RowAt
<1>14. SplitAt(c, q)
  <2>1. \A k \in 0 .. 5 : c[k] = IF k = 0 THEN q - 1 ELSE First("comma", c[k - 1] + 1)
    <3> TAKE k \in 0 .. 5
    <3>1. \/ k = 0 \/ (k = 1 /\ k - 1 = 0) \/ (k = 2 /\ k - 1 = 1) \/ (k = 3 /\ k - 1 = 2)
          \/ (k = 4 /\ k - 1 = 3) \/ (k = 5 /\ k - 1 = 4)
      OBVIOUS
    <3> QED
      BY <1>12, <1>13, <3>1
  <2> QED
    BY <1>13, <2>1 DEF SplitAt
<1>15. ASSUME NEW g, SplitAt(g, q) PROVE \A k \in 0 .. 5 : g[k] = c[k]
  <2>1. /\ g[0] = q - 1
        /\ g[1] = First("comma", g[0] + 1) /\ g[2] = First("comma", g[1] + 1)
        /\ g[3] = First("comma", g[2] + 1) /\ g[4] = First("comma", g[3] + 1)
        /\ g[5] = First("comma", g[4] + 1)
    <3>1. \A k \in 0 .. 5 : g[k] = IF k = 0 THEN q - 1 ELSE First("comma", g[k - 1] + 1)
      BY <1>15, Zenon DEF SplitAt
    <3>2. /\ 0 \in 0 .. 5 /\ 1 \in 0 .. 5 /\ 2 \in 0 .. 5 /\ 3 \in 0 .. 5 /\ 4 \in 0 .. 5 /\ 5 \in 0 .. 5
          /\ 1 - 1 = 0 /\ 2 - 1 = 1 /\ 3 - 1 = 2 /\ 4 - 1 = 3 /\ 5 - 1 = 4
      OBVIOUS
    <3> QED
      BY <3>1, <3>2
  <2>2. g[0] = c[0]
    BY <1>13, <2>1, Zenon
  <2>3. g[1] = c[1]
    BY <1>12, <2>1, <2>2, Zenon
  <2>4. g[2] = c[2]
    BY <1>12, <2>1, <2>3, Zenon
  <2>5. g[3] = c[3]
    BY <1>12, <2>1, <2>4, Zenon
  <2>6. g[4] = c[4]
    BY <1>12, <2>1, <2>5, Zenon
  <2>7. g[5] = c[5]
    BY <1>12, <2>1, <2>6, Zenon
  <2>8. \A k \in 0 .. 5 : k = 0 \/ k = 1 \/ k = 2 \/ k = 3 \/ k = 4 \/ k = 5
    OBVIOUS
  <2> QED
    BY <2>2, <2>3, <2>4, <2>5, <2>6, <2>7, <2>8, Zenon
<1>16. PICK g : g = CHOOSE h : SplitAt(h, q)
  OBVIOUS
<1>17. \A k \in 0 .. 5 : g[k] = c[k]
  BY <1>14, <1>15, <1>16, Zenon
<1>18. g[1] = c[1] /\ g[2] = c[2] /\ g[3] = c[3] /\ g[4] = c[4] /\ g[5] = c[5]
  BY <1>17
<1>19. file[q].run = r.timestamp_ms /\ file[c[5] + 1].run = r.volume
  BY <1>2, <1>10, Tokens
<1>20. SplitRow(q) = [timestamp_ms |-> file[q].run, open |-> Stod(g[1] + 1, g[1 + 1] - 1),
                      high |-> Stod(g[2] + 1, g[2 + 1] - 1), low |-> Stod(g[3] + 1, g[3 + 1] - 1),
                      close |-> Stod(g[4] + 1, g[4 + 1] - 1), volume |-> file[g[5] + 1].run]
  BY <1>16, Zenon DEF SplitRow
<1>21. 1 + 1 = 2 /\ 2 + 1 = 3 /\ 3 + 1 = 4 /\ 4 + 1 = 5
  OBVIOUS
<1>22. SplitRow(q) = r
  BY <1>2, <1>7, <1>18, <1>19, <1>20, <1>21
<1> QED
  BY <1>11, <1>22

-----------------------------------------------------------------------------
(* CsvParser: the two readers agree                                        *)

\* Row i of rs starts at token at[i] of f, and the next where its line ends.
Layout(f, rs, at) ==
    /\ f \in Seq(Token) /\ Len(f) >= 2 /\ f[1] = Char("header") /\ f[2] = Char("newline")
    /\ rs \in Seq(Row)
    /\ at \in [1 .. Len(rs) + 1 -> Nat \ {0}] /\ at[1] = 3 /\ at[Len(rs) + 1] = Len(f) + 1
    /\ \A i \in 1 .. Len(rs) :
          \E c : RowAt(f, at[i], rs[i], c) /\ at[i + 1] = c[5] + 3 /\ c[5] + 2 <= Len(f)

LEMMA LayoutGrows ==
  ASSUME NEW f, NEW rs, NEW at, Layout(f, rs, at), NEW r \in Row
  PROVE  \E b : Layout(f \o Line(r), Append(rs, r), b)
<1>1. f \in Seq(Token) /\ rs \in Seq(Row)
  BY DEF Layout
<1>2. PICK M \in Nat, N \in Nat : M = Len(f) /\ N = Len(rs)
  BY <1>1
<1>3. PICK g : g = Put(f, Line(r))
  OBVIOUS
<1>4. PICK d : Grows(f, g) /\ RowAt(g, Len(f) + 1, r, d) /\ Len(g) = d[5] + 2
  BY <1>1, <1>3, LineWritten
<1>5. PICK rs2 : rs2 = Append(rs, r)
  OBVIOUS
<1>6. /\ rs2 \in Seq(Row) /\ Len(rs2) = N + 1 /\ rs2[N + 1] = r /\ \A i \in 1 .. N : rs2[i] = rs[i]
  BY <1>1, <1>2, <1>5, AppendProperties
<1>7. /\ M >= 2 /\ f[1] = Char("header") /\ f[2] = Char("newline")
      /\ at \in [1 .. N + 1 -> Nat \ {0}] /\ at[1] = 3 /\ at[N + 1] = M + 1
      /\ \A i \in 1 .. N : \E c : RowAt(f, at[i], rs[i], c) /\ at[i + 1] = c[5] + 3 /\ c[5] + 2 <= Len(f)
  BY <1>2, Zenon DEF Layout
<1>8. /\ g \in Seq(Token) /\ Len(g) \in Nat /\ M <= Len(g) /\ \A i \in 1 .. M : g[i] = f[i]
  BY <1>2, <1>4 DEF Grows
<1>9. d[5] \in Nat
  BY <1>4 DEF RowAt
<1> DEFINE b == [i \in 1 .. N + 2 |-> IF i = N + 2 THEN d[5] + 3 ELSE at[i]]
<1>10. /\ b \in [1 .. N + 2 -> Nat \ {0}] /\ b[N + 2] = d[5] + 3
       /\ \A i \in 1 .. N + 1 : b[i] = at[i]
  <2>1. d[5] + 3 \in Nat \ {0}
    BY <1>9
  <2>2. \A i \in 1 .. N + 2 : i # N + 2 => at[i] \in Nat \ {0}
    BY <1>7
  <2>3. N + 2 \in 1 .. N + 2 /\ \A i \in 1 .. N + 1 : i \in 1 .. N + 2 /\ i # N + 2
    OBVIOUS
  <2> QED
    BY <2>1, <2>2, <2>3
<1> HIDE DEF b
<1>11. ASSUME NEW i \in 1 .. N + 1
       PROVE  \E c : RowAt(g, b[i], rs2[i], c) /\ b[i + 1] = c[5] + 3 /\ c[5] + 2 <= Len(g)
  <2>1. CASE i = N + 1
    <3>1. b[i] = M + 1 /\ b[i + 1] = d[5] + 3 /\ rs2[i] = r
      <4>1. i + 1 = N + 2
        BY <2>1
      <4> QED
        BY <1>6, <1>7, <1>10, <2>1, <4>1
    <3>2. RowAt(g, M + 1, r, d)
      BY <1>2, <1>4
    <3>3. d[5] + 2 <= Len(g)
      BY <1>4, <1>8
    <3> QED
      BY <3>1, <3>2, <3>3, Zenon
  <2>2. CASE i # N + 1
    <3>1. i \in 1 .. N /\ i + 1 \in 1 .. N + 1
      BY <2>2
    <3>2. b[i] = at[i] /\ b[i + 1] = at[i + 1] /\ rs2[i] = rs[i] /\ at[i] \in Nat \ {0}
      BY <1>6, <1>7, <1>10, <3>1
    <3>3. PICK c : RowAt(f, at[i], rs[i], c) /\ at[i + 1] = c[5] + 3 /\ c[5] + 2 <= Len(f)
      BY <1>7, <3>1, Zenon
    <3>4. RowAt(g, at[i], rs[i], c)
      BY <1>4, <3>2, <3>3, RowStays, Zenon
    <3>5. c[5] + 2 <= Len(g)
      <4>1. c[5] \in Nat
        BY <3>3 DEF RowAt
      <4> QED
        BY <1>2, <1>8, <3>3, <4>1
    <3> QED
      BY <3>2, <3>3, <3>4, <3>5, Zenon
  <2> QED
    BY <2>1, <2>2
<1>12. Layout(g, rs2, b)
  <2>1. g[1] = Char("header") /\ g[2] = Char("newline") /\ Len(g) >= 2
    BY <1>7, <1>8
  <2>2. b[1] = 3
    BY <1>7, <1>10
  <2>3. N + 1 + 1 = N + 2 /\ b[N + 2] = Len(g) + 1
    BY <1>4, <1>9, <1>10
  <2> QED
    BY <1>6, <1>8, <1>10, <1>11, <2>1, <2>2, <2>3 DEF Layout
<1>13. g = f \o Line(r)
  BY <1>3 DEF Put
<1> QED
  BY <1>5, <1>12, <1>13, Zenon

\* A reader that has n rows stands where row n + 1 starts, or behind the last.
LEMMA ReaderPlace ==
  ASSUME NEW at, Layout(file, rows, at), NEW n \in Nat, n <= Len(rows)
  PROVE  /\ Len(rows) \in Nat /\ Len(file) \in Nat /\ at[n + 1] \in Nat \ {0}
         /\ n = Len(rows) <=> at[n + 1] > Len(file)
         /\ n # Len(rows) =>
              /\ rows[n + 1] \in Row
              /\ \E c : /\ RowAt(file, at[n + 1], rows[n + 1], c)
                        /\ at[n + 2] = c[5] + 3 /\ c[5] + 2 <= Len(file)
<1>1. PICK M \in Nat, N \in Nat : M = Len(file) /\ N = Len(rows)
  BY DEF Layout
<1>2. /\ at \in [1 .. N + 1 -> Nat \ {0}] /\ at[N + 1] = M + 1 /\ rows \in Seq(Row)
      /\ \A i \in 1 .. N : \E c : RowAt(file, at[i], rows[i], c) /\ at[i + 1] = c[5] + 3 /\ c[5] + 2 <= Len(file)
  BY <1>1, Zenon DEF Layout
<1>3. n + 1 \in 1 .. N + 1
  BY <1>1
<1>4. CASE n = N
  BY <1>1, <1>2, <1>3, <1>4
<1>5. CASE n # N
  <2>1. n + 1 \in 1 .. N /\ n + 1 + 1 = n + 2
    BY <1>1, <1>5
  <2>2. PICK c : RowAt(file, at[n + 1], rows[n + 1], c) /\ at[n + 1 + 1] = c[5] + 3 /\ c[5] + 2 <= Len(file)
    BY <1>2, <2>1, Zenon
  <2>3. rows[n + 1] \in Row
    BY <1>1, <1>2, <2>1
  <2>4. at[n + 1] \in Nat \ {0}
    BY <1>2, <1>3
  <2>5. at[n + 1] <= c[5]
    <3>1. /\ c[0] \in Nat /\ c[1] \in Nat /\ c[5] \in Nat /\ at[n + 1] = c[0] + 1
          /\ c[1] = c[0] + 2 /\ c[1] < c[5]
      BY <2>2, <2>4, Commas
    <3> QED
      BY <3>1
  <2>6. c[5] \in Nat
    BY <2>2 DEF RowAt
  <2>7. ~ (at[n + 1] > Len(file))
    BY <1>1, <2>2, <2>4, <2>5, <2>6
  <2>8. at[n + 2] = c[5] + 3
    BY <2>1, <2>2
  <2> QED
    BY <1>1, <1>5, <2>2, <2>3, <2>4, <2>7, <2>8
<1> QED
  BY <1>4, <1>5

\* What a reader has is the rows from the first on.
Reader(data) == /\ data \in Seq(Row) /\ Len(data) <= Len(rows)
                /\ \A i \in 1 .. Len(data) : data[i] = rows[i]

\* The inductive invariant: a reader stands where its next row starts.
ReadersInv ==
    /\ csv_price \in Int
    /\ Reader(data_ifstream) /\ Reader(data_mmap)
    /\ \E at : /\ Layout(file, rows, at)
               /\ stage = "getline" => p = at[Len(data_ifstream) + 1]
               /\ stage = "parse" => p = at[Len(data_mmap) + 1]
    /\ stage \in {"generate", "killed", "ifstream"} => p = 1 /\ Len(data_ifstream) = 0
    /\ stage \in {"generate", "killed", "ifstream", "getline", "map", "stat", "mmap"}
         => Len(data_mmap) = 0
    /\ stage = "map" /\ p > 1 => Len(data_ifstream) = Len(rows)
    /\ stage = "unmap" /\ mapped => Len(data_mmap) = Len(rows)

\* A row more, read.
LEMMA ReaderGrows ==
  ASSUME NEW data, Reader(data), rows \in Seq(Row), Len(data) # Len(rows)
  PROVE  LET more == Append(data, rows[Len(data) + 1])
         IN Reader(more) /\ Len(more) = Len(data) + 1
<1>1. PICK N \in Nat, L \in Nat : N = Len(data) /\ L = Len(rows) /\ N + 1 <= L
  BY DEF Reader
<1>2. PICK r \in Row : r = rows[N + 1]
  BY <1>1
<1>3. PICK more : more = Append(data, r)
  OBVIOUS
<1>4. more \in Seq(Row) /\ Len(more) = N + 1 /\ more[N + 1] = r /\ \A i \in 1 .. N : more[i] = data[i]
  BY <1>1, <1>3, AppendProperties DEF Reader
<1>5. \A i \in 1 .. N + 1 : more[i] = rows[i]
  <2> TAKE i \in 1 .. N + 1
  <2>1. i = N + 1 \/ i \in 1 .. N
    OBVIOUS
  <2> QED
    BY <1>1, <1>2, <1>4, <2>1 DEF Reader
<1>6. Reader(more) /\ Len(more) = Len(data) + 1
  BY <1>1, <1>4, <1>5 DEF Reader
<1> QED
  BY <1>1, <1>2, <1>3, <1>6

\* The header is one line.
LEMMA HeaderEnds ==
  ASSUME NEW at, Layout(file, rows, at)
  PROVE  First("newline", 1) + 1 = 3 /\ at[1] = 3
<1>1. Len(file) \in Nat /\ Len(file) >= 2 /\ file[1] = Char("header") /\ file[2] = Char("newline") /\ at[1] = 3
  BY DEF Layout
<1>2. Char("header") # Char("newline")
  <2>1. Char("header").char = "header" /\ Char("newline").char = "newline"
    BY DEF Char
  <2> QED
    BY <2>1
<1>3. \A h \in 1 .. 2 - 1 : file[h] # Char("newline")
  BY <1>1, <1>2
<1>4. First("newline", 1) = 2
  BY <1>1, <1>3, FirstIs
<1> QED
  BY <1>1, <1>4

LEMMA ReadersStart == CsvInit => ReadersInv
<1> SUFFICES ASSUME CsvInit PROVE ReadersInv
  OBVIOUS
<1>1. /\ stage = "generate" /\ csv_price = 150000 /\ rows = <<>> /\ p = 1
      /\ data_ifstream = <<>> /\ data_mmap = <<>> /\ file = <<Char("header"), Char("newline")>>
  BY DEF CsvInit, Header
<1>2. /\ <<>> \in Seq(Row) /\ Len(<<>>) = 0
  OBVIOUS
<1>3. PICK h \in Token, n \in Token : h = Char("header") /\ n = Char("newline")
  BY Tokens
<1>4. file \in Seq(Token) /\ Len(file) = 2 /\ file[1] = h /\ file[2] = n
  <2>1. <<h, n>> \in Seq(Token) /\ Len(<<h, n>>) = 2 /\ <<h, n>>[1] = h /\ <<h, n>>[2] = n
    OBVIOUS
  <2> QED
    BY <1>1, <1>3, <2>1
<1> DEFINE at == [i \in 1 .. 0 + 1 |-> 3]
<1>5. at \in [1 .. 0 + 1 -> Nat \ {0}] /\ at[1] = 3 /\ at[0 + 1] = 2 + 1
  OBVIOUS
<1> HIDE DEF at
<1>6. Layout(file, rows, at)
  BY <1>1, <1>2, <1>3, <1>4, <1>5 DEF Layout
<1>7. Reader(data_ifstream) /\ Reader(data_mmap)
  BY <1>1, <1>2 DEF Reader
<1>8. Len(data_ifstream) = 0 /\ Len(data_mmap) = 0
  BY <1>1, <1>2
<1> QED
  BY <1>1, <1>6, <1>7, <1>8 DEF ReadersInv

\* The row generate_test_file makes of its draws.
LEMMA DrawnRow ==
  ASSUME GenerateRow, csv_price \in Int, Len(rows) \in Nat
  PROVE  \E r \in Row : Emit(r) /\ csv_price' \in Int
<1>1. PICK draw \in PriceDraws, up \in SpreadDraws, down \in SpreadDraws :
        \E span \in Spans(draw, up, down) :
          /\ span > 0 /\ csv_price + draw - 50 + up <= PriceBound
          /\ \E open, close \in {0, span - 1} : Emit(Drawn(csv_price + draw - 50, up, down, open, close))
          /\ csv_price' = csv_price + draw - 50
  BY Zenon DEF GenerateRow
<1>2. PICK at \in Int : at = csv_price + draw - 50
  BY CsvAssumption
<1>3. draw \in Int /\ up \in Int /\ down \in Int
  BY CsvAssumption
<1>4. Spans(draw, up, down) \subseteq Int
  BY <1>3 DEF Spans
<1>5. PICK span \in Int :
        \E open, close \in {0, span - 1} : Emit(Drawn(at, up, down, open, close))
  BY <1>1, <1>2, <1>4, Zenon
<1>6. PICK open \in Int, close \in Int : Emit(Drawn(at, up, down, open, close))
  <2>1. {0, span - 1} \subseteq Int
    BY <1>5
  <2> QED
    BY <1>5, <2>1, Zenon
<1>7. csv_price' = at
  BY <1>1, <1>2, Zenon
<1>8. Drawn(at, up, down, open, close) \in Row
  BY <1>2, <1>3, <1>6 DEF Drawn, Row
<1> QED
  BY <1>2, <1>6, <1>7, <1>8, Zenon

\* generate_test_file writes what it draws.
LEMMA RowDrawn == ASSUME ReadersInv, GenerateRow PROVE ReadersInv'
<1>1. PICK at0 : Layout(file, rows, at0)
  BY DEF ReadersInv
<1>2. Len(rows) \in Nat /\ rows \in Seq(Row) /\ csv_price \in Int
  BY <1>1 DEF Layout, ReadersInv
<1>3. PICK r \in Row : Emit(r) /\ csv_price' \in Int
  BY <1>2, DrawnRow
<1>4. rows' = Append(rows, r) /\ file' = file \o Line(r)
  BY <1>3, Zenon DEF Emit
<1>11. PICK b : Layout(file \o Line(r), Append(rows, r), b)
  BY <1>1, <1>3, LayoutGrows
<1>12. Layout(file', rows', b)
  BY <1>4, <1>11, Zenon
<1>13. stage = "generate" /\ UNCHANGED <<stage, p, data_ifstream, data_mmap>>
  BY SMT DEF GenerateRow, parsed
<1>14. p = 1 /\ Len(data_ifstream) = 0 /\ Len(data_mmap) = 0 /\ data_ifstream \in Seq(Row) /\ data_mmap \in Seq(Row)
  BY <1>13 DEF ReadersInv, Reader
<1>15. Len(rows') \in Nat
  BY <1>12 DEF Layout
<1>16. Reader(data_ifstream)' /\ Reader(data_mmap)'
  BY <1>13, <1>14, <1>15 DEF Reader
<1> QED
  BY <1>3, <1>12, <1>13, <1>14, <1>16 DEF ReadersInv

\* getline appends the next row.
LEMMA LineRead == ASSUME ReadersInv, GetLine PROVE ReadersInv'
<1>1. PICK at : Layout(file, rows, at) /\ p = at[Len(data_ifstream) + 1]
  BY DEF ReadersInv, GetLine
<1>2. PICK n \in Nat : n = Len(data_ifstream) /\ n <= Len(rows)
  BY DEF ReadersInv, Reader
<1>3. stage = "getline" /\ p <= Len(file) /\ UNCHANGED <<stage, csv_price, rows, file, data_mmap>>
  BY Zenon DEF GetLine, written
<1>4. data_ifstream' = Append(data_ifstream, SplitRow(p)) /\ p' = First("newline", p) + 1
  BY Zenon DEF GetLine, SplitRow, SplitAt
<1>5. Len(rows) \in Nat /\ Len(file) \in Nat /\ at[n + 1] \in Nat \ {0} /\ rows \in Seq(Row)
  BY <1>1, <1>2, ReaderPlace DEF Layout
<1>6. n # Len(rows)
  BY <1>1, <1>2, <1>3, <1>5, ReaderPlace
<1>7. PICK c : /\ RowAt(file, at[n + 1], rows[n + 1], c)
               /\ at[n + 2] = c[5] + 3 /\ c[5] + 2 <= Len(file) /\ rows[n + 1] \in Row
  BY <1>1, <1>2, <1>6, ReaderPlace
<1>8. SplitRow(p) = rows[n + 1] /\ First("newline", p) = c[5] + 2
  BY <1>1, <1>2, <1>5, <1>7, RowSplit
<1>9. c[5] \in Nat
  BY <1>7 DEF RowAt
<1>10. p' = at[n + 2]
  BY <1>4, <1>7, <1>8, <1>9
<1>11. Reader(data_ifstream)' /\ Len(data_ifstream') = n + 1
  <2>1. data_ifstream' = Append(data_ifstream, rows[Len(data_ifstream) + 1])
    BY <1>2, <1>4, <1>8
  <2>2. Reader(data_ifstream') /\ Len(data_ifstream') = n + 1
    BY <1>2, <1>5, <1>6, <2>1, ReaderGrows DEF ReadersInv
  <2> QED
    BY <1>3, <2>2 DEF Reader
<1>12. Reader(data_mmap)'
  BY <1>3 DEF Reader, ReadersInv
<1>13. Layout(file', rows', at) /\ p' = at[Len(data_ifstream') + 1] /\ stage' = "getline"
  <2>1. n + 1 + 1 = n + 2
    OBVIOUS
  <2> QED
    BY <1>1, <1>3, <1>10, <1>11, <2>1
<1> QED
  BY <1>3, <1>11, <1>12, <1>13 DEF ReadersInv

\* The cursor over the mapped file appends the next row.
LEMMA RowRead == ASSUME ReadersInv, ParseRow PROVE ReadersInv'
<1>1. PICK at : Layout(file, rows, at) /\ p = at[Len(data_mmap) + 1]
  <2>1. stage = "parse"
    BY ZenonT(60) DEF ParseRow
  <2> QED
    BY <2>1, Zenon DEF ReadersInv
<1>2. PICK n \in Nat : n = Len(data_mmap) /\ n <= Len(rows)
  BY DEF ReadersInv, Reader
<1>3. stage = "parse" /\ p <= Len(file) /\ UNCHANGED <<stage, csv_price, rows, file, data_ifstream>>
  BY ZenonT(60) DEF ParseRow, written
<1>4. data_mmap' = Append(data_mmap, ParsedRow(p).row) /\ p' = ParsedRow(p).p
  BY Zenon DEF ParseRow, ParsedRow
<1>5. Len(rows) \in Nat /\ Len(file) \in Nat /\ at[n + 1] \in Nat \ {0} /\ rows \in Seq(Row)
  BY <1>1, <1>2, ReaderPlace DEF Layout
<1>6. n # Len(rows)
  BY <1>1, <1>2, <1>3, <1>5, ReaderPlace
<1>7. PICK c : /\ RowAt(file, at[n + 1], rows[n + 1], c)
               /\ at[n + 2] = c[5] + 3 /\ c[5] + 2 <= Len(file) /\ rows[n + 1] \in Row
  BY <1>1, <1>2, <1>6, ReaderPlace
<1>8. ParsedRow(p).row = rows[n + 1] /\ ParsedRow(p).p = c[5] + 3
  BY <1>1, <1>2, <1>5, <1>7, RowParsed
<1>10. p' = at[n + 2]
  BY <1>4, <1>7, <1>8
<1>11. Reader(data_mmap)' /\ Len(data_mmap') = n + 1
  <2>1. data_mmap' = Append(data_mmap, rows[Len(data_mmap) + 1])
    BY <1>2, <1>4, <1>8
  <2>2. Reader(data_mmap') /\ Len(data_mmap') = n + 1
    BY <1>2, <1>5, <1>6, <2>1, ReaderGrows DEF ReadersInv
  <2> QED
    BY <1>3, <2>2 DEF Reader
<1>12. Reader(data_ifstream)'
  BY <1>3 DEF Reader, ReadersInv
<1>13. Layout(file', rows', at) /\ p' = at[Len(data_mmap') + 1] /\ stage' = "parse"
  <2>1. n + 1 + 1 = n + 2
    OBVIOUS
  <2> QED
    BY <1>1, <1>3, <1>10, <1>11, <2>1
<1> QED
  BY <1>3, <1>11, <1>12, <1>13 DEF ReadersInv

\* The other steps move no row.
LEMMA ReadersKept == ASSUME ReadersInv, WrapperInv, [CsvNext]_csvVars PROVE ReadersInv'
<1>1. CASE UNCHANGED <<csv_price, rows, file, data_ifstream, data_mmap>>
  <2>1. PICK at : /\ Layout(file, rows, at)
                  /\ stage = "getline" => p = at[Len(data_ifstream) + 1]
                  /\ stage = "parse" => p = at[Len(data_mmap) + 1]
    BY DEF ReadersInv
  <2>2. Reader(data_ifstream)' /\ Reader(data_mmap)' /\ csv_price' \in Int
    BY <1>1 DEF ReadersInv, Reader
  <2>3. Layout(file', rows', at)
    BY <1>1, <2>1
  <2>4. First("newline", 1) + 1 = 3 /\ at[1] = 3
    BY <2>1, HeaderEnds DEF Layout
  <2>5. CASE DivideByZero \/ Generated
    <3>1. /\ stage = "generate" /\ stage' \in {"killed", "ifstream"} /\ UNCHANGED p
      BY <2>5 DEF DivideByZero, Generated
    <3> QED
      BY <1>1, <2>2, <2>3, <3>1 DEF ReadersInv
  <2>6. CASE OpenStream
    <3>1. /\ stage = "ifstream"
          /\ \/ stage' = "getline" /\ p' = First("newline", 1) + 1
             \/ stage' = "map" /\ p' = p
      BY <2>6 DEF OpenStream
    <3>2. p = 1 /\ Len(data_ifstream) = 0 /\ Len(data_mmap) = 0
      BY <3>1 DEF ReadersInv
    <3>3. Len(data_ifstream') = 0 /\ Len(data_mmap') = 0 /\ p = 1
      BY <1>1, <3>2
    <3>4. CASE stage' = "map" /\ p' = p
      BY <1>1, <2>2, <2>3, <3>3, <3>4 DEF ReadersInv
    <3>5. CASE stage' = "getline" /\ p' = First("newline", 1) + 1
      <4>1. p' = at[Len(data_ifstream') + 1]
        BY <2>4, <3>3, <3>5
      <4> QED
        BY <2>2, <2>3, <3>3, <3>5, <4>1 DEF ReadersInv
    <3> QED
      BY <3>1, <3>4, <3>5
  <2>7. CASE StreamEnds
    <3>1. stage = "getline" /\ p > Len(file) /\ stage' = "map" /\ p' = p
      BY <2>7 DEF StreamEnds
    <3>2. Len(data_ifstream) = Len(rows)
      <4>1. Len(data_ifstream) \in Nat /\ Len(data_ifstream) <= Len(rows)
        BY DEF ReadersInv, Reader
      <4> QED
        BY <2>1, <3>1, <4>1, ReaderPlace
    <3>3. Len(data_mmap) = 0
      BY <3>1 DEF ReadersInv
    <3> QED
      BY <1>1, <2>2, <2>3, <3>1, <3>2, <3>3 DEF ReadersInv
  <2>8. CASE OpenFile
    <3>1. stage = "map" /\ stage' \in {"stat", "unmap"} /\ mapped' = mapped /\ mapped = FALSE
      BY <2>8 DEF OpenFile, WrapperInv, Unopened
    <3>2. Len(data_mmap) = 0
      BY <3>1 DEF ReadersInv
    <3> QED
      BY <1>1, <2>2, <2>3, <3>1, <3>2 DEF ReadersInv
  <2>9. CASE Stat
    <3>1. stage = "stat" /\ stage' \in {"mmap", "unmap"} /\ mapped' = mapped /\ mapped = FALSE
      BY <2>9 DEF Stat, WrapperInv, Unopened, wrapper
    <3>2. Len(data_mmap) = 0
      BY <3>1 DEF ReadersInv
    <3> QED
      BY <1>1, <2>2, <2>3, <3>1, <3>2 DEF ReadersInv
  <2>10. CASE Map
    <3>1. /\ stage = "mmap" /\ mapped = FALSE
          /\ \/ stage' = "parse" /\ p' = First("newline", 1) + 1
             \/ stage' = "unmap" /\ mapped' = mapped
      BY <2>10 DEF Map, WrapperInv
    <3>2. Len(data_mmap) = 0
      BY <3>1 DEF ReadersInv
    <3>3. stage' = "parse" => p' = at[Len(data_mmap') + 1]
      BY <1>1, <2>4, <3>1, <3>2
    <3> QED
      BY <1>1, <2>2, <2>3, <3>1, <3>2, <3>3 DEF ReadersInv
  <2>11. CASE ParseEnds
    <3>1. stage = "parse" /\ p > Len(file) /\ stage' = "unmap"
      BY <2>11 DEF ParseEnds
    <3>2. Len(data_mmap) = Len(rows)
      <4>1. Len(data_mmap) \in Nat /\ Len(data_mmap) <= Len(rows)
        BY DEF ReadersInv, Reader
      <4> QED
        BY <2>1, <3>1, <4>1, ReaderPlace
    <3> QED
      BY <1>1, <2>2, <2>3, <3>1, <3>2 DEF ReadersInv
  <2>12. CASE Unmap
    <3>1. stage' = "done"
      BY <2>12 DEF Unmap
    <3> QED
      BY <1>1, <2>2, <2>3, <3>1 DEF ReadersInv
  <2>13. CASE UNCHANGED csvVars
    <3>1. UNCHANGED <<stage, p, mapped>>
      BY <2>13 DEF csvVars
    <3> QED
      BY <1>1, <2>1, <2>2, <2>3, <3>1 DEF ReadersInv
  <2>14. CASE GenerateRow \/ GetLine \/ ParseRow
    BY <2>14, RowDrawn, LineRead, RowRead
  <2> QED
    BY <2>5, <2>6, <2>7, <2>8, <2>9, <2>10, <2>11, <2>12, <2>13, <2>14 DEF CsvNext, Stopped
<1>2. CASE ~ UNCHANGED <<csv_price, rows, file, data_ifstream, data_mmap>>
  <2>1. GenerateRow \/ GetLine \/ ParseRow
    <3>1. DivideByZero \/ Generated \/ OpenStream \/ StreamEnds \/ OpenFile \/ Stat \/ Map \/ ParseEnds \/ Unmap
            => UNCHANGED <<csv_price, rows, file, data_ifstream, data_mmap>>
      BY DEF DivideByZero, Generated, OpenStream, StreamEnds, OpenFile, Stat, Map, ParseEnds, Unmap,
             written, parsed
    <3>2. UNCHANGED csvVars => UNCHANGED <<csv_price, rows, file, data_ifstream, data_mmap>>
      BY DEF csvVars
    <3> QED
      BY <1>2, <3>1, <3>2 DEF CsvNext, Stopped
  <2> QED
    BY <2>1, RowDrawn, LineRead, RowRead
<1> QED
  BY <1>1, <1>2

\* The rows from the first on are a prefix.
LEMMA ReaderHas ==
  ASSUME NEW data, Reader(data), rows \in Seq(Row)
  PROVE  /\ data = SubSeq(rows, 1, Len(data))
         /\ Len(data) = Len(rows) => data = rows
<1>1. PICK N \in Nat, L \in Nat : N = Len(data) /\ L = Len(rows) /\ N <= L
  BY DEF Reader
<1>2. data \in Seq(Row) /\ \A i \in 1 .. N : data[i] = rows[i]
  BY <1>1 DEF Reader
<1>3. data = SubSeq(rows, 1, N)
  <2>1. PICK s : s = SubSeq(rows, 1, N)
    OBVIOUS
  <2>2. \A i \in 1 .. N : rows[i] \in Row
    BY <1>1
  <2>3. s \in Seq(Row) /\ Len(s) = N /\ \A i \in 1 .. N : s[i] = rows[i]
    BY <1>1, <2>1, <2>2, SubSeqProperties
  <2>4. data = s
    BY <1>1, <1>2, <2>3, SeqEqual
  <2> QED
    BY <2>1, <2>4
<1>4. N = L => data = rows
  BY <1>1, <1>2, SeqEqual
<1> QED
  BY <1>1, <1>3, <1>4

\* benchmark_ifstream and benchmark_mmap: both readers recover exactly the rows that
\* generate_test_file drew.
THEOREM BothReadersAgree == CsvSpec => []ParsersAgree
<1>1. CsvInit => ReadersInv /\ WrapperInv
  BY ReadersStart DEF CsvInit, WrapperInv, Unopened, Opened
<1>2. ReadersInv /\ WrapperInv /\ [CsvNext]_csvVars => (ReadersInv /\ WrapperInv)'
  BY ReadersKept, WrapperKept
<1>3. ReadersInv => ParsersAgree
  <2> SUFFICES ASSUME ReadersInv PROVE ParsersAgree
    OBVIOUS
  <2>1. Reader(data_ifstream) /\ Reader(data_mmap) /\ rows \in Seq(Row)
    BY DEF ReadersInv, Layout
  <2>2. /\ data_ifstream = SubSeq(rows, 1, Len(data_ifstream))
        /\ data_mmap = SubSeq(rows, 1, Len(data_mmap))
        /\ Len(data_ifstream) = Len(rows) => data_ifstream = rows
        /\ Len(data_mmap) = Len(rows) => data_mmap = rows
    BY <2>1, ReaderHas
  <2>3. stage = "map" /\ p > 1 => Len(data_ifstream) = Len(rows)
    BY DEF ReadersInv
  <2>4. stage = "unmap" /\ mapped => Len(data_mmap) = Len(rows)
    BY DEF ReadersInv
  <2> QED
    BY <2>2, <2>3, <2>4, Zenon DEF ParsersAgree
<1> QED
  BY <1>1, <1>2, <1>3, PTL DEF CsvSpec

-----------------------------------------------------------------------------
(* MessageSlab                                                             *)

\* What the overlays have left of each word: the message in slot j is its timestamp,
\* except that the newest is whole; the links not yet followed are those of the constructor.
WordsLeft ==
    /\ word = [w \in 0 .. 2 * SLAB_COUNT - 1 |-> word[w]]
    /\ \A j \in 0 .. Len(slab) - 1 : word[j] = Timestamp(j)
    /\ Len(slab) > 0 => /\ word[Len(slab)] = Info(Len(slab) - 1)
                        /\ word[Len(slab) + 1] = Payload(Len(slab) - 1)
    /\ \A s \in Len(slab) .. SLAB_COUNT - 1 : word[SLAB_COUNT + s] = Link(s + 1)

\* Both checksums are sums over the first packets of the traffic.
Weight == [k \in SlabPackets |-> traffic[k].type * traffic[k].len]
Summed == \E v : /\ SumsOf(v, Weight, SLAB_COUNT)
                 /\ ck_t = v[Len(heap)] /\ ck_z = v[Len(slab)]

\* The inductive invariant.
SlabInv ==
    /\ heap \in Seq([ts : SlabPackets, info : {traffic[k] : k \in SlabPackets}, data : SlabPackets])
    /\ slab \in Seq(Slots) /\ Len(heap) <= SLAB_COUNT /\ Len(slab) <= SLAB_COUNT
    /\ slab_head = Len(slab)
    /\ \A j \in 1 .. Len(slab) : slab[j] = j - 1
    /\ slab # <<>> => Len(heap) = SLAB_COUNT
    /\ WordsLeft /\ Summed

\* The constructor's links run through the slots in order.
LEMMA SlabStarts == ASSUME SlabInit PROVE SlabInv
<1>1. SLAB_COUNT \in Nat /\ SLAB_COUNT >= 2 /\ heap = <<>> /\ slab = <<>> /\ slab_head = 0
      /\ ck_t = 0 /\ ck_z = 0
  BY SlabAssumption DEF SlabInit
<1>2. PICK v : SumsOf(v, Weight, SLAB_COUNT)
  BY <1>1, SumsExist
<1>3. v[0] = 0
  BY <1>1, <1>2, SumsStep
<1>4. Summed
  BY <1>1, <1>2, <1>3 DEF Summed
<1>5. WordsLeft
  <2>0. word = [w \in 0 .. 2 * SLAB_COUNT - 1 |->
                   IF w \in 0 .. SLAB_COUNT - 1 THEN Unwritten ELSE Link(NextLink(w - SLAB_COUNT))]
    BY Zenon DEF SlabInit, Slots
  <2>1. \A s \in 0 .. SLAB_COUNT - 1 : word[SLAB_COUNT + s] = Link(s + 1)
    <3> TAKE s \in 0 .. SLAB_COUNT - 1
    <3>1. /\ SLAB_COUNT + s \in 0 .. 2 * SLAB_COUNT - 1 /\ SLAB_COUNT + s \notin 0 .. SLAB_COUNT - 1
          /\ SLAB_COUNT + s - SLAB_COUNT = s
      BY <1>1
    <3> QED
      <4>1. PICK x : x = SLAB_COUNT + s
        OBVIOUS
      <4>2. word[x] = Link(NextLink(x - SLAB_COUNT))
        BY <2>0, <3>1, <4>1, Zenon
      <4>3. x - SLAB_COUNT = s /\ NextLink(s) = s + 1
        BY <1>1, <4>1 DEF NextLink
      <4> QED
        BY <4>1, <4>2, <4>3, Zenon
  <2>2. \A s \in Len(slab) .. SLAB_COUNT - 1 : word[SLAB_COUNT + s] = Link(s + 1)
    BY <1>1, <2>1
  <2> QED
    BY <1>1, <2>0, <2>2 DEF WordsLeft
<1> QED
  BY <1>1, <1>4, <1>5 DEF SlabInv

\* The packets are parsed onto the heap.
LEMMA TraditionalKept == ASSUME SlabInv, ParseTraditional PROVE SlabInv'
<1>1. PICK k \in Nat : k = Len(heap)
  BY DEF SlabInv
<1>2. /\ k < SLAB_COUNT /\ k \in SlabPackets
      /\ heap' = Append(heap, [ts |-> k, info |-> traffic[k], data |-> k])
      /\ ck_t' = ck_t + traffic[k].type * traffic[k].len
      /\ UNCHANGED <<traffic, word, slab_head, slab, ck_z>>
  BY <1>1, SlabAssumption DEF ParseTraditional, SlabPackets
<1>3. /\ heap' \in Seq([ts : SlabPackets, info : {traffic[i] : i \in SlabPackets}, data : SlabPackets])
      /\ Len(heap') = k + 1
  BY <1>1, <1>2 DEF SlabInv
<1>4. slab = <<>>
  BY <1>1, <1>2 DEF SlabInv
<1>5. Summed'
  <2>1. PICK v : /\ SumsOf(v, Weight, SLAB_COUNT)
                 /\ ck_t = v[Len(heap)] /\ ck_z = v[Len(slab)]
    BY DEF SlabInv, Summed
  <2>2. v[k + 1] = v[k] + Weight[k]
    BY <1>2, <2>1, SlabAssumption, SumsStep DEF SlabPackets
  <2>3. ck_t' = v[Len(heap')] /\ ck_z' = v[Len(slab')] /\ Weight' = Weight
    BY <1>1, <1>2, <1>3, <2>1, <2>2 DEF Weight
  <2> QED
    BY <2>1, <2>3 DEF Summed
<1>6. WordsLeft'
  BY <1>2 DEF SlabInv, WordsLeft, Timestamp, Info, Payload, Link
<1> QED
  BY <1>1, <1>2, <1>3, <1>4, <1>5, <1>6, SlabAssumption DEF SlabInv

\* What three assignments to different words leave.
LEMMA ThreeWords ==
  ASSUME NEW D, NEW f, f = [w \in D |-> f[w]], NEW a \in D, NEW b \in D, NEW c \in D,
         a # b, a # c, b # c, NEW x, NEW y, NEW z,
         NEW g, g = [f EXCEPT ![a] = x, ![b] = y, ![c] = z]
  PROVE  /\ g = [w \in D |-> g[w]] /\ g[a] = x /\ g[b] = y /\ g[c] = z
         /\ \A w \in D : w \notin {a, b, c} => g[w] = f[w]
  OBVIOUS

\* The message laid over slot k covers slots k + 1 and k + 2, which hold no link
\* that is still to be followed.
LEMMA ZeroCopyKept == ASSUME SlabInv, ParseZeroCopy PROVE SlabInv'
<1>1. PICK k \in Nat : k = Len(slab)
  BY DEF SlabInv
<1>2. /\ k < SLAB_COUNT /\ slab_head = k /\ SLAB_COUNT \in Nat /\ SLAB_COUNT >= 2
      /\ k \in SlabPackets /\ k \in Slots
      /\ word' = [word EXCEPT ![k] = Timestamp(k), ![k + 1] = Info(k), ![k + 2] = Payload(k)]
      /\ slab' = Append(slab, k)
      /\ ck_z' = ck_z + word'[k + 1].of.type * word'[k + 1].of.len
      /\ slab_head' = word[SLAB_COUNT + k].of
      /\ UNCHANGED <<traffic, heap, ck_t>> /\ Len(heap) = SLAB_COUNT
  BY <1>1, SlabAssumption DEF ParseZeroCopy, AllocateSlot, SlabInv, SlabPackets, Slots
<1>3. slab_head' = k + 1
  <2>1. word[SLAB_COUNT + k] = Link(k + 1)
    <3>1. \A s \in Len(slab) .. SLAB_COUNT - 1 : word[SLAB_COUNT + s] = Link(s + 1)
      BY Zenon DEF SlabInv, WordsLeft
    <3>2. k \in Len(slab) .. SLAB_COUNT - 1
      BY <1>1, <1>2
    <3> QED
      BY <3>1, <3>2
  <2>2. Link(k + 1).of = k + 1
    BY DEF Link
  <2> QED
    BY <1>2, <2>1, <2>2
<1>4. /\ word' = [w \in 0 .. 2 * SLAB_COUNT - 1 |-> word'[w]]
      /\ word'[k] = Timestamp(k) /\ word'[k + 1] = Info(k) /\ word'[k + 2] = Payload(k)
      /\ \A w \in 0 .. 2 * SLAB_COUNT - 1 : w \notin {k, k + 1, k + 2} => word'[w] = word[w]
  <2>1. {k, k + 1, k + 2} \subseteq 0 .. 2 * SLAB_COUNT - 1
    BY <1>2
  <2>2. PICK D : D = 0 .. 2 * SLAB_COUNT - 1
    OBVIOUS
  <2>3. word = [w \in D |-> word[w]]
    BY <2>2 DEF SlabInv, WordsLeft
  <2>4. k \in D /\ k + 1 \in D /\ k + 2 \in D /\ k # k + 1 /\ k # k + 2 /\ k + 1 # k + 2
    BY <2>1, <2>2
  <2>5. word' = [word EXCEPT ![k] = Timestamp(k), ![k + 1] = Info(k), ![k + 2] = Payload(k)]
    BY <1>2
  <2> QED
    BY <2>2, <2>3, <2>4, <2>5, ThreeWords, Zenon
<1>5. /\ slab' \in Seq(Slots) /\ Len(slab') = k + 1
      /\ \A j \in 1 .. k + 1 : slab'[j] = j - 1
  BY <1>1, <1>2 DEF SlabInv
<1>6. WordsLeft'
  <2>1. \A j \in 0 .. k : word'[j] = Timestamp(j)
    <3> TAKE j \in 0 .. k
    <3>1. j # k => j \in 0 .. 2 * SLAB_COUNT - 1 /\ j \notin {k, k + 1, k + 2} /\ j \in 0 .. Len(slab) - 1
      BY <1>1, <1>2
    <3> QED
      BY <1>4, <3>1 DEF SlabInv, WordsLeft
  <2>2. \A s \in k + 1 .. SLAB_COUNT - 1 : word'[SLAB_COUNT + s] = Link(s + 1)
    <3> TAKE s \in k + 1 .. SLAB_COUNT - 1
    <3>1. /\ SLAB_COUNT + s \in 0 .. 2 * SLAB_COUNT - 1 /\ SLAB_COUNT + s \notin {k, k + 1, k + 2}
          /\ s \in Len(slab) .. SLAB_COUNT - 1
      BY <1>1, <1>2
    <3> QED
      BY <1>4, <3>1 DEF SlabInv, WordsLeft
  <2>3. Len(slab') - 1 = k /\ Len(slab') + 1 = k + 2 /\ Len(slab') = k + 1
    BY <1>5
  <2>4. /\ \A j \in 0 .. k : (word[j] = Timestamp(j))'
        /\ \A t \in k + 1 .. SLAB_COUNT - 1 : (word[SLAB_COUNT + t] = Link(t + 1))'
    BY <2>1, <2>2 DEF Timestamp, Link
  <2>5. (word[k + 1] = Info(k))' /\ (word[k + 2] = Payload(k))'
    BY <1>2, <1>4 DEF Info, Payload
  <2> QED
    BY <1>4, <2>3, <2>4, <2>5, Zenon DEF WordsLeft
<1>7. Summed'
  <2>1. PICK v : /\ SumsOf(v, Weight, SLAB_COUNT)
                 /\ ck_t = v[Len(heap)] /\ ck_z = v[Len(slab)]
    BY DEF SlabInv, Summed
  <2>2. v[k + 1] = v[k] + Weight[k]
    BY <1>2, <2>1, SumsStep DEF SlabPackets
  <2>3. ck_z' = ck_z + Weight[k]
    <3>1. Info(k).of = traffic[k] /\ Weight[k] = traffic[k].type * traffic[k].len
      BY <1>2 DEF Info, Weight
    <3> QED
      BY <1>2, <1>4, <3>1, Zenon
  <2>4. ck_t' = v[Len(heap')] /\ ck_z' = v[Len(slab')] /\ Weight' = Weight
    BY <1>1, <1>2, <1>5, <2>1, <2>2, <2>3 DEF Weight
  <2> QED
    BY <2>1, <2>4 DEF Summed
<1> QED
  BY <1>1, <1>2, <1>3, <1>5, <1>6, <1>7 DEF SlabInv

\* parse_zerocopy: messages overwrite their predecessors' length and pointer and yet the
\* slots come in order, every timestamp survives and the checksums agree.
THEOREM SlabKeepsTimestamps == SlabSpec => []SlabReadsBack
<1>1. SlabInit => SlabInv
  BY SlabStarts
<1>2. SlabInv /\ [SlabNext]_slabVars => SlabInv'
  <2> SUFFICES ASSUME SlabInv, [SlabNext]_slabVars PROVE SlabInv'
    OBVIOUS
  <2>1. CASE UNCHANGED slabVars
    <3>1. UNCHANGED <<traffic, word, slab_head, heap, slab, ck_t, ck_z>>
      BY <2>1 DEF slabVars
    <3>2. WordsLeft'
      BY <3>1 DEF SlabInv, WordsLeft, Timestamp, Info, Payload, Link
    <3>3. Weight' = Weight
      BY <3>1 DEF Weight
    <3>4. Summed'
      BY <3>1, <3>3, Zenon DEF SlabInv, Summed
    <3> QED
      BY <3>1, <3>2, <3>4, Zenon DEF SlabInv
  <2> QED
    BY <2>1, TraditionalKept, ZeroCopyKept DEF SlabNext, Compared
<1>3. SlabInv => SlabReadsBack
  <2> SUFFICES ASSUME SlabInv PROVE SlabReadsBack
    OBVIOUS
  <2>1. PICK k \in Nat : k = Len(slab)
    BY DEF SlabInv
  <2>2. \A j \in 1 .. k : slab[j] = j - 1 /\ j - 1 \in 0 .. k - 1
    BY <2>1 DEF SlabInv
  <2>3. k > 0 => word[k - 1 + 1] = Info(k - 1) /\ word[k - 1 + 2] = Payload(k - 1)
    <3>1. k - 1 + 1 = k /\ k - 1 + 2 = k + 1
      OBVIOUS
    <3> QED
      BY <2>1, <3>1 DEF SlabInv, WordsLeft
  <2>4. slab # <<>> => k > 0
    BY <2>1 DEF SlabInv
  <2>5. k = SLAB_COUNT => ck_t = ck_z
    <3>1. k = SLAB_COUNT => Len(heap) = k
      <4>1. slab # <<>> => Len(heap) = SLAB_COUNT
        BY DEF SlabInv
      <4>2. slab = <<>> => k = 0
        BY <2>1
      <4> QED
        BY <4>1, <4>2, SlabAssumption
    <3> QED
      BY <2>1, <3>1 DEF SlabInv, Summed
  <2> QED
    BY <2>1, <2>2, <2>3, <2>4, <2>5 DEF SlabReadsBack, SlabInv, WordsLeft
<1> QED
  BY <1>1, <1>2, <1>3, PTL DEF SlabSpec

-----------------------------------------------------------------------------
(* AlphaGenerator                                                          *)

\* Inequalities on squares of integers.
LEMMA SquaresAreNat == ASSUME NEW a \in Int PROVE a * a \in Nat
<1>1. CASE a >= 0
  BY <1>1
<1>2. CASE a < 0
  <2>1. PICK b \in Nat : b = 0 - a
    BY <1>2
  <2>2. a * a = b * b /\ b * b \in Nat
    BY <2>1
  <2> QED
    BY <2>2
<1> QED
  BY <1>1, <1>2

\* The sum of squares is at least the mean times the sum: one more value keeps it so.
LEMMA CauchyStep ==
  ASSUME NEW m \in Nat, NEW s \in Int, NEW q \in Int, NEW y \in Int,
         m * q >= s * s, m = 0 => q = 0 /\ s = 0
  PROVE  (m + 1) * (q + y * y) >= (s + y) * (s + y)
<1>1. CASE m = 0
  BY <1>1
<1>2. CASE m > 0
  <2> DEFINE d == m * q - s * s
             e == (m + 1) * (q + y * y) - (s + y) * (s + y)
  <2>1. d \in Nat /\ e \in Int
    OBVIOUS
  <2>2. m * e = (m * y - s) * (m * y - s) + (m + 1) * d
    <3>1. e = m * q + m * (y * y) + q - s * s - 2 * (s * y)
      OBVIOUS
    <3>2. m * e = m * (m * q) + m * (m * (y * y)) + m * q - m * (s * s) - 2 * (m * (s * y))
      BY <3>1
    <3>3. (m * y - s) * (m * y - s) = m * (m * (y * y)) - 2 * (m * (s * y)) + s * s
      OBVIOUS
    <3>4. (m + 1) * d = m * (m * q) - m * (s * s) + m * q - s * s
      OBVIOUS
    <3> QED
      BY <3>2, <3>3, <3>4
  <2>3. (m * y - s) * (m * y - s) \in Nat /\ (m + 1) * d \in Nat
    <3>1. PICK a \in Int : a = m * y - s
      OBVIOUS
    <3> QED
      BY <2>1, <3>1, SquaresAreNat
  <2>4. m * e >= 0
    BY <2>1, <2>2, <2>3
  <2> HIDE DEF d, e
  <2>5. e >= 0
    BY <1>2, <2>1, <2>4
  <2> QED
    BY <2>5 DEF e
<1> QED
  BY <1>1, <1>2

\* Cauchy: the square of a sum of n integers is at most n times the sum of their squares.
LEMMA CauchySums ==
  ASSUME NEW N \in Nat, NEW f, \A k \in 0 .. N - 1 : f[k] \in Int,
         NEW v, SumsOf(v, f, N), NEW h, \A k \in 0 .. N - 1 : h[k] = f[k] * f[k],
         NEW u, SumsOf(u, h, N)
  PROVE  \A n \in 0 .. N : v[n] \in Int /\ u[n] \in Int /\ n * u[n] >= v[n] * v[n]
<1> DEFINE T == {n \in Nat : n <= N => /\ v[n] \in Int /\ u[n] \in Int
                                       /\ n * u[n] >= v[n] * v[n]
                                       /\ n = 0 => u[n] = 0 /\ v[n] = 0}
<1>1. 0 \in T
  <2>1. v[0] = 0 /\ u[0] = 0
    BY SumsStep
  <2> QED
    BY <2>1
<1>2. ASSUME NEW n \in Nat, n \in T PROVE n + 1 \in T
  <2>1. CASE n + 1 <= N
    <3>1. PICK y \in Int : y = f[n]
      BY <2>1
    <3>2. PICK s \in Int : s = v[n]
      BY <1>2, <2>1
    <3>3. PICK q \in Int : q = u[n]
      BY <1>2, <2>1
    <3>4. n * q >= s * s /\ (n = 0 => q = 0 /\ s = 0)
      BY <1>2, <2>1, <3>2, <3>3
    <3>5. n \in 0 .. N - 1
      BY <2>1
    <3>6. v[n + 1] = s + y
      BY <3>1, <3>2, <3>5, SumsStep
    <3>7. u[n + 1] = q + y * y
      BY <3>1, <3>3, <3>5, SumsStep
    <3>8. (n + 1) * (q + y * y) >= (s + y) * (s + y)
      BY <3>4, CauchyStep
    <3>9. s + y \in Int /\ q + y * y \in Int
      OBVIOUS
    <3> QED
      BY <3>6, <3>7, <3>8, <3>9
  <2> QED
    BY <2>1
<1>3. Nat \subseteq T
  BY <1>1, <1>2, AllNaturals
<1> QED
  BY <1>3

\* Samuelson: one of n values deviates from their mean by at most sqrt(n - 1) standard
\* deviations, all of it multiplied by n.
LEMMA SamuelsonStep ==
  ASSUME NEW m \in Nat, NEW s \in Int, NEW q \in Int, NEW x \in Int, m * q >= s * s,
         NEW D \in Int, D = (m + 1) * x - (x + s),
         NEW V \in Int, V = (m + 1) * (x * x + q) - (x + s) * (x + s)
  PROVE  D * D <= m * V
<1> DEFINE d == m * q - s * s
<1>1. d \in Nat /\ (m + 1) * d \in Nat
  OBVIOUS
<1>2. D = m * x - s
  OBVIOUS
<1>3. D * D = m * (m * (x * x)) - 2 * (m * (x * s)) + s * s
  BY <1>2
<1>4. V = m * (x * x) + m * q + q - 2 * (x * s) - s * s
  OBVIOUS
<1>5. m * V = m * (m * (x * x)) + m * (m * q) + m * q - 2 * (m * (x * s)) - m * (s * s)
  BY <1>4
<1>6. (m + 1) * d = m * (m * q) + m * q - m * (s * s) - s * s
  OBVIOUS
<1>7. m * V = D * D + (m + 1) * d
  BY <1>3, <1>5, <1>6
<1>8. D * D \in Int /\ m * V \in Int
  OBVIOUS
<1> HIDE DEF d
<1> QED
  BY <1>1, <1>7, <1>8

\* More deviations than the band allows take more values than its square.
LEMMA BandNeeds ==
  ASSUME NEW m \in Nat, NEW b \in Nat, NEW V \in Int, NEW D \in Int,
         V > 0, D > b * V, D <= m * V
  PROVE  m > b
<1> SUFFICES ASSUME b >= m PROVE FALSE
  OBVIOUS
<1>1. PICK e \in Nat : e = b - m
  OBVIOUS
<1>2. e * V \in Nat /\ b * V = m * V + e * V /\ m * V \in Int
  BY <1>1
<1> QED
  BY <1>2

\* The newest before that is k + 1 back, and the ring holds the last ones by their number.
Window(k) == buffer[(Len(ticks) - 1 - k) % WINDOW]

\* The inductive invariant.
AlphaInv ==
    /\ ticks \in Seq(Prices)
    /\ buffer = [k \in 0 .. WINDOW - 1 |-> buffer[k]]
    /\ head = Len(ticks) % WINDOW
    /\ \A k \in 0 .. count - 1 : Window(k) = Latest(k)
    /\ WindowExact /\ NoSignalBeforeBandFits

\* A lap back is the same slot.
LEMMA LapBack ==
  ASSUME NEW C \in Nat \ {0}, NEW a \in Int
  PROVE  (a - C) % C = a % C
<1>1. a = C * (a \div C) + (a % C) /\ a % C \in 0 .. C - 1 /\ a \div C \in Int
  BY DivisionWithRemainder
<1>2. a - C = C * (a \div C - 1) + (a % C)
  <2>1. C * (a \div C - 1) = C * (a \div C) - C /\ C * (a \div C) \in Int
    BY <1>1
  <2> QED
    BY <1>1, <2>1
<1>3. PICK b \in Int : b = a - C
  OBVIOUS
<1>4. PICK q \in Int : q = a \div C - 1
  BY <1>1
<1>5. b % C = a % C
  BY <1>1, <1>2, <1>3, <1>4, RemainderUnique
<1> QED
  BY <1>3, <1>5

\* The slot after a number's is that of the next number.
LEMMA SlotAfter ==
  ASSUME NEW C \in Nat \ {0}, NEW a \in Int
  PROVE  ((a % C) + 1) % C = (a + 1) % C
<1>1. PICK q \in Int, r \in 0 .. C - 1 : a = C * q + r /\ a % C = r
  BY DivisionWithRemainder
<1>2. C * q \in Int /\ C * (q + 1) = C * q + C
  OBVIOUS
<1>3. CASE r + 1 < C
  <2>1. (a + 1) % C = r + 1
    <3>1. PICK b \in Int : b = a + 1
      OBVIOUS
    <3>2. PICK t \in 0 .. C - 1 : t = r + 1
      BY <1>3
    <3>3. b = C * q + t
      BY <1>1, <1>2, <3>1, <3>2
    <3> QED
      BY <3>1, <3>2, <3>3, RemainderUnique
  <2>2. (r + 1) % C = r + 1
    BY <1>3
  <2> QED
    BY <1>1, <2>1, <2>2
<1>4. CASE r + 1 = C
  <2>1. (a + 1) % C = 0
    <3>1. PICK b \in Int : b = a + 1
      OBVIOUS
    <3>2. PICK t \in Int : t = q + 1
      OBVIOUS
    <3>3. b = C * t + 0 /\ 0 \in 0 .. C - 1
      BY <1>1, <1>2, <1>4, <3>1, <3>2
    <3> QED
      BY <3>1, <3>3, RemainderUnique
  <2>2. (r + 1) % C = 0
    <3>1. 0 \in 0 .. C - 1 /\ r + 1 = C * 1 + 0
      BY <1>4
    <3> QED
      BY <3>1, RemainderUnique
  <2> QED
    BY <1>1, <2>1, <2>2
<1> QED
  BY <1>3, <1>4

\* What process does to the numbers of the window.
LEMMA WindowMoves ==
  ASSUME AlphaInv, NEW newest \in Prices, NEW volume, Process(newest, volume),
         NEW n \in Nat, n = Len(ticks), NEW c \in Nat, c = count, NEW d \in Nat, d = count'
  PROVE  /\ d > 0 /\ d <= WINDOW /\ c <= n /\ c <= WINDOW
         /\ d = IF c = WINDOW THEN c ELSE c + 1
         /\ ticks' \in Seq(Prices) /\ Len(ticks') = n + 1
         /\ d = IF n + 1 <= WINDOW THEN n + 1 ELSE WINDOW
         /\ Latest(0)' = newest /\ \A k \in 0 .. n - 1 : Latest(k + 1)' = Latest(k)
         /\ \A k \in 0 .. n - 1 : Latest(k) \in Int
         /\ Evicted = IF c = WINDOW THEN Latest(c - 1) ELSE 0
         /\ head' = (n + 1) % WINDOW /\ buffer' = [k \in 0 .. WINDOW - 1 |-> buffer'[k]]
         /\ \A k \in 0 .. d - 1 : Window(k)' = Latest(k)'
<1>1. /\ count' = IF count = WINDOW THEN count ELSE count + 1
      /\ buffer' = [buffer EXCEPT ![head] = newest]
      /\ head' = (head + 1) % WINDOW /\ ticks' = Append(ticks, newest)
  BY DEF Process, UpdateWindow
<1>2. /\ ticks \in Seq(Prices) /\ head = n % WINDOW /\ WINDOW \in Nat \ {0} /\ Prices \subseteq Int
      /\ c = IF n <= WINDOW THEN n ELSE WINDOW
      /\ buffer = [k \in 0 .. WINDOW - 1 |-> buffer[k]]
      /\ \A k \in 0 .. c - 1 : buffer[(n - 1 - k) % WINDOW] = Latest(k)
  BY WindowAssumption DEF AlphaInv, WindowExact, Window
<1>3. /\ d > 0 /\ d <= WINDOW /\ c <= n /\ c <= WINDOW
      /\ d = IF c = WINDOW THEN c ELSE c + 1
      /\ d = IF n + 1 <= WINDOW THEN n + 1 ELSE WINDOW
  BY <1>1, <1>2
<1>4. /\ ticks' \in Seq(Prices) /\ Len(ticks') = n + 1 /\ ticks'[n + 1] = newest
      /\ \A j \in 1 .. n : ticks'[j] = ticks[j] /\ ticks[j] \in Int
  BY <1>1, <1>2
<1>5. Latest(0)' = newest
  <2>1. n + 1 - 0 = n + 1
    OBVIOUS
  <2> QED
    BY <1>4, <2>1 DEF Latest
<1>6. \A k \in 0 .. n - 1 : Latest(k + 1)' = Latest(k) /\ Latest(k) \in Int
  <2> TAKE k \in 0 .. n - 1
  <2>1. n - k \in 1 .. n /\ n + 1 - (k + 1) = n - k
    OBVIOUS
  <2> QED
    BY <1>4, <2>1 DEF Latest
<1>7. Evicted = IF c = WINDOW THEN Latest(c - 1) ELSE 0
  <2>1. CASE c = WINDOW
    <3>1. c - 1 \in 0 .. c - 1 /\ n - 1 - (c - 1) = n - WINDOW
      BY <1>2, <2>1, SMTT(30)
    <3>2. buffer[(n - WINDOW) % WINDOW] = Latest(c - 1)
      BY <1>2, <3>1
    <3>3. (n - WINDOW) % WINDOW = head
      BY <1>2, LapBack
    <3> QED
      BY <2>1, <3>2, <3>3 DEF Evicted
  <2> QED
    BY <2>1 DEF Evicted
<1>8. head' = (n + 1) % WINDOW
  BY <1>1, <1>2, SlotAfter
<1>9. head \in 0 .. WINDOW - 1
  BY <1>2, DivisionWithRemainder
<1>10. /\ buffer' = [k \in 0 .. WINDOW - 1 |-> buffer'[k]] /\ buffer'[head] = newest
       /\ \A s \in 0 .. WINDOW - 1 : s # head => buffer'[s] = buffer[s]
  BY <1>1, <1>2, <1>9
<1>11. \A k \in 0 .. d - 1 : Window(k)' = Latest(k)'
  <2> TAKE k \in 0 .. d - 1
  <2>1. Window(k)' = buffer'[(n + 1 - 1 - k) % WINDOW]
    BY <1>4 DEF Window
  <2>2. CASE k = 0
    <3>1. n + 1 - 1 - k = n
      BY <2>2
    <3> QED
      BY <1>2, <1>5, <1>10, <2>1, <2>2, <3>1
  <2>3. CASE k # 0
    <3>1. PICK j \in 0 .. c - 1 : k = j + 1 /\ j \in 0 .. n - 1
      <4>1. k - 1 \in 0 .. c - 1 /\ k = k - 1 + 1 /\ k - 1 \in 0 .. n - 1
        BY <1>3, <2>3
      <4> QED
        BY <4>1
    <3>2. n + 1 - 1 - k = n - 1 - j /\ n - 1 - j < n /\ n < n - 1 - j + WINDOW
      <4>1. j \in Nat /\ j + 1 < WINDOW /\ WINDOW \in Nat /\ k = j + 1
        BY <1>2, <1>3, <3>1
      <4>2. PICK W \in Nat : W = WINDOW
        BY <4>1
      <4>3. PICK i \in Nat : i = j /\ i + 1 < W
        BY <4>1, <4>2
      <4>4. n + 1 - 1 - (i + 1) = n - 1 - i /\ n - 1 - i < n /\ n < n - 1 - i + W
        BY <4>1, <4>2, <4>3
      <4> QED
        BY <4>1, <4>2, <4>3, <4>4
    <3>3. (n - 1 - j) % WINDOW # head /\ (n - 1 - j) % WINDOW \in 0 .. WINDOW - 1
      <4>0. n - 1 - j \in Int
        BY <3>1
      <4>1. PICK b \in Int : b = n - 1 - j
        BY <4>0, Zenon
      <4>2. b % WINDOW # n % WINDOW /\ b % WINDOW \in 0 .. WINDOW - 1
        BY <1>2, <3>2, <4>1, SlotsApart, DivisionWithRemainder, SMTT(30)
      <4> QED
        BY <1>2, <4>1, <4>2
    <3>4. buffer[(n - 1 - j) % WINDOW] = Latest(j)
      BY <1>2, <3>1
    <3>5. Latest(k)' = Latest(j)
      BY <1>6, <3>1
    <3> QED
      BY <1>10, <2>1, <3>2, <3>3, <3>4, <3>5
  <2> QED
    BY <2>2, <2>3
<1> QED
  BY <1>3, <1>4, <1>5, <1>6, <1>7, <1>8, <1>10, <1>11

\* Every newest keeps the window and its sums, and a signal has a window wide enough.
LEMMA ProcessKeeps ==
  ASSUME AlphaInv, NEW newest \in Prices, NEW volume, Process(newest, volume)
  PROVE  AlphaInv'
<1>0. WINDOW \in Nat \ {0} /\ BAND \in Nat /\ Prices \subseteq Int /\ newest \in Int
  BY WindowAssumption
<1>1. PICK n \in Nat : n = Len(ticks)
  BY DEF AlphaInv
<1>2. PICK c \in Nat : c = count
  BY <1>0, <1>1 DEF AlphaInv, WindowExact
<1>3. PICK d \in Nat : d = count'
  BY <1>0, <1>2 DEF Process, UpdateWindow
<1>4. /\ d > 0 /\ d <= WINDOW /\ c <= n /\ c <= WINDOW
      /\ d = IF c = WINDOW THEN c ELSE c + 1
      /\ ticks' \in Seq(Prices) /\ Len(ticks') = n + 1
      /\ d = IF n + 1 <= WINDOW THEN n + 1 ELSE WINDOW
      /\ Latest(0)' = newest /\ \A k \in 0 .. n - 1 : Latest(k + 1)' = Latest(k)
      /\ \A k \in 0 .. n - 1 : Latest(k) \in Int
      /\ Evicted = IF c = WINDOW THEN Latest(c - 1) ELSE 0
      /\ head' = (n + 1) % WINDOW /\ buffer' = [k \in 0 .. WINDOW - 1 |-> buffer'[k]]
      /\ \A k \in 0 .. d - 1 : Window(k)' = Latest(k)'
  BY <1>1, <1>2, <1>3, WindowMoves, ZenonT(60)
<1>4a. d \in Nat /\ c \in Nat /\ d > 0 /\ d <= c + 1 /\ d - 1 \in 0 .. d - 1 /\ d - 1 + 1 = d
  <2>1. d > 0 /\ c <= WINDOW /\ d = IF c = WINDOW THEN c ELSE c + 1
    BY <1>4, Zenon
  <2> QED
    BY <2>1
<1>5. PICK f : f = [k \in 0 .. c - 1 |-> Latest(k)]
  OBVIOUS
<1>6. PICK f2 : f2 = [k \in 0 .. c - 1 |-> Square(Latest(k))]
  OBVIOUS
<1>7. PICK g : g = [k \in 0 .. d - 1 |-> Latest(k)']
  OBVIOUS
<1>8. PICK g2 : g2 = [k \in 0 .. d - 1 |-> Square(Latest(k)')]
  OBVIOUS
<1>9. PICK v : SumsOf(v, f, c) /\ sum = v[c]
  BY <1>2, <1>5, SumToIs DEF AlphaInv, WindowExact
<1>10. PICK u : SumsOf(u, f2, c) /\ sum_sq = u[c]
  BY <1>2, <1>6, SumToIs DEF AlphaInv, WindowExact
<1>11. PICK w : SumsOf(w, g, d) /\ SumTo(g, d) = w[d]
  BY SumToIs
<1>12. PICK x : SumsOf(x, g2, d) /\ SumTo(g2, d) = x[d]
  BY SumToIs
<1>13. \A k \in 0 .. c - 1 : /\ f[k] = Latest(k) /\ f[k] \in Int
                             /\ f2[k] = f[k] * f[k] /\ f2[k] \in Int
  BY <1>4, <1>5, <1>6 DEF Square
<1>14. g[0] = newest /\ g2[0] = newest * newest
  BY <1>4, <1>7, <1>8 DEF Square
<1>15. \A k \in 0 .. d - 2 : g[k + 1] = f[k] /\ g2[k + 1] = f2[k]
  <2> TAKE k \in 0 .. d - 2
  <2>1. k + 1 \in 0 .. d - 1 /\ k \in 0 .. c - 1 /\ k \in 0 .. n - 1
    BY <1>4
  <2> QED
    BY <1>4, <1>5, <1>6, <1>7, <1>8, <2>1
<1>16. w[d] = newest + v[d - 1] /\ x[d] = newest * newest + u[d - 1]
  <2>1. g[0] \in Int /\ g2[0] \in Int
    BY <1>0, <1>14
  <2>2. \A k \in 0 .. d - 1 : w[k + 1] = g[0] + v[k]
    <3>1. Prepended(f, c, g, d)
      BY <1>4a, <1>13, <1>15, <2>1 DEF Prepended
    <3> QED
      BY <1>4a, <1>9, <1>11, <3>1, SumsPrepended
  <2>3. \A k \in 0 .. d - 1 : x[k + 1] = g2[0] + u[k]
    <3>1. Prepended(f2, c, g2, d)
      BY <1>4a, <1>13, <1>15, <2>1 DEF Prepended
    <3> QED
      BY <1>4a, <1>10, <1>12, <3>1, SumsPrepended
  <2> QED
    BY <1>4a, <1>14, <2>2, <2>3, Zenon
<1>17. \A k \in 0 .. c : v[k] \in Int /\ u[k] \in Int /\ k * u[k] >= v[k] * v[k]
  BY <1>9, <1>10, <1>13, CauchySums
<1>18. sum' = w[d] /\ sum_sq' = x[d]
  <2>1. /\ sum' = sum - Evicted + newest
        /\ sum_sq' = sum_sq - Evicted * Evicted + newest * newest
    BY DEF Process, UpdateWindow
  <2>2. CASE c = WINDOW
    <3>1. c - 1 \in 0 .. c - 1 /\ c - 1 \in 0 .. c /\ d - 1 = c - 1 /\ c - 1 + 1 = c
          /\ c \in 0 .. c
      BY <1>0, <1>4, <2>2
    <3>2. Evicted = f[c - 1] /\ Evicted \in Int /\ f2[c - 1] = Evicted * Evicted
      BY <1>4, <1>13, <2>2, <3>1
    <3>3. v[c] = v[c - 1] + f[c - 1] /\ u[c] = u[c - 1] + f2[c - 1]
      BY <1>9, <1>10, <3>1, SumsStep
    <3>4. v[c - 1] \in Int /\ u[c - 1] \in Int
      BY <1>17, <3>1
    <3>5. PICK e \in Int : e = Evicted
      BY <3>2
    <3>6. sum = v[c - 1] + e /\ sum_sq = u[c - 1] + e * e
      BY <1>9, <1>10, <3>2, <3>3, <3>5, Zenon
    <3>7. sum' = v[c - 1] + newest
      BY <1>0, <2>1, <3>4, <3>5, <3>6
    <3>8. sum_sq' = u[c - 1] + newest * newest
      <4>1. PICK e2 \in Int : e2 = e * e
        OBVIOUS
      <4>2. PICK y2 \in Int : y2 = newest * newest
        BY <1>0
      <4>3. PICK a \in Int : a = u[c - 1]
        BY <3>4
      <4>4. sum_sq' = a + e2 - e2 + y2
        BY <2>1, <3>5, <3>6, <4>1, <4>2, <4>3
      <4> QED
        BY <4>2, <4>3, <4>4
    <3> QED
      BY <1>0, <1>16, <3>1, <3>4, <3>7, <3>8
  <2>3. CASE c # WINDOW
    <3>1. Evicted = 0 /\ d - 1 = c
      BY <1>4, <2>3
    <3>2. v[c] \in Int /\ u[c] \in Int
      BY <1>17
    <3> QED
      BY <1>0, <1>9, <1>10, <1>16, <2>1, <3>1, <3>2
  <2> QED
    BY <2>2, <2>3
<1>19. WindowExact'
  <2>1. g = [k \in 0 .. count' - 1 |-> Latest(k)'] /\ g2 = [k \in 0 .. count' - 1 |-> Square(Latest(k)')]
    BY <1>3, <1>7, <1>8
  <2>2. count' = IF Len(ticks') <= WINDOW THEN Len(ticks') ELSE WINDOW
    BY <1>3, <1>4
  <2>3. sum' = SumTo(g, count') /\ sum_sq' = SumTo(g2, count')
    BY <1>3, <1>11, <1>12, <1>18
  <2> QED
    BY <2>1, <2>2, <2>3, Zenon DEF WindowExact, Square
<1>20. NoSignalBeforeBandFits'
  <2> SUFFICES ASSUME signal' # "HOLD" PROVE d > BAND * BAND + 1
    BY <1>3 DEF NoSignalBeforeBandFits
  <2>1. OutsideBand(newest)
    BY DEF Process, SignalFor
  <2>2. PICK m \in Nat : m = d - 1 /\ m \in 0 .. c
    BY <1>4
  <2>3. PICK s \in Int : s = v[m]
    BY <1>17, <2>2
  <2>4. PICK q \in Int : q = u[m]
    BY <1>17, <2>2
  <2>5. m * q >= s * s
    BY <1>17, <2>2, <2>3, <2>4
  <2>6. sum' = newest + s /\ sum_sq' = newest * newest + q /\ count' = m + 1
    <3>1. d = m + 1 /\ d - 1 = m
      BY <2>2
    <3> QED
      BY <1>3, <1>16, <1>18, <2>3, <2>4, <3>1, Zenon
  <2>7. PICK D \in Int : D = (m + 1) * newest - (newest + s)
    BY <1>0
  <2>8. PICK V \in Int : V = (m + 1) * (newest * newest + q) - (newest + s) * (newest + s)
    BY <1>0
  <2>9. V > 0 /\ D * D > BAND * BAND * V
    BY <2>1, <2>6, <2>7, <2>8 DEF OutsideBand, Variance, Deviation
  <2>10. D * D <= m * V
    BY <1>0, <2>5, <2>7, <2>8, SamuelsonStep
  <2>11. PICK b \in Nat : b = BAND * BAND
    BY <1>0
  <2>12. PICK D2 \in Int : D2 = D * D
    OBVIOUS
  <2>13. m > b
    BY <2>9, <2>10, <2>11, <2>12, BandNeeds
  <2> QED
    BY <2>2, <2>11, <2>13
<1>21. head' = Len(ticks') % WINDOW
  BY <1>4
<1> QED
  BY <1>3, <1>4, <1>19, <1>20, <1>21, Zenon DEF AlphaInv

\* The window begins empty.
LEMMA AlphaStarts == ASSUME AlphaInit PROVE AlphaInv
<1>1. /\ ticks = <<>> /\ count = 0 /\ head = 0 /\ sum = 0 /\ sum_sq = 0 /\ signal = "HOLD"
      /\ buffer = [k \in 0 .. WINDOW - 1 |-> 0]
  BY DEF AlphaInit
<1>2. WINDOW \in Nat \ {0} /\ 0 % WINDOW = 0
  BY WindowAssumption
<1>3. \A f : SumTo(f, 0) = 0
  <2> TAKE f
  <2>1. PICK v : SumsOf(v, f, 0) /\ SumTo(f, 0) = v[0]
    BY SumToIs
  <2> QED
    BY <2>1, SumsStep
<1>4. WindowExact
  BY <1>1, <1>2, <1>3 DEF WindowExact
<1> QED
  BY <1>1, <1>2, <1>4 DEF AlphaInv, NoSignalBeforeBandFits

\* A step of main keeps the invariant.
LEMMA AlphaKept == ASSUME AlphaInv, [AlphaNext]_alphaVars PROVE AlphaInv'
<1>1. CASE UNCHANGED alphaVars
  <2>1. UNCHANGED <<buffer, head, count, sum, sum_sq, signal, ticks>>
    BY <1>1 DEF alphaVars
  <2>2. \A k : Window(k)' = Window(k) /\ Latest(k)' = Latest(k)
    BY <2>1 DEF Window, Latest
  <2>3. WindowExact' /\ NoSignalBeforeBandFits'
    BY <2>1, <2>2 DEF AlphaInv, WindowExact, NoSignalBeforeBandFits, Latest
  <2> QED
    BY <2>1, <2>2, <2>3 DEF AlphaInv
<1>2. ASSUME NEW newest \in Prices, NEW volume \in Volumes, Process(newest, volume) PROVE AlphaInv'
  BY <1>2, ProcessKeeps
<1> QED
  BY <1>1, <1>2 DEF AlphaNext, AlphaReported

\* RollingStats::update: the incremental sums are the sums over the last prices, for a
\* window of any width.
THEOREM WindowSumsExact == AlphaSpec => []WindowExact
<1>1. AlphaInit => AlphaInv
  BY AlphaStarts
<1>2. AlphaInv /\ [AlphaNext]_alphaVars => AlphaInv'
  BY AlphaKept
<1>3. AlphaInv => WindowExact
  BY DEF AlphaInv
<1> QED
  BY <1>1, <1>2, <1>3, PTL DEF AlphaSpec

\* process: by the inequalities of Cauchy and Samuelson, a window of n prices gives no
\* signal while n - 1 is at most the square of the band.
THEOREM BandNeedsWidth == AlphaSpec => []NoSignalBeforeBandFits
<1>1. AlphaInit => AlphaInv
  BY AlphaStarts
<1>2. AlphaInv /\ [AlphaNext]_alphaVars => AlphaInv'
  BY AlphaKept
<1>3. AlphaInv => NoSignalBeforeBandFits
  BY DEF AlphaInv
<1> QED
  BY <1>1, <1>2, <1>3, PTL DEF AlphaSpec

-----------------------------------------------------------------------------
(* BacktestEngine                                                          *)

Orders == [id : Int, requested_price : Int, qty : {BUY_QTY, SELL_QTY}, side : {1, -1},
           creation_time_ms : Nat]

\* The last iteration whose tick is processed.
Processed == IF tick THEN iteration ELSE iteration - 1

\* A waiting order was sent before the tick to come, at a price that is not passed from
\* above; if its lag is over it is a buy whose price is gone.
Waits(o) == /\ o.creation_time_ms < iteration /\ o.requested_price <= price
            /\ o.creation_time_ms + SPREAD_LAG <= Processed =>
                  o.side = 1 /\ o.requested_price < price

\* The inductive invariant.
BacktestInv ==
    /\ iteration \in Nat /\ price \in Int /\ tick \in BOOLEAN /\ history \in Nat
    /\ pending_orders \in Seq(Orders)
    /\ \A o \in ToSet(pending_orders) : Waits(o)
    /\ \A f \in fills : f.at = f.order.creation_time_ms + SPREAD_LAG

\* The price of main never falls.
LEMMA PriceNeverFalls ==
  ASSUME price \in Int, NEW draw \in Draws
  PROVE  Walked(draw) \in Int /\ price <= Walked(draw)
  BY BacktestAssumption DEF Walked

\* A tick decides each waiting order for itself.
LEMMA OrderDecided ==
  ASSUME BacktestInv, NEW mid \in Int, price <= mid, tick = FALSE,
         NEW o \in Orders, Waits(o)
  PROVE  /\ Due(o, iteration) /\ Crossed(o, mid) =>
                iteration = o.creation_time_ms + SPREAD_LAG
         /\ Due(o, iteration) /\ ~Crossed(o, mid) => o.side = 1 /\ o.requested_price < mid
<1>1. /\ o.creation_time_ms \in Nat /\ o.requested_price \in Int /\ o.side \in {1, -1}
      /\ iteration \in Nat /\ price \in Int /\ SPREAD_LAG \in Nat \ {0}
  BY BacktestAssumption DEF Orders, BacktestInv
<1>2. /\ o.creation_time_ms < iteration /\ o.requested_price <= price
      /\ o.creation_time_ms + SPREAD_LAG <= iteration - 1 => o.side = 1 /\ o.requested_price < price
  BY DEF Waits, Processed
<1>3. PICK t \in Nat : t = o.creation_time_ms
  BY <1>1
<1>4. PICK r \in Int : r = o.requested_price
  BY <1>1
<1>5. Due(o, iteration) <=> t + SPREAD_LAG <= iteration
  BY <1>1, <1>3 DEF Due
<1>6. Crossed(o, mid) <=> (o.side = 1 /\ mid <= r) \/ (o.side = -1 /\ mid >= r)
  BY <1>4 DEF Crossed
<1>7. ASSUME Due(o, iteration), Crossed(o, mid) PROVE iteration = t + SPREAD_LAG
  <2>1. ~(t + SPREAD_LAG <= iteration - 1)
    <3> SUFFICES ASSUME t + SPREAD_LAG <= iteration - 1 PROVE FALSE
      OBVIOUS
    <3>1. o.side = 1 /\ r < price
      BY <1>2, <1>3, <1>4
    <3>2. mid <= r
      BY <1>6, <1>7, <3>1
    <3> QED
      BY <1>1, <3>1, <3>2
  <2> QED
    BY <1>1, <1>5, <1>7, <2>1
<1>8. ASSUME ~Crossed(o, mid) PROVE o.side = 1 /\ r < mid
  <2>1. r <= mid
    BY <1>1, <1>2, <1>4
  <2>2. o.side = 1
    BY <1>1, <1>6, <1>8, <2>1
  <2> QED
    BY <1>1, <1>6, <1>8, <2>2
<1> QED
  BY <1>3, <1>4, <1>7, <1>8

\* A tick fills what is due and crossed and keeps the others waiting.
LEMMA TickKeeps == ASSUME BacktestInv, NEW draw \in Draws, ProcessTick(draw) PROVE BacktestInv'
<1>1. PICK mid \in Int : mid = Walked(draw) /\ price <= mid
  BY PriceNeverFalls DEF BacktestInv
<1>2. PICK places : places = {k \in DOMAIN pending_orders :
                         Due(pending_orders[k], iteration) /\ Crossed(pending_orders[k], mid)}
  OBVIOUS
<1>3. /\ tick = FALSE /\ tick' = TRUE /\ price' = mid /\ iteration' = iteration
      /\ history' = history + 1
      /\ pending_orders' = AtPlaces(pending_orders, DOMAIN pending_orders \ places)
      /\ fills' = fills \cup {[order |-> o, at |-> iteration] :
                                 o \in ToSet(AtPlaces(pending_orders, places))}
  BY <1>1, <1>2 DEF ProcessTick, ExecutePending, BacktestInv
<1>4. /\ pending_orders \in Seq(Orders) /\ iteration \in Nat /\ history \in Nat
      /\ \A k \in DOMAIN pending_orders : pending_orders[k] \in Orders /\ Waits(pending_orders[k])
  BY DEF BacktestInv, ToSet
<1>5. /\ pending_orders' \in Seq(Orders)
      /\ ToSet(pending_orders') = {pending_orders[k] : k \in DOMAIN pending_orders \ places}
      /\ ToSet(AtPlaces(pending_orders, places)) = {pending_orders[k] : k \in places}
  <2>1. places \in SUBSET DOMAIN pending_orders
        /\ DOMAIN pending_orders \ places \in SUBSET DOMAIN pending_orders
    BY <1>2
  <2> QED
    BY <1>3, <1>4, <2>1, AtPlacesTakes
<1>6. \A o \in ToSet(pending_orders') : Waits(o)'
  <2> SUFFICES ASSUME NEW k \in DOMAIN pending_orders \ places,
                      NEW o, o = pending_orders[k]
               PROVE  Waits(o)'
    BY <1>5
  <2>1. o \in Orders /\ Waits(o) /\ ~(Due(o, iteration) /\ Crossed(o, mid))
    BY <1>2, <1>4
  <2>2. Due(o, iteration) => o.side = 1 /\ o.requested_price < mid
    BY <1>1, <1>3, <2>1, OrderDecided
  <2>3. o.creation_time_ms \in Nat /\ o.requested_price \in Int /\ price \in Int
        /\ SPREAD_LAG \in Nat
    BY <2>1, BacktestAssumption DEF Orders, BacktestInv
  <2>4. o.creation_time_ms + SPREAD_LAG <= iteration => Due(o, iteration)
    BY <1>4, <2>3 DEF Due
  <2>5. o.creation_time_ms < iteration /\ o.requested_price <= mid
    BY <1>1, <2>1, <2>3 DEF Waits
  <2>6. Processed' = iteration
    BY <1>3 DEF Processed
  <2> QED
    BY <1>3, <2>2, <2>4, <2>5, <2>6 DEF Waits
<1>7. \A f \in fills' : f.at = f.order.creation_time_ms + SPREAD_LAG
  <2> SUFFICES ASSUME NEW k \in places, NEW o, o = pending_orders[k]
               PROVE  iteration = o.creation_time_ms + SPREAD_LAG
    BY <1>3, <1>5 DEF BacktestInv
  <2>1. o \in Orders /\ Waits(o) /\ Due(o, iteration) /\ Crossed(o, mid)
    BY <1>2, <1>4
  <2> QED
    BY <1>1, <1>3, <2>1, OrderDecided
<1>8. iteration' \in Nat /\ price' \in Int /\ tick' \in BOOLEAN /\ history' \in Nat
  BY <1>3, <1>4
<1> QED
  BY <1>5, <1>6, <1>7, <1>8 DEF BacktestInv

\* Between two ticks an order at most joins the others.
LEMMA IterationKeeps ==
  ASSUME BacktestInv, tick = TRUE, NextIteration,
         \/ UNCHANGED pending_orders
         \/ \E side \in {1, -1}, qty \in {BUY_QTY, SELL_QTY} :
               pending_orders' = Append(pending_orders,
                  [id |-> history, requested_price |-> price, qty |-> qty, side |-> side,
                   creation_time_ms |-> iteration])
  PROVE  BacktestInv'
<1>1. /\ iteration' = iteration + 1 /\ tick' = FALSE /\ UNCHANGED <<price, history, fills>>
      /\ iteration \in Nat /\ price \in Int /\ history \in Nat /\ pending_orders \in Seq(Orders)
      /\ \A o \in ToSet(pending_orders) : Waits(o)
  BY DEF NextIteration, BacktestInv
<1>2. Processed' = Processed /\ Processed = iteration
  BY <1>1 DEF Processed
<1>3. ASSUME NEW o \in Orders, Waits(o) PROVE Waits(o)'
  <2>1. o.creation_time_ms \in Nat
    BY <1>3 DEF Orders
  <2> QED
    BY <1>1, <1>2, <1>3, <2>1 DEF Waits
<1>4. \A o \in ToSet(pending_orders) : o \in Orders
  BY <1>1 DEF ToSet
<1>4a. \A f \in fills' : f.at = f.order.creation_time_ms + SPREAD_LAG
  BY <1>1 DEF BacktestInv
<1>4b. iteration' \in Nat /\ price' \in Int /\ tick' \in BOOLEAN /\ history' \in Nat
  <2>1. iteration' \in Nat /\ price' \in Int /\ history' \in Nat
    BY <1>1
  <2> QED
    BY <1>1, <2>1, Zenon
<1>5. CASE UNCHANGED pending_orders
  <2>1. pending_orders' \in Seq(Orders) /\ \A x \in ToSet(pending_orders') : Waits(x)'
    BY <1>1, <1>3, <1>4, <1>5
  <2> QED
    BY <1>4a, <1>4b, <2>1, Zenon DEF BacktestInv
<1>6. ASSUME NEW side \in {1, -1}, NEW qty \in {BUY_QTY, SELL_QTY}, NEW o,
             o = [id |-> history, requested_price |-> price, qty |-> qty, side |-> side,
                  creation_time_ms |-> iteration],
             pending_orders' = Append(pending_orders, o)
      PROVE  BacktestInv'
  <2>1. o \in Orders /\ o.creation_time_ms = iteration /\ o.requested_price = price
    BY <1>1, <1>6 DEF Orders
  <2>2. Waits(o)'
    <3>1. ~(iteration + SPREAD_LAG <= iteration) /\ iteration < iteration + 1 /\ price <= price
      BY <1>1, BacktestAssumption
    <3> QED
      BY <1>1, <1>2, <2>1, <3>1 DEF Waits
  <2>3. pending_orders' \in Seq(Orders) /\ ToSet(pending_orders') = ToSet(pending_orders) \cup {o}
    <3>1. pending_orders \in Seq(Orders) /\ o \in Orders
      BY <1>1, <2>1
    <3>2. /\ Append(pending_orders, o) \in Seq(Orders)
          /\ ToSet(Append(pending_orders, o)) = ToSet(pending_orders) \cup {o}
      BY <3>1, AppendedSet
    <3> QED
      BY <1>6, <3>2, Zenon
  <2>4. \A x \in ToSet(pending_orders') : Waits(x)'
    BY <1>1, <1>3, <1>4, <2>2, <2>3
  <2> QED
    BY <1>4a, <1>4b, <2>3, <2>4, Zenon DEF BacktestInv
<1> QED
  BY <1>5, <1>6

\* Every step keeps the invariant.
LEMMA BacktestKept == ASSUME BacktestInv, [BacktestNext]_backtestVars PROVE BacktestInv'
<1>1. CASE UNCHANGED backtestVars
  <2>1. UNCHANGED <<iteration, price, tick, history, pending_orders, fills>>
    BY <1>1 DEF backtestVars
  <2>2. \A o : Waits(o)' <=> Waits(o)
    BY <2>1 DEF Waits, Processed
  <2> QED
    BY <2>1, <2>2 DEF BacktestInv
<1>2. ASSUME NEW draw \in Draws, ProcessTick(draw) PROVE BacktestInv'
  BY <1>2, TickKeeps
<1>3. CASE Submit(1, BUY_QTY) \/ Submit(-1, SELL_QTY)
  BY <1>3, IterationKeeps DEF Submit, BacktestInv
<1>4. CASE Refuse(BUY_QTY) \/ Refuse(SELL_QTY) \/ NoSignal
  BY <1>4, IterationKeeps DEF Refuse, NoSignal, BacktestInv
<1> QED
  BY <1>1, <1>2, <1>3, <1>4 DEF BacktestNext, BacktestReported

\* execute_pending: because the price of main cannot fall, an order is filled exactly when
\* its lag is over or never, and only buys are left waiting.
THEOREM FillsComeAtLag == BacktestSpec => []FilledAtLagOrNever
<1>1. BacktestInit => BacktestInv
  <2>1. ToSet(<<>>) = {} /\ <<>> \in Seq(Orders)
    BY DEF ToSet
  <2> QED
    <3> SUFFICES ASSUME BacktestInit PROVE BacktestInv
      OBVIOUS
    <3>1. /\ iteration = 0 /\ price \in Int /\ history = 0
          /\ pending_orders = <<>> /\ fills = {}
      BY BacktestAssumption DEF BacktestInit
    <3>2. tick \in BOOLEAN
      BY Zenon DEF BacktestInit
    <3>3. iteration \in Nat /\ history \in Nat
      BY <3>1
    <3> QED
      BY <2>1, <3>1, <3>2, <3>3, Zenon DEF BacktestInv
<1>2. BacktestInv /\ [BacktestNext]_backtestVars => BacktestInv'
  BY BacktestKept
<1>3. BacktestInv => FilledAtLagOrNever
  <2> SUFFICES ASSUME BacktestInv, tick, NEW o \in ToSet(pending_orders), Due(o, iteration)
               PROVE  o.side = 1 /\ price > o.requested_price
    BY DEF FilledAtLagOrNever, BacktestInv
  <2>1. Waits(o) /\ o \in Orders /\ price \in Int /\ iteration \in Nat
    BY DEF BacktestInv, ToSet
  <2>2. o.creation_time_ms \in Nat /\ o.requested_price \in Int /\ SPREAD_LAG \in Nat
    BY <2>1, BacktestAssumption DEF Orders
  <2>3. o.creation_time_ms + SPREAD_LAG <= Processed
    BY <2>1, <2>2 DEF Due, Processed
  <2> QED
    BY <2>1, <2>2, <2>3 DEF Waits
<1> QED
  BY <1>1, <1>2, <1>3, PTL DEF BacktestSpec

-----------------------------------------------------------------------------
(* MaskedFilter                                                            *)

\* The rows passed that match, and the inductive invariant.
Passed == matches \cap (0 .. row - 1)
FilterInv ==
    /\ size \in 0 .. MaxSize /\ matches \subseteq 0 .. size - 1
    /\ row \in 0 .. size
    /\ total_vol = Column(qty_column, Passed)

\* The sums over two sets of rows without a common one add up.
LEMMA ColumnsAdd ==
  ASSUME size \in 0 .. MaxSize, NEW A, NEW B, A \cap B = {}
  PROVE  Column(qty_column, A \cup B) = Column(qty_column, A) + Column(qty_column, B)
<1>1. PICK N \in Nat : N = size /\ N <= MaxSize
  BY ColumnAssumption
<1>2. \A k \in 0 .. N - 1 : qty_column[k] \in Nat
  BY <1>1, ColumnAssumption
<1>3. PICK f : f = [k \in 0 .. N - 1 |-> IF k \in A THEN qty_column[k] ELSE 0]
  OBVIOUS
<1>4. PICK g : g = [k \in 0 .. N - 1 |-> IF k \in B THEN qty_column[k] ELSE 0]
  OBVIOUS
<1>5. PICK h : h = [k \in 0 .. N - 1 |-> IF k \in A \cup B THEN qty_column[k] ELSE 0]
  OBVIOUS
<1>6. \A k \in 0 .. N - 1 : f[k] \in Int /\ g[k] \in Int /\ h[k] = f[k] + g[k]
  BY <1>2, <1>3, <1>4, <1>5
<1>7. PICK v : SumsOf(v, f, N) /\ SumTo(f, N) = v[N]
  BY SumToIs
<1>8. PICK u : SumsOf(u, g, N) /\ SumTo(g, N) = u[N]
  BY SumToIs
<1>9. PICK w : SumsOf(w, h, N) /\ SumTo(h, N) = w[N]
  BY SumToIs
<1>10. w[N] = v[N] + u[N]
  BY <1>6, <1>7, <1>8, <1>9, SumsAdd
<1> QED
  BY <1>1, <1>3, <1>4, <1>5, <1>7, <1>8, <1>9, <1>10, Zenon DEF Column

\* The sum over one row is its value, and over none zero.
LEMMA ColumnOfOne ==
  ASSUME size \in 0 .. MaxSize
  PROVE  /\ Column(qty_column, {}) = 0
         /\ \A k \in 0 .. size - 1 : Column(qty_column, {k}) = qty_column[k]
<1>1. PICK N \in Nat : N = size /\ N <= MaxSize
  BY ColumnAssumption
<1>2. \A k \in 0 .. N - 1 : qty_column[k] \in Nat
  BY <1>1, ColumnAssumption
<1>3. PICK f : f = [k \in 0 .. N - 1 |-> IF k \in {} THEN qty_column[k] ELSE 0]
  OBVIOUS
<1>4. PICK v : SumsOf(v, f, N) /\ SumTo(f, N) = v[N]
  BY SumToIs
<1>5. v[N] = 0
  BY <1>3, <1>4, SumsOfZeros
<1>6. ASSUME NEW r \in 0 .. N - 1 PROVE Column(qty_column, {r}) = qty_column[r]
  <2>1. PICK g : g = [k \in 0 .. N - 1 |-> IF k \in {r} THEN qty_column[k] ELSE 0]
    OBVIOUS
  <2>2. PICK w : SumsOf(w, g, N) /\ SumTo(g, N) = w[N]
    BY SumToIs
  <2>3. w[N] = v[N] + (g[r] - f[r])
    <3>1. \A k \in 0 .. N - 1 : f[k] \in Int /\ g[k] \in Int /\ (k # r => g[k] = f[k])
      BY <1>2, <1>3, <2>1
    <3> QED
      BY <1>4, <2>2, <3>1, SumsChange
  <2>4. f[r] = 0 /\ g[r] = qty_column[r] /\ qty_column[r] \in Nat
    BY <1>2, <1>3, <2>1
  <2>5. w[N] = qty_column[r]
    BY <1>5, <2>3, <2>4
  <2> QED
    BY <1>1, <2>1, <2>2, <2>5, Zenon DEF Column
<1>7. Column(qty_column, {}) = 0
  BY <1>1, <1>3, <1>4, <1>5, Zenon DEF Column
<1> QED
  BY <1>1, <1>6, <1>7

\* Every step keeps the invariant.
LEMMA FilterKept == ASSUME FilterInv, [FilterNext]_filterVars PROVE FilterInv'
<1>0. /\ size \in 0 .. MaxSize /\ matches \subseteq 0 .. size - 1 /\ row \in 0 .. size
      /\ LANES \in Nat \ {0} /\ MaxSize \in Nat /\ size \in Nat /\ row \in Nat
  BY ColumnAssumption DEF FilterInv
<1>1. CASE UNCHANGED filterVars
  BY <1>1 DEF filterVars, FilterInv, Passed, Column
<1>2. CASE Batch
  <2>1. PICK mask : mask = matches \cap (row .. row + LANES - 1)
    OBVIOUS
  <2>2. /\ row + LANES <= size /\ total_vol' = total_vol + Column(qty_column, mask)
        /\ row' = row + LANES /\ UNCHANGED <<size, matches>>
    BY <1>2, <2>1 DEF Batch
  <2>3. Passed' = Passed \cup mask /\ Passed \cap mask = {}
    BY <1>0, <2>1, <2>2 DEF Passed
  <2>4. total_vol' = Column(qty_column, Passed')
    BY <1>0, <2>2, <2>3, ColumnsAdd DEF FilterInv
  <2>5. \A S : Column(qty_column, S)' = Column(qty_column, S)
    BY <2>2 DEF Column
  <2>6. row' \in 0 .. size
    BY <1>0, <2>2
  <2> QED
    BY <1>0, <2>2, <2>4, <2>6 DEF FilterInv, Column, Passed
<1>3. CASE TailRow
  <2>1. /\ row < size /\ row' = row + 1 /\ UNCHANGED <<size, matches>>
        /\ total_vol' = IF row \in matches THEN total_vol + qty_column[row] ELSE total_vol
    BY <1>3 DEF TailRow
  <2>2. total_vol' = Column(qty_column, Passed')
    <3>1. CASE row \in matches
      <4>1. Passed' = Passed \cup {row} /\ Passed \cap {row} = {} /\ row \in 0 .. size - 1
        BY <1>0, <2>1, <3>1 DEF Passed
      <4>2. Column(qty_column, {row}) = qty_column[row]
        BY <1>0, <4>1, ColumnOfOne
      <4> QED
        BY <1>0, <2>1, <3>1, <4>1, <4>2, ColumnsAdd DEF FilterInv
    <3>2. CASE row \notin matches
      <4>1. Passed' = Passed
        BY <1>0, <2>1, <3>2 DEF Passed
      <4> QED
        BY <2>1, <3>2, <4>1 DEF FilterInv
    <3> QED
      BY <3>1, <3>2
  <2>3. row' \in 0 .. size
    BY <1>0, <2>1
  <2> QED
    BY <1>0, <2>1, <2>2, <2>3 DEF FilterInv, Column, Passed
<1> QED
  BY <1>1, <1>2, <1>3 DEF FilterNext, Returned

\* filter_avx2: for any number of rows and lanes the masked sums are those of filter_scalar.
THEOREM MaskedSumsAgree == FilterSpec => []VolumesAgree
<1>1. ASSUME FilterInit PROVE FilterInv
  <2>1. size \in 0 .. MaxSize /\ matches \subseteq 0 .. size - 1 /\ row = 0 /\ total_vol = 0
    BY <1>1 DEF FilterInit
  <2>2. Passed = {} /\ row \in 0 .. size
    BY <2>1, ColumnAssumption DEF Passed
  <2> QED
    BY <2>1, <2>2, ColumnOfOne DEF FilterInv
<1>2. FilterInv /\ [FilterNext]_filterVars => FilterInv'
  BY FilterKept
<1>3. ASSUME FilterInv PROVE VolumesAgree
  <2>1. row = size => Passed = matches
    BY <1>3 DEF FilterInv, Passed
  <2> QED
    BY <1>3, <2>1 DEF FilterInv, VolumesAgree, FilterScalar, Passed
<1> QED
  BY <1>1, <1>2, <1>3, PTL DEF FilterSpec

-----------------------------------------------------------------------------
(* Moments: totals                                                         *)

\* A value put behind the others is added to their total.
LEMMA TotalGrows ==
  ASSUME NEW n \in Nat, NEW f, NEW g, \A k \in 1 .. n : g[k] = f[k]
  PROVE  Total(g, n + 1) = Total(f, n) + g[n + 1]
<1>1. PICK f0 : f0 = [k \in 0 .. n - 1 |-> f[k + 1]]
  OBVIOUS
<1>2. PICK g0 : g0 = [k \in 0 .. n + 1 - 1 |-> g[k + 1]]
  OBVIOUS
<1>3. \A k \in 0 .. n - 1 : g0[k] = f0[k]
  BY <1>1, <1>2
<1>4. SumTo(g0, n + 1) = SumTo(f0, n) + g0[n]
  BY <1>3, SumToGrows
<1>5. g0[n] = g[n + 1]
  BY <1>2
<1>6. Total(f, n) = SumTo(f0, n)
  BY <1>1 DEF Total
<1>7. Total(g, n + 1) = SumTo(g0, n + 1)
  BY <1>2 DEF Total
<1> QED
  BY <1>4, <1>5, <1>6, <1>7

\* An empty total is zero.
LEMMA TotalOfNone ==
  ASSUME NEW f
  PROVE  Total(f, 0) = 0
<1>1. PICK f0 : f0 = [k \in 0 .. 0 - 1 |-> f[k + 1]]
  OBVIOUS
<1>2. PICK v : SumsOf(v, f0, 0) /\ SumTo(f0, 0) = v[0]
  BY SumToIs
<1> QED
  BY <1>1, <1>2, SumsStep DEF Total

\* A total of integers is an integer, of naturals a natural.
LEMMA TotalIsInt ==
  ASSUME NEW n \in Nat, NEW f, NEW K, K = Int \/ K = Nat, \A k \in 1 .. n : f[k] \in K
  PROVE  \A m \in 0 .. n : Total(f, m) \in K
<1> DEFINE T == {m \in Nat : m <= n => Total(f, m) \in K}
<1>1. 0 \in T
  BY TotalOfNone
<1>2. ASSUME NEW m \in Nat, m \in T PROVE m + 1 \in T
  <2>1. Total(f, m + 1) = Total(f, m) + f[m + 1]
    BY TotalGrows
  <2> QED
    BY <1>2, <2>1
<1>3. Nat \subseteq T
  BY <1>1, <1>2, AllNaturals
<1> QED
  BY <1>3

\* The total of a linear combination.
Combines(h, f, g, e, x, y, z, n) ==
    \A k \in 1 .. n : /\ f[k] \in Int /\ g[k] \in Int /\ e[k] \in Int
                      /\ h[k] = x * f[k] + y * g[k] + z * e[k]

\* One term more of three sums and of their combination.
LEMMA CombinationStep ==
  ASSUME NEW x \in Int, NEW y \in Int, NEW z \in Int,
         NEW f \in Int, NEW g \in Int, NEW e \in Int,
         NEW i \in Int, NEW j \in Int, NEW k \in Int
  PROVE  x * f + y * g + z * e + (x * i + y * j + z * k) = x * (f + i) + y * (g + j) + z * (e + k)
<1>1. x * (f + i) = x * f + x * i /\ y * (g + j) = y * g + y * j /\ z * (e + k) = z * e + z * k
  OBVIOUS
<1>2. /\ x * f \in Int /\ x * i \in Int /\ y * g \in Int /\ y * j \in Int
      /\ z * e \in Int /\ z * k \in Int
  OBVIOUS
<1> QED
  BY <1>1, <1>2

\* The total is the combination of the totals.
LEMMA TotalsCombine ==
  ASSUME NEW n \in Nat, NEW h, NEW f, NEW g, NEW e,
         NEW x \in Int, NEW y \in Int, NEW z \in Int, Combines(h, f, g, e, x, y, z, n)
  PROVE  Total(h, n) = x * Total(f, n) + y * Total(g, n) + z * Total(e, n)
<1> DEFINE T == {m \in Nat : m <= n =>
                     Total(h, m) = x * Total(f, m) + y * Total(g, m) + z * Total(e, m)}
<1>0. \A m \in 0 .. n : Total(f, m) \in Int /\ Total(g, m) \in Int /\ Total(e, m) \in Int
  BY TotalIsInt DEF Combines
<1>1. 0 \in T
  BY TotalOfNone
<1>2. ASSUME NEW m \in Nat, m \in T PROVE m + 1 \in T
  <2>1. CASE m + 1 <= n
    <3>1. m \in 0 .. n /\ m + 1 \in 1 .. n
      BY <2>1
    <3>2. PICK tf, tg, te \in Int : tf = Total(f, m) /\ tg = Total(g, m) /\ te = Total(e, m)
      BY <1>0, <3>1
    <3>3. PICK vf, vg, ve \in Int : vf = f[m + 1] /\ vg = g[m + 1] /\ ve = e[m + 1]
      BY <3>1 DEF Combines
    <3>4. /\ Total(f, m + 1) = tf + vf /\ Total(g, m + 1) = tg + vg
          /\ Total(e, m + 1) = te + ve /\ Total(h, m + 1) = Total(h, m) + h[m + 1]
      BY <3>2, <3>3, TotalGrows
    <3>5. Total(h, m) = x * tf + y * tg + z * te /\ h[m + 1] = x * vf + y * vg + z * ve
      BY <1>2, <2>1, <3>1, <3>2, <3>3 DEF Combines
    <3>6. Total(h, m + 1) = x * (tf + vf) + y * (tg + vg) + z * (te + ve)
      BY <3>4, <3>5, CombinationStep
    <3> QED
      BY <3>4, <3>6
  <2> QED
    BY <2>1
<1>3. Nat \subseteq T
  BY <1>1, <1>2, AllNaturals
<1> QED
  BY <1>3

-----------------------------------------------------------------------------
(* Moments: the arithmetic of one update                                   *)

\* What is divisible has a quotient.
LEMMA Quotients ==
  ASSUME NEW d \in Nat \ {0}, NEW y \in Int, Divides(d, y)
  PROVE  \E q \in Int : y = d * q
<1>1. PICK q \in Int : q = y \div d
  BY DivisionWithRemainder
<1>2. y = d * q + (y % d) /\ y % d = 0 /\ d * q \in Int
  BY <1>1, DivisionWithRemainder DEF Divides
<1> QED
  BY <1>2

\* M is the mean, in the unit 1 / S, of weights w and a weighted sum A.
IsMean(M, S, w, A) == M \in Int /\ w * M = S * A

\* Welford's mean: the quotient is exact, and the mean is that of one value more.
LEMMA MeanStep ==
  ASSUME NEW n \in Nat, NEW S \in Int, NEW A \in Int, NEW M, NEW x \in Int,
         Divides(n + 1, S), IsMean(M, S, n, A)
  PROVE  \E q \in Int : /\ (S * x - M) \div (n + 1) = q
                        /\ IsMean(M + q, S, n + 1, A + x)
<1>a. M \in Int /\ n * M = S * A
  BY DEF IsMean
<1>0. PICK c \in Int : S = (n + 1) * c
  <2>1. n + 1 \in Nat \ {0}
    OBVIOUS
  <2> QED
    BY <2>1, Quotients
<1>1. PICK q \in Int : q = c * (A + x) - M
  BY <1>a
<1>2. (n + 1) * (M + q) = S * (A + x)
  <2>1. (n + 1) * (c * (A + x)) = ((n + 1) * c) * (A + x)
    OBVIOUS
  <2> QED
    BY <1>a, <1>0, <1>1, <2>1
<1>3. S * x - M = (n + 1) * q
  <2>1. (n + 1) * (M + q) = (n * M + M) + (n + 1) * q /\ S * (A + x) = S * A + S * x
    BY <1>a
  <2>2. /\ S * A \in Int /\ S * x \in Int /\ n * M \in Int /\ (n + 1) * q \in Int
    BY <1>a
  <2> QED
    BY <1>a, <1>2, <2>1, <2>2
<1>4. (S * x - M) \div (n + 1) = q
  BY <1>a, <1>3, ExactQuotient
<1> QED
  BY <1>a, <1>2, <1>4 DEF IsMean

\* Welford's squares: delta * delta2 is what one value more adds.
LEMMA SquaresStep ==
  ASSUME NEW n \in Nat, NEW M \in Int, NEW X \in Int, NEW N1 \in Int, NEW R \in Int,
         (n + 1) * N1 = n * M + X
  PROVE  (R - n * (M * M)) + (X - M) * (X - N1) = (R + X * X) - (n + 1) * (N1 * N1)
<1>1. (X - M) * (X - N1) = X * X - X * N1 - M * X + M * N1
  OBVIOUS
<1>2. (n + 1) * (N1 * N1) = n * (M * N1) + X * N1
  <2>1. ((n + 1) * N1) * N1 = (n * M + X) * N1
    OBVIOUS
  <2>2. ((n + 1) * N1) * N1 = (n + 1) * (N1 * N1) /\ (n * M + X) * N1 = n * (M * N1) + X * N1
    OBVIOUS
  <2> QED
    BY <2>1, <2>2
<1>3. M * N1 + n * (M * N1) = n * (M * M) + M * X
  <2>1. M * ((n + 1) * N1) = M * (n * M + X)
    OBVIOUS
  <2>2. M * ((n + 1) * N1) = M * N1 + n * (M * N1) /\ M * (n * M + X) = n * (M * M) + M * X
    OBVIOUS
  <2> QED
    BY <2>1, <2>2
<1>4. PICK xx, mn, xn, mx, mm, nn \in Int :
         /\ xx = X * X /\ mn = M * N1 /\ xn = X * N1 /\ mx = M * X
         /\ mm = n * (M * M) /\ nn = n * (M * N1)
  OBVIOUS
<1>5. (X - M) * (X - N1) = xx - xn - mx + mn
  BY <1>1, <1>4
<1>6. (n + 1) * (N1 * N1) = nn + xn
  BY <1>2, <1>4
<1>7. mn + nn = mm + mx
  BY <1>3, <1>4
<1>8. (R - mm) + (xx - xn - mx + mn) = (R + xx) - (nn + xn)
  BY <1>7
<1> QED
  BY <1>4, <1>5, <1>6, <1>8

\* The mean of one price more: N1 is a parts of the price to b - a parts of M.
Follows(N1, S, a, b, M, x) == N1 \in Int /\ b * N1 = a * (S * x) + (b - a) * M

\* A decayed mean: the quotient is exact, and the mean is that of one price more.
LEMMA DecayedMeanStep ==
  ASSUME NEW a \in Int, NEW b \in Nat \ {0}, NEW P \in Nat \ {0}, NEW S \in Int, Divides(b * P, S),
         NEW W \in Int, NEW M, NEW x \in Int, IsMean(M, S, P, W)
  PROVE  \E N1 : /\ Follows(N1, S, a, b, M, x)
                 /\ IsMean(N1, S, b * P, (b - a) * W + a * P * x)
<1>a. M \in Int /\ P * M = S * W
  BY DEF IsMean
<1>0. PICK c \in Int : S = (b * P) * c
  <2>1. b * P \in Nat \ {0} /\ b * P = P * b
    <3>1. b * P >= b
      BY Multiples
    <3> QED
      BY <3>1
  <2> QED
    BY <2>1, Quotients
<1>b. PICK W1 \in Int : W1 = (b - a) * W + a * P * x
  OBVIOUS
<1>1. (b * P) * (c * W1) = S * W1
  <2>1. (b * P) * (c * W1) = ((b * P) * c) * W1
    OBVIOUS
  <2> QED
    BY <1>0, <2>1
<1>2. S * W1 = P * (a * (S * x) + (b - a) * M)
  <2>1. S * ((b - a) * W + a * P * x) = (b - a) * (S * W) + P * (a * (S * x))
    OBVIOUS
  <2>2. P * (a * (S * x) + (b - a) * M) = P * (a * (S * x)) + (b - a) * (P * M)
    BY <1>a
  <2>3. (b - a) * (S * W) \in Int /\ P * (a * (S * x)) \in Int
    OBVIOUS
  <2> QED
    BY <1>a, <1>b, <2>1, <2>2, <2>3
<1>3. (b * P) * (c * W1) = P * (b * (c * W1))
  OBVIOUS
<1>4. a * (S * x) + (b - a) * M \in Int /\ b * (c * W1) \in Int /\ c * W1 \in Int
  BY <1>a
<1>5. b * (c * W1) = a * (S * x) + (b - a) * M
  BY <1>1, <1>2, <1>3, <1>4, Cancelled
<1> QED
  BY <1>b, <1>1, <1>4, <1>5 DEF Follows, IsMean

\* The decayed squares: what one value more adds, in the unit of the squares.
LEMMA DecayIdentity ==
  ASSUME NEW a \in Int, NEW b \in Int, NEW v \in Int, NEW X \in Int, NEW M \in Int
  PROVE  (b - a) * (b * v + a * ((X - M) * (X - M))) + (a * X + (b - a) * M) * (a * X + (b - a) * M)
            = b * ((b - a) * v + (b - a) * (M * M) + a * (X * X))
  OBVIOUS

\* v is the mean square, in the unit 1 / S^2, of weights w and a weighted sum V of squares.
IsSpread(v, S, w, V, M) == v \in Int /\ w * v = S * S * V - w * (M * M)

\* A decayed square: the quotient by b^2 is exact, and the mean square is that of one price more.
LEMMA DecayedSquaresStep ==
  ASSUME NEW a \in Int, NEW b \in Nat \ {0}, NEW P \in Nat \ {0}, NEW S \in Int, Divides(b * P, S),
         NEW V \in Int, NEW M \in Int, NEW v, NEW x \in Int, IsSpread(v, S, P, V, M),
         NEW N1, Follows(N1, S, a, b, M, x)
  PROVE  \E q \in Int : /\ (b - a) * (b * v + a * ((S * x - M) * (S * x - M))) = (b * b) * q
                        /\ IsSpread(q, S, b * P, (b - a) * V + a * P * (x * x), N1)
<1>a. /\ v \in Int /\ P * v = S * S * V - P * (M * M)
      /\ N1 \in Int /\ b * N1 = a * (S * x) + (b - a) * M
  BY DEF IsSpread, Follows
<1>0. PICK c \in Int : S = (b * P) * c
  <2>1. b * P \in Nat \ {0} /\ b * P = P * b
    <3>1. b * P >= b
      BY Multiples
    <3> QED
      BY <3>1
  <2> QED
    BY <2>1, Quotients
<1>b. PICK V1 \in Int : V1 = (b - a) * V + a * P * (x * x)
  OBVIOUS
<1>1. PICK q \in Int : q = c * (S * V1) - N1 * N1
  BY <1>a
<1>2. (b * P) * q = S * S * V1 - (b * P) * (N1 * N1)
  <2>1. (b * P) * (c * (S * V1) - N1 * N1) = ((b * P) * c) * (S * V1) - (b * P) * (N1 * N1)
    BY <1>a
  <2>2. S * (S * V1) = S * S * V1
    OBVIOUS
  <2> QED
    BY <1>a, <1>0, <1>1, <2>1, <2>2
<1>3. PICK X \in Int : X = S * x
  OBVIOUS
<1>4. PICK Y \in Int : Y = (b - a) * (b * v + a * ((X - M) * (X - M)))
  BY <1>a
<1>5. PICK Z \in Int : Z = (b - a) * v + (b - a) * (M * M) + a * (X * X)
  BY <1>a
<1>6. Y + (b * N1) * (b * N1) = b * Z
  BY <1>a, <1>3, <1>4, <1>5, DecayIdentity
<1>7. S * S * V1 = P * Z
  <2>1. S * S * ((b - a) * V + a * P * (x * x)) = (b - a) * (S * S * V) + P * (a * ((S * x) * (S * x)))
    OBVIOUS
  <2>2. S * S * V = P * v + P * (M * M)
    <3>1. S * S * V \in Int /\ P * (M * M) \in Int /\ P * v \in Int
      BY <1>a
    <3> QED
      BY <1>a, <3>1
  <2>3. (b - a) * (P * v + P * (M * M)) + P * (a * (X * X))
           = P * ((b - a) * v + (b - a) * (M * M) + a * (X * X))
    BY <1>a
  <2> QED
    BY <1>b, <1>3, <1>5, <2>1, <2>2, <2>3
<1>8. P * Y = P * ((b * b) * q)
  <2>1. P * (Y + (b * N1) * (b * N1)) = P * Y + b * ((b * P) * (N1 * N1))
    BY <1>a
  <2>2. P * (b * Z) = b * (P * Z) /\ P * ((b * b) * q) = b * ((b * P) * q)
    OBVIOUS
  <2>3. b * ((b * P) * q) = b * (P * Z) - b * ((b * P) * (N1 * N1))
    <3>1. PICK i, j \in Int : i = P * Z /\ j = (b * P) * (N1 * N1)
      BY <1>a
    <3>2. (b * P) * q = i - j
      BY <1>2, <1>7, <3>1
    <3>3. b * (i - j) = b * i - b * j
      OBVIOUS
    <3> QED
      BY <3>1, <3>2, <3>3
  <2>4. b * (P * Z) \in Int /\ b * ((b * P) * (N1 * N1)) \in Int /\ P * Y \in Int
    BY <1>a
  <2> QED
    BY <1>6, <2>1, <2>2, <2>3, <2>4
<1>9. Y = (b * b) * q
  <2>1. (b * b) * q \in Int
    OBVIOUS
  <2> QED
    BY <1>8, <2>1, Cancelled
<1> QED
  BY <1>b, <1>2, <1>3, <1>4, <1>9 DEF IsSpread

-----------------------------------------------------------------------------
(* Moments: squared deviations, and the decaying weights                   *)

\* The weighted sum of squared deviations, from the weighted sums of values and squares.
LEMMA TermExpands ==
  ASSUME NEW w \in Int, NEW x \in Int, NEW S \in Int, NEW M \in Int
  PROVE  w * Square(S * x - M) = (S * S) * (w * Square(x)) + (0 - 2 * (S * M)) * (w * x) + (M * M) * w
<1>1. w * ((S * x - M) * (S * x - M)) = (S * S) * (w * (x * x)) + (0 - 2 * (S * M)) * (w * x) + (M * M) * w
  OBVIOUS
<1> QED
  BY <1>1 DEF Square

Deviations(w, x, f, q, d, S, M, n) ==
    \A k \in 1 .. n : /\ w[k] \in Int /\ x[k] \in Int
                      /\ f[k] = w[k] * x[k] /\ q[k] = w[k] * Square(x[k])
                      /\ d[k] = w[k] * Square(S * x[k] - M)

\* About the mean, the sum is the weighted squares less the squared mean, as often as the weights.
LEMMA SquaresAbout ==
  ASSUME NEW n \in Nat, NEW S \in Int, NEW M \in Int, NEW P \in Int, NEW w, NEW x, NEW f, NEW q, NEW d,
         Deviations(w, x, f, q, d, S, M, n), Total(w, n) = P, P * M = S * Total(f, n)
  PROVE  /\ Total(d, n) = S * S * Total(q, n) - P * (M * M)
         /\ Total(f, n) \in Int /\ Total(q, n) \in Int
<1>1. \A k \in 1 .. n : f[k] \in Int /\ q[k] \in Int /\ w[k] \in Int
  BY DEF Deviations, Square
<1>2. Total(f, n) \in Int /\ Total(q, n) \in Int
  BY <1>1, TotalIsInt
<1>3. PICK s, t, u \in Int : s = S * S /\ t = 0 - 2 * (S * M) /\ u = M * M
  OBVIOUS
<1>4. \A k \in 1 .. n : d[k] = s * q[k] + t * f[k] + u * w[k]
  BY <1>3, TermExpands, SMTT(30) DEF Deviations
<1>5. Combines(d, q, f, w, s, t, u, n)
  BY <1>1, <1>4 DEF Combines
<1>6. Total(d, n) = s * Total(q, n) + t * Total(f, n) + u * Total(w, n)
  BY <1>5, TotalsCombine
<1>7. PICK tf, tq \in Int : tf = Total(f, n) /\ tq = Total(q, n)
  BY <1>2
<1>8. (0 - 2 * (S * M)) * tf = (0 - 2) * (P * (M * M))
  <2>1. (0 - 2 * (S * M)) * tf = (0 - 2) * (M * (S * tf)) /\ M * (P * M) = P * (M * M)
    OBVIOUS
  <2> QED
    BY <1>7, <2>1
<1>9. (M * M) * P = P * (M * M) /\ P * (M * M) \in Int /\ S * S * tq \in Int
  OBVIOUS
<1>10. Total(d, n) = S * S * tq + (0 - 2) * (P * (M * M)) + P * (M * M)
  BY <1>3, <1>6, <1>7, <1>8, <1>9
<1> QED
  BY <1>2, <1>7, <1>9, <1>10

\* The decayed sum of n values.
DecayedSum(f, n, a, b) == Total([k \in 1 .. n |-> Decay(k, n, a, b) * f[k]], n)

\* The weights are integers.
LEMMA DecayIsInt ==
  ASSUME NEW a \in Int, NEW b \in Nat \ {0}, NEW n \in Nat
  PROVE  \A k \in 1 .. n : Decay(k, n, a, b) \in Int
<1>1. \A m \in Nat : Power(b - a, m) \in Int
  <2>1. b - a \in Int /\ 1 \in Int /\ \A x, y \in Int : x * y \in Int
    OBVIOUS
  <2> QED
    BY <2>1, PowerIsInt
<1>2. \A m \in Nat : Power(b, m) \in Int
  <2>1. b \in Int /\ 1 \in Int /\ \A x, y \in Int : x * y \in Int
    OBVIOUS
  <2> QED
    BY <2>1, PowerIsInt
<1> TAKE k \in 1 .. n
<1>3. CASE k = 1
  <2>1. n - 1 \in Nat
    BY <1>3
  <2> QED
    BY <1>1, <1>3, <2>1 DEF Decay
<1>4. CASE k # 1
  <2>1. n - k \in Nat /\ k - 2 \in Nat
    BY <1>4
  <2>2. Power(b - a, n - k) \in Int /\ Power(b, k - 2) \in Int
    BY <1>1, <1>2, <2>1
  <2> QED
    BY <1>4, <2>2 DEF Decay
<1> QED
  BY <1>3, <1>4

\* One value later every weight has decayed, and the new one makes up for it.
LEMMA DecayOnce ==
  ASSUME NEW a \in Int, NEW b \in Nat \ {0}, NEW n \in Nat \ {0}
  PROVE  /\ \A k \in 1 .. n : Decay(k, n + 1, a, b) = (b - a) * Decay(k, n, a, b)
         /\ Decay(n + 1, n + 1, a, b) = a * Power(b, n - 1)
<1>1. \A m \in Nat : Power(b - a, m) \in Int
  <2>1. b - a \in Int /\ 1 \in Int /\ \A x, y \in Int : x * y \in Int
    OBVIOUS
  <2> QED
    BY <2>1, PowerIsInt
<1>2. \A m \in Nat : Power(b, m) \in Int
  <2>1. b \in Int /\ 1 \in Int /\ \A x, y \in Int : x * y \in Int
    OBVIOUS
  <2> QED
    BY <2>1, PowerIsInt
<1>3. ASSUME NEW k \in 1 .. n PROVE Decay(k, n + 1, a, b) = (b - a) * Decay(k, n, a, b)
  <2>1. n - k \in Nat /\ n + 1 - k = n - k + 1
    OBVIOUS
  <2>2. Power(b - a, n + 1 - k) = (b - a) * Power(b - a, n - k)
    BY <2>1, PowerGrows
  <2>3. CASE k = 1
    BY <2>2, <2>3 DEF Decay
  <2>4. CASE k # 1
    <3>1. k - 2 \in Nat
      BY <2>4
    <3>2. PICK i, j \in Int : i = Power(b - a, n - k) /\ j = Power(b, k - 2)
      BY <1>1, <1>2, <2>1, <3>1
    <3>3. a * ((b - a) * i) * j = (b - a) * (a * i * j)
      OBVIOUS
    <3>4. Decay(k, n + 1, a, b) = a * ((b - a) * i) * j /\ Decay(k, n, a, b) = a * i * j
      BY <2>2, <2>4, <3>2 DEF Decay
    <3> QED
      BY <3>3, <3>4
  <2> QED
    BY <2>3, <2>4
<1>4. Decay(n + 1, n + 1, a, b) = a * Power(b, n - 1)
  <2>1. n + 1 # 1 /\ n + 1 - (n + 1) = 0 /\ n + 1 - 2 = n - 1 /\ n - 1 \in Nat
    OBVIOUS
  <2>2. Decay(n + 1, n + 1, a, b) = a * Power(b - a, 0) * Power(b, n - 1)
    BY <2>1 DEF Decay
  <2>3. Power(b - a, 0) = 1 /\ Power(b, n - 1) \in Int
    BY <1>2, <2>1, PowerGrows
  <2> QED
    BY <2>2, <2>3
<1> QED
  BY <1>3, <1>4

\* g has the n values of f.
Continues(g, f, n) == \A k \in 1 .. n : f[k] \in Int /\ g[k] = f[k]

\* One value more: the sum decays once and gains the new value.
LEMMA DecayedSumGrows ==
  ASSUME NEW a \in Int, NEW b \in Nat \ {0}, NEW n \in Nat \ {0}, NEW f, NEW g, Continues(g, f, n)
  PROVE  /\ DecayedSum(f, n, a, b) \in Int
         /\ DecayedSum(g, n + 1, a, b) = (b - a) * DecayedSum(f, n, a, b) + a * Power(b, n - 1) * g[n + 1]
<1>1. PICK v : v = [k \in 1 .. n |-> Decay(k, n, a, b) * f[k]]
  OBVIOUS
<1>2. PICK w : w = [k \in 1 .. n + 1 |-> Decay(k, n + 1, a, b) * g[k]]
  OBVIOUS
<1>2a. \A k \in 1 .. n : f[k] \in Int /\ g[k] = f[k]
  BY DEF Continues
<1>3. \A k \in 1 .. n : Decay(k, n, a, b) \in Int
  BY DecayIsInt
<1>4. \A k \in 1 .. n : v[k] = Decay(k, n, a, b) * f[k]
  BY <1>1
<1>5. \A k \in 1 .. n : v[k] \in Int
  BY <1>2a, <1>3, <1>4
<1>6. \A k \in 1 .. n : w[k] = (b - a) * v[k]
  <2> TAKE k \in 1 .. n
  <2>1. PICK i, j \in Int : i = Decay(k, n, a, b) /\ j = f[k]
    BY <1>2a, <1>3
  <2>2. w[k] = Decay(k, n + 1, a, b) * g[k]
    BY <1>2
  <2>3. w[k] = ((b - a) * i) * j
    BY <1>2a, <2>1, <2>2, DecayOnce
  <2>4. ((b - a) * i) * j = (b - a) * (i * j)
    OBVIOUS
  <2> QED
    BY <1>4, <2>1, <2>3, <2>4
<1>7. Total(v, n) \in Int
  BY <1>5, TotalIsInt
<1>8. Total(w, n) = (b - a) * Total(v, n)
  <2>1. Combines(w, v, v, v, b - a, 0, 0, n)
    BY <1>5, <1>6 DEF Combines
  <2>2. Total(w, n) = (b - a) * Total(v, n) + 0 * Total(v, n) + 0 * Total(v, n)
    BY <2>1, TotalsCombine
  <2> QED
    BY <1>7, <2>2
<1>9. Total(w, n + 1) = Total(w, n) + w[n + 1]
  BY TotalGrows
<1>10. w[n + 1] = a * Power(b, n - 1) * g[n + 1]
  BY <1>2, DecayOnce
<1>11. DecayedSum(f, n, a, b) = Total(v, n)
  BY <1>1 DEF DecayedSum
<1>12. DecayedSum(g, n + 1, a, b) = Total(w, n + 1)
  BY <1>2 DEF DecayedSum
<1> QED
  BY <1>7, <1>8, <1>9, <1>10, <1>11, <1>12

\* The first value has weight one.
LEMMA DecayedSumOfOne ==
  ASSUME NEW a \in Int, NEW b \in Nat \ {0}, NEW f, f[1] \in Int
  PROVE  DecayedSum(f, 1, a, b) = f[1]
<1>1. PICK v : v = [k \in 1 .. 1 |-> Decay(k, 1, a, b) * f[k]]
  OBVIOUS
<1>2. Decay(1, 1, a, b) = 1
  <2>1. 1 - 1 = 0
    OBVIOUS
  <2> QED
    BY <2>1, PowerGrows DEF Decay
<1>3. v[1] = f[1]
  BY <1>1, <1>2
<1>4. Total(v, 0 + 1) = Total(v, 0) + v[0 + 1] /\ Total(v, 0) = 0
  BY TotalGrows, TotalOfNone
<1>5. DecayedSum(f, 1, a, b) = Total(v, 1)
  BY <1>1 DEF DecayedSum
<1> QED
  BY <1>3, <1>4, <1>5

\* The weights of n values add up to b^(n - 1).
LEMMA WeightsAddUp ==
  ASSUME NEW a \in Int, NEW b \in Nat \ {0}, NEW n \in Nat \ {0}
  PROVE  Total([k \in 1 .. n |-> Decay(k, n, a, b)], n) = Power(b, n - 1)
<1>1. PICK f : f = [k \in Nat |-> 1]
  OBVIOUS
<1>2. \A k \in Nat : f[k] = 1
  BY <1>1
<1> DEFINE T == {m \in Nat : DecayedSum(f, m + 1, a, b) = Power(b, m)}
<1>3. 0 \in T
  <2>1. DecayedSum(f, 1, a, b) = 1 /\ Power(b, 0) = 1
    BY <1>2, DecayedSumOfOne, PowerGrows
  <2> QED
    BY <2>1
<1>4. ASSUME NEW m \in Nat, m \in T PROVE m + 1 \in T
  <2>1. m + 1 \in Nat \ {0} /\ m + 1 - 1 = m /\ Continues(f, f, m + 1)
    BY <1>2 DEF Continues
  <2>2. DecayedSum(f, m + 1 + 1, a, b)
           = (b - a) * DecayedSum(f, m + 1, a, b) + a * Power(b, m + 1 - 1) * f[m + 1 + 1]
    BY <2>1, DecayedSumGrows
  <2>3. Power(b, m) \in Int
    <3>1. b \in Int /\ 1 \in Int /\ \A x, y \in Int : x * y \in Int
      OBVIOUS
    <3> QED
      BY <3>1, PowerIsInt
  <2>4. PICK i \in Int : i = Power(b, m)
    BY <2>3
  <2>5. f[m + 1 + 1] = 1
    BY <1>2
  <2>6. DecayedSum(f, m + 1 + 1, a, b) = (b - a) * i + a * i * 1
    BY <1>4, <2>1, <2>2, <2>4, <2>5
  <2>7. (b - a) * i + a * i * 1 = b * i
    OBVIOUS
  <2>8. Power(b, m + 1) = b * i
    BY <2>4, PowerGrows
  <2> QED
    BY <2>6, <2>7, <2>8
<1>5. Nat \subseteq T
  BY <1>3, <1>4, AllNaturals
<1>6. DecayedSum(f, n, a, b) = Power(b, n - 1)
  <2>1. n - 1 \in T /\ n - 1 + 1 = n
    BY <1>5
  <2> QED
    BY <2>1
<1>7. [k \in 1 .. n |-> Decay(k, n, a, b) * f[k]] = [k \in 1 .. n |-> Decay(k, n, a, b)]
  <2>1. \A k \in 1 .. n : Decay(k, n, a, b) * f[k] = Decay(k, n, a, b)
    <3>1. \A k \in 1 .. n : Decay(k, n, a, b) \in Int /\ f[k] = 1
      BY <1>2, DecayIsInt
    <3> QED
      BY <3>1
  <2> QED
    BY <2>1
<1> QED
  BY <1>6, <1>7 DEF DecayedSum

-----------------------------------------------------------------------------
(* Moments: what the recurrences hold, and what one more price does to it  *)

Squared(xs) == [k \in DOMAIN xs |-> Square(xs[k])]

\* R are the squared deviations from M, in the unit 1 / S^2, of n prices with squares Q.
AreSquares(R, S, n, Q, M) == R \in Int /\ R = S * S * Q - n * (M * M)

\* The mean and the squared deviations of a sequence, without the quotients.
SampleMoments(xs, S, mean, m2) ==
    /\ IsMean(mean, S, Len(xs), Total(xs, Len(xs)))
    /\ AreSquares(m2, S, Len(xs), Total(Squared(xs), Len(xs)), mean)
DecayedMoment(xs, S, a, b, mean) ==
    IsMean(mean, S, Power(b, Len(xs) - 1), DecayedSum(xs, Len(xs), a, b))
DecayedSpread(xs, S, a, b, mean, var) ==
    IsSpread(var, S, Power(b, Len(xs) - 1), DecayedSum(Squared(xs), Len(xs), a, b), mean)

\* xs has n prices, and ys is xs with one price more.
OneMore(xs, n, x, ys) == xs \in Seq(Int) /\ n = Len(xs) /\ x \in Int /\ ys = Append(xs, x)

\* Its values and its squares: the old ones and the new one.
LEMMA SequenceGrows ==
  ASSUME NEW xs, NEW n, NEW x, NEW ys, OneMore(xs, n, x, ys)
  PROVE  /\ ys \in Seq(Int) /\ Len(ys) = n + 1
         /\ ys[n + 1] = x /\ \A k \in 1 .. n : xs[k] \in Int /\ ys[k] = xs[k]
         /\ Squared(ys)[n + 1] = x * x
         /\ \A k \in 1 .. n : Squared(xs)[k] \in Int /\ Squared(ys)[k] = Squared(xs)[k]
         /\ n \in Nat
<1>1. /\ n \in Nat /\ ys \in Seq(Int) /\ Len(ys) = n + 1 /\ DOMAIN ys = 1 .. n + 1 /\ DOMAIN xs = 1 .. n
      /\ ys[n + 1] = x /\ \A k \in 1 .. n : xs[k] \in Int /\ ys[k] = xs[k]
  BY DEF OneMore
<1>2. n + 1 \in DOMAIN ys /\ \A k \in 1 .. n : k \in DOMAIN ys
  BY <1>1
<1>3. Squared(ys)[n + 1] = x * x
  BY <1>1, <1>2 DEF Squared, Square
<1>4. ASSUME NEW k \in 1 .. n PROVE Squared(xs)[k] \in Int /\ Squared(ys)[k] = Squared(xs)[k]
  <2>1. Squared(xs)[k] = xs[k] * xs[k] /\ Squared(ys)[k] = ys[k] * ys[k]
    BY <1>1, <1>2 DEF Squared, Square
  <2> QED
    BY <1>1, <2>1
<1> QED
  BY <1>1, <1>3, <1>4

\* Its totals: the old ones and the new price or its square.
LEMMA TotalsGrow ==
  ASSUME NEW xs, NEW n \in Nat, NEW x, NEW ys, OneMore(xs, n, x, ys)
  PROVE  /\ Total(xs, n) \in Int /\ Total(Squared(xs), n) \in Int
         /\ Total(ys, n + 1) = Total(xs, n) + x
         /\ Total(Squared(ys), n + 1) = Total(Squared(xs), n) + x * x
<1>1. /\ ys[n + 1] = x /\ \A k \in 1 .. n : xs[k] \in Int /\ ys[k] = xs[k]
      /\ Squared(ys)[n + 1] = x * x
      /\ \A k \in 1 .. n : Squared(xs)[k] \in Int /\ Squared(ys)[k] = Squared(xs)[k]
  BY SequenceGrows
<1>2. Total(xs, n) \in Int /\ Total(Squared(xs), n) \in Int
  BY <1>1, TotalIsInt
<1>3. Total(ys, n + 1) = Total(xs, n) + ys[n + 1]
  BY <1>1, TotalGrows
<1>4. Total(Squared(ys), n + 1) = Total(Squared(xs), n) + Squared(ys)[n + 1]
  BY <1>1, TotalGrows
<1> QED
  BY <1>1, <1>2, <1>3, <1>4

\* Welford's update keeps the moments, also of the first price.
LEMMA SampleUpdate ==
  ASSUME NEW xs, NEW n \in Nat, NEW x \in Int, NEW ys, OneMore(xs, n, x, ys),
         NEW S \in Int, NEW M, NEW R, SampleMoments(xs, S, M, R), Divides(n + 1, S)
  PROVE  \E q \in Int : /\ (S * x - M) \div (n + 1) = q
                        /\ SampleMoments(ys, S, M + q, R + (S * x - M) * (S * x - (M + q)))
<1>2. Len(xs) = n /\ Len(ys) = n + 1
  BY SequenceGrows DEF OneMore
<1>3. PICK A, Q \in Int : A = Total(xs, n) /\ Q = Total(Squared(xs), n)
  BY TotalsGrow
<1>4. Total(ys, n + 1) = A + x /\ Total(Squared(ys), n + 1) = Q + x * x
  BY <1>3, TotalsGrow
<1>5. M \in Int /\ R \in Int /\ n * M = S * A /\ R = S * S * Q - n * (M * M)
  BY <1>2, <1>3 DEF SampleMoments, IsMean, AreSquares
<1>6. PICK q \in Int : (S * x - M) \div (n + 1) = q /\ (n + 1) * (M + q) = S * (A + x)
  <2>1. IsMean(M, S, n, A)
    BY <1>5 DEF IsMean
  <2>2. PICK q \in Int : (S * x - M) \div (n + 1) = q /\ IsMean(M + q, S, n + 1, A + x)
    BY <1>3, <2>1, MeanStep, Zenon
  <2> QED
    BY <2>2 DEF IsMean
<1>7. PICK N1 \in Int : N1 = M + q
  BY <1>5
<1>8. PICK X, T \in Int : X = S * x /\ T = S * S * Q
  OBVIOUS
<1>9. (n + 1) * N1 = n * M + X
  <2>1. S * (A + x) = S * A + S * x /\ S * A \in Int
    OBVIOUS
  <2> QED
    BY <1>5, <1>6, <1>7, <1>8, <2>1
<1>10. (T - n * (M * M)) + (X - M) * (X - N1) = (T + X * X) - (n + 1) * (N1 * N1)
  BY <1>5, <1>9, SquaresStep
<1>11. T + X * X = S * S * (Q + x * x)
  <2>1. S * S * (Q + x * x) = S * S * Q + (S * x) * (S * x)
    OBVIOUS
  <2> QED
    BY <1>8, <2>1
<1>12. R + (X - M) * (X - N1) \in Int
  BY <1>5
<1>13. R + (X - M) * (X - N1) = S * S * (Q + x * x) - (n + 1) * (N1 * N1)
  BY <1>5, <1>8, <1>10, <1>11
<1>14. SampleMoments(ys, S, N1, R + (X - M) * (X - N1))
  BY <1>2, <1>4, <1>6, <1>7, <1>12, <1>13 DEF SampleMoments, IsMean, AreSquares
<1> QED
  BY <1>6, <1>7, <1>8, <1>14

\* They are the mean and the squares as the definitions have them.
LEMMA SampleReads ==
  ASSUME NEW xs \in Seq(Int), xs # <<>>, NEW S \in Int, NEW M, NEW R, SampleMoments(xs, S, M, R)
  PROVE  M = MeanOf(xs, S) /\ R = SquaresOf(xs, S)
<1>1. PICK n \in Nat \ {0} : n = Len(xs) /\ DOMAIN xs = 1 .. n
  OBVIOUS
<1>2. PICK ones : ones = [k \in 1 .. n |-> 1]
  OBVIOUS
<1>3. PICK d : d = [k \in DOMAIN xs |-> Square(S * xs[k] - M)]
  OBVIOUS
<1>4. \A k \in 1 .. n : xs[k] \in Int
  BY <1>1
<1>5. M \in Int /\ n * M = S * Total(xs, n) /\ R = S * S * Total(Squared(xs), n) - n * (M * M)
  BY <1>1 DEF SampleMoments, IsMean, AreSquares
<1>6. Total(ones, n) = n
  <2> DEFINE T == {m \in Nat : m <= n => Total(ones, m) = m}
  <2>1. 0 \in T
    BY TotalOfNone
  <2>2. ASSUME NEW m \in Nat, m \in T PROVE m + 1 \in T
    <3>1. Total(ones, m + 1) = Total(ones, m) + ones[m + 1]
      BY TotalGrows
    <3>2. m + 1 <= n => ones[m + 1] = 1
      BY <1>2
    <3> QED
      BY <2>2, <3>1, <3>2
  <2>3. Nat \subseteq T
    BY <2>1, <2>2, AllNaturals
  <2> QED
    BY <2>3
<1>7. ASSUME NEW k \in 1 .. n
      PROVE  /\ ones[k] \in Int /\ xs[k] \in Int
             /\ xs[k] = ones[k] * xs[k] /\ Squared(xs)[k] = ones[k] * Square(xs[k])
             /\ d[k] = ones[k] * Square(S * xs[k] - M)
  <2>1. ones[k] = 1 /\ xs[k] \in Int /\ d[k] = Square(S * xs[k] - M) /\ Squared(xs)[k] = Square(xs[k])
    BY <1>1, <1>2, <1>3, <1>4 DEF Squared
  <2>2. Square(xs[k]) \in Int /\ Square(S * xs[k] - M) \in Int
    BY <1>5, <2>1, SMTT(30) DEF Square
  <2> QED
    BY <2>1, <2>2
<1>7a. Deviations(ones, xs, xs, Squared(xs), d, S, M, n)
  BY <1>7 DEF Deviations
<1>8. /\ Total(d, n) = S * S * Total(Squared(xs), n) - n * (M * M)
      /\ Total(xs, n) \in Int
  <2>1. M \in Int /\ n \in Int /\ n * M = S * Total(xs, n)
    BY <1>5
  <2> QED
    BY <1>6, <1>7a, <2>1, SquaresAbout
<1>9. MeanOf(xs, S) = M
  <2>1. S * Total(xs, n) \in Int
    BY <1>8
  <2>2. (S * Total(xs, n)) \div n = M
    BY <1>5, <2>1, ExactQuotient
  <2> QED
    BY <1>1, <2>2 DEF MeanOf
<1>10. SquaresOf(xs, S) = Total(d, n)
  BY <1>1, <1>3, <1>9 DEF SquaresOf
<1> QED
  BY <1>5, <1>8, <1>9, <1>10

\* The first price has all the weight.
LEMMA DecayedFirst ==
  ASSUME NEW xs, NEW x, NEW ys, OneMore(xs, 0, x, ys), NEW a \in Int, NEW b \in Nat \ {0}, NEW S \in Int
  PROVE  DecayedMoment(ys, S, a, b, S * x) /\ DecayedSpread(ys, S, a, b, S * x, 0)
<1>1. Len(ys) = 1 /\ ys[1] = x /\ Squared(ys)[1] = x * x /\ x \in Int
  <2>1. \A m : OneMore(xs, m, x, ys) => Len(ys) = m + 1 /\ ys[m + 1] = x /\ Squared(ys)[m + 1] = x * x
    BY SequenceGrows
  <2>2. Len(ys) = 0 + 1 /\ ys[0 + 1] = x /\ Squared(ys)[0 + 1] = x * x
    BY <2>1
  <2> QED
    BY <2>2 DEF OneMore
<1>2. Power(b, 1 - 1) = 1
  BY PowerGrows
<1>3. DecayedSum(ys, 1, a, b) = x /\ DecayedSum(Squared(ys), 1, a, b) = x * x
  BY <1>1, DecayedSumOfOne
<1>4. S * x \in Int /\ 1 * (S * x) = S * x /\ 1 * 0 = S * S * (x * x) - 1 * ((S * x) * (S * x))
  BY <1>1
<1> QED
  BY <1>1, <1>2, <1>3, <1>4 DEF DecayedMoment, DecayedSpread, IsMean, IsSpread

\* Powers of a positive number are positive.
LEMMA PositivePowers ==
  ASSUME NEW b \in Nat \ {0}
  PROVE  \A n \in Nat : Power(b, n) \in Nat \ {0}
<1>1. \A x, y \in Nat \ {0} : x * y \in Nat \ {0}
  <2> TAKE x, y \in Nat \ {0}
  <2>1. x * y >= x
    BY Multiples
  <2> QED
    BY <2>1
<1>2. b \in Nat \ {0} /\ 1 \in Nat \ {0}
  OBVIOUS
<1> QED
  BY <1>1, <1>2, PowerIsInt, Zenon

\* One more price: its decayed mean and spread.
LEMMA DecayedUpdate ==
  ASSUME NEW xs, NEW n \in Nat \ {0}, NEW x, NEW ys, OneMore(xs, n, x, ys),
         NEW a \in Int, NEW b \in Nat \ {0}, NEW S \in Int, Divides(Power(b, n), S), NEW M,
         DecayedMoment(xs, S, a, b, M)
  PROVE  /\ \E N1 : Follows(N1, S, a, b, M, x) /\ DecayedMoment(ys, S, a, b, N1)
         /\ \A v, N1 : DecayedSpread(xs, S, a, b, M, v) /\ Follows(N1, S, a, b, M, x) =>
               \E q \in Int : /\ (b - a) * (b * v + a * ((S * x - M) * (S * x - M))) = (b * b) * q
                              /\ DecayedSpread(ys, S, a, b, N1, q)
<1>1. /\ Len(xs) = n /\ Len(ys) = n + 1 /\ x \in Int
      /\ ys[n + 1] = x /\ \A k \in 1 .. n : xs[k] \in Int /\ ys[k] = xs[k]
      /\ Squared(ys)[n + 1] = x * x
      /\ \A k \in 1 .. n : Squared(xs)[k] \in Int /\ Squared(ys)[k] = Squared(xs)[k]
  <2>1. Len(xs) = n /\ x \in Int
    BY DEF OneMore
  <2>2. /\ Len(ys) = n + 1
        /\ ys[n + 1] = x /\ \A k \in 1 .. n : xs[k] \in Int /\ ys[k] = xs[k]
        /\ Squared(ys)[n + 1] = x * x
        /\ \A k \in 1 .. n : Squared(xs)[k] \in Int /\ Squared(ys)[k] = Squared(xs)[k]
    BY SequenceGrows
  <2> QED
    BY <2>1, <2>2
<1>1a. x \in Int
  BY <1>1
<1>1b. Continues(ys, xs, n) /\ Continues(Squared(ys), Squared(xs), n)
  BY <1>1 DEF Continues
<1>2. PICK P \in Nat \ {0} : P = Power(b, n - 1)
  BY PositivePowers
<1>3. Power(b, n) = b * P /\ n + 1 - 1 = n
  <2>1. n - 1 \in Nat /\ n - 1 + 1 = n
    OBVIOUS
  <2>2. Power(b, n - 1 + 1) = b * Power(b, n - 1)
    BY <2>1, PowerGrows
  <2> QED
    BY <1>2, <2>1, <2>2
<1>4. Divides(b * P, S)
  BY <1>3
<1>5. PICK W \in Int : W = DecayedSum(xs, n, a, b) /\ DecayedSum(ys, n + 1, a, b) = (b - a) * W + a * P * x
  <2>1. /\ DecayedSum(xs, n, a, b) \in Int
        /\ DecayedSum(ys, n + 1, a, b) = (b - a) * DecayedSum(xs, n, a, b) + a * Power(b, n - 1) * ys[n + 1]
    BY <1>1b, DecayedSumGrows
  <2> QED
    BY <1>1, <1>2, <2>1
<1>6. PICK V \in Int : /\ V = DecayedSum(Squared(xs), n, a, b)
                       /\ DecayedSum(Squared(ys), n + 1, a, b) = (b - a) * V + a * P * (x * x)
  <2>1. /\ DecayedSum(Squared(xs), n, a, b) \in Int
        /\ DecayedSum(Squared(ys), n + 1, a, b)
              = (b - a) * DecayedSum(Squared(xs), n, a, b) + a * Power(b, n - 1) * Squared(ys)[n + 1]
    BY <1>1b, DecayedSumGrows
  <2> QED
    BY <1>1, <1>2, <2>1
<1>7. IsMean(M, S, P, W) /\ M \in Int
  BY <1>1, <1>2, <1>5 DEF DecayedMoment, IsMean
<1>8. \E N1 : Follows(N1, S, a, b, M, x) /\ DecayedMoment(ys, S, a, b, N1)
  <2>1. PICK N1 : Follows(N1, S, a, b, M, x) /\ IsMean(N1, S, b * P, (b - a) * W + a * P * x)
    BY <1>1, <1>4, <1>7, DecayedMeanStep
  <2>2. DecayedMoment(ys, S, a, b, N1)
    BY <1>1, <1>3, <1>5, <2>1 DEF DecayedMoment
  <2> QED
    BY <2>1, <2>2
<1>9. ASSUME NEW v, NEW N1, DecayedSpread(xs, S, a, b, M, v), Follows(N1, S, a, b, M, x)
      PROVE  \E q \in Int : /\ (b - a) * (b * v + a * ((S * x - M) * (S * x - M))) = (b * b) * q
                            /\ DecayedSpread(ys, S, a, b, N1, q)
  <2>1. IsSpread(v, S, P, V, M)
    BY <1>1, <1>2, <1>6, <1>9 DEF DecayedSpread
  <2>2. PICK q \in Int : /\ (b - a) * (b * v + a * ((S * x - M) * (S * x - M))) = (b * b) * q
                         /\ IsSpread(q, S, b * P, (b - a) * V + a * P * (x * x), N1)
    BY <1>1a, <1>4, <1>7, <1>9, <2>1, DecayedSquaresStep
  <2>3. DecayedSpread(ys, S, a, b, N1, q)
    BY <1>1, <1>3, <1>6, <2>2 DEF DecayedSpread
  <2> QED
    BY <2>2, <2>3
<1> QED
  BY <1>8, <1>9, Zenon

\* They are the decayed mean and the decayed squares as the definitions have them.
LEMMA DecayedReads ==
  ASSUME NEW xs \in Seq(Int), xs # <<>>, NEW S \in Int, NEW a \in Int, NEW b \in Nat \ {0}, NEW M,
         Divides(Power(b, Len(xs) - 1), S), DecayedMoment(xs, S, a, b, M)
  PROVE  /\ M = DecayedMean(xs, S, a, b)
         /\ \A v : DecayedSpread(xs, S, a, b, M, v) => v = DecayedSquares(xs, S, a, b)
<1>1. PICK n \in Nat \ {0} : n = Len(xs) /\ DOMAIN xs = 1 .. n
  OBVIOUS
<1>2. \A k \in 1 .. n : xs[k] \in Int
  BY <1>1
<1>3. PICK w : w = [k \in 1 .. n |-> Decay(k, n, a, b)]
  OBVIOUS
<1>4. PICK f : f = [k \in 1 .. n |-> Decay(k, n, a, b) * xs[k]]
  OBVIOUS
<1>5. PICK q : q = [k \in 1 .. n |-> Decay(k, n, a, b) * Squared(xs)[k]]
  OBVIOUS
<1>6. PICK d : d = [k \in 1 .. n |-> Decay(k, n, a, b) * Square(S * xs[k] - M)]
  OBVIOUS
<1>7. PICK P \in Nat \ {0} : P = Power(b, n - 1)
  BY PositivePowers
<1>8. M \in Int /\ P * M = S * Total(f, n)
  BY <1>1, <1>4, <1>7 DEF DecayedMoment, IsMean, DecayedSum
<1>9. \A k \in 1 .. n : Decay(k, n, a, b) \in Int
  BY DecayIsInt
<1>10. Deviations(w, xs, f, q, d, S, M, n)
  <2> SUFFICES ASSUME NEW k \in 1 .. n
               PROVE  /\ w[k] \in Int /\ xs[k] \in Int
                      /\ f[k] = w[k] * xs[k] /\ q[k] = w[k] * Square(xs[k])
                      /\ d[k] = w[k] * Square(S * xs[k] - M)
    BY DEF Deviations
  <2>1. w[k] = Decay(k, n, a, b) /\ w[k] \in Int
    BY <1>3, <1>9
  <2>2. f[k] = w[k] * xs[k]
    BY <1>4, <2>1
  <2>3. q[k] = w[k] * Square(xs[k])
    BY <1>1, <1>5, <2>1 DEF Squared
  <2>4. d[k] = w[k] * Square(S * xs[k] - M)
    BY <1>6, <2>1
  <2> QED
    BY <1>2, <2>1, <2>2, <2>3, <2>4
<1>11. Total(w, n) = P
  BY <1>3, <1>7, WeightsAddUp
<1>12. /\ Total(d, n) = S * S * Total(q, n) - P * (M * M)
       /\ Total(f, n) \in Int
  <2>1. P \in Int
    OBVIOUS
  <2> QED
    BY <1>8, <1>10, <1>11, <2>1, SquaresAbout
<1>13. M = DecayedMean(xs, S, a, b)
  <2>1. PICK c \in Int : S = P * c
    BY <1>1, <1>7, Quotients
  <2>2. S \div P = c
    BY <2>1, ExactQuotient
  <2>3. DecayedMean(xs, S, a, b) = Total(f, n) * c
    BY <1>1, <1>4, <1>7, <2>2 DEF DecayedMean
  <2>4. PICK T \in Int : T = Total(f, n)
    BY <1>12
  <2>5. P * M = P * (T * c)
    <3>1. (P * c) * T = P * (T * c)
      BY <2>1, <2>4
    <3> QED
      BY <1>8, <2>1, <2>4, <3>1
  <2>6. T * c \in Int /\ P * M \in Int
    BY <1>8, <2>1, <2>4
  <2>7. (P * M) \div P = T * c /\ (P * M) \div P = M
    BY <1>8, <2>5, <2>6, ExactQuotient
  <2> QED
    BY <2>3, <2>4, <2>7
<1>14. ASSUME NEW v, DecayedSpread(xs, S, a, b, M, v) PROVE v = DecayedSquares(xs, S, a, b)
  <2>1. v \in Int /\ P * v = S * S * Total(q, n) - P * (M * M)
    BY <1>1, <1>5, <1>7, <1>14 DEF DecayedSpread, IsSpread, DecayedSum
  <2>2. P * v = Total(d, n) /\ P * v \in Int
    BY <1>12, <2>1
  <2>3. Total(d, n) \div P = v
    BY <2>1, <2>2, ExactQuotient
  <2>4. DecayedSquares(xs, S, a, b) = Total(d, n) \div P
    BY <1>1, <1>6, <1>7, <1>13 DEF DecayedSquares
  <2> QED
    BY <2>3, <2>4
<1> QED
  BY <1>13, <1>14

\* A scale for n prices fits every sequence of up to n.
LEMMA ScaleReaches ==
  ASSUME NEW S, NEW b, NEW n \in Nat, Scales(S, b, n), NEW xs \in Seq(Int), xs # <<>>, Len(xs) <= n
  PROVE  Divides(Power(b, Len(xs) - 1), S)
<1>1. Len(xs) - 1 \in 0 .. n - 1
  OBVIOUS
<1> QED
  BY <1>1 DEF Scales

\* The two forms in which the programs write the next mean.
LEMMA FollowingMean ==
  ASSUME NEW a \in Int, NEW b \in Nat \ {0}, NEW S \in Int, NEW M \in Int, NEW x \in Int,
         NEW N1, Follows(N1, S, a, b, M, x)
  PROVE  /\ (a * (S * x) + (b - a) * M) \div b = N1
         /\ M + (a * (S * x - M)) \div b = N1
<1>1. N1 \in Int /\ b * N1 = a * (S * x) + (b - a) * M
  BY DEF Follows
<1>2. (a * (S * x) + (b - a) * M) \div b = N1
  <2>1. a * (S * x) + (b - a) * M \in Int
    OBVIOUS
  <2> QED
    BY <1>1, <2>1, ExactQuotient
<1>3. a * (S * x - M) = b * (N1 - M)
  <2>1. a * (S * x - M) = a * (S * x) - a * M /\ (b - a) * M = b * M - a * M /\ b * (N1 - M) = b * N1 - b * M
    BY <1>1
  <2>2. a * (S * x) \in Int /\ a * M \in Int /\ b * M \in Int
    OBVIOUS
  <2> QED
    BY <1>1, <2>1, <2>2
<1>4. (a * (S * x - M)) \div b = N1 - M
  <2>1. a * (S * x - M) \in Int /\ N1 - M \in Int
    BY <1>1
  <2> QED
    BY <1>3, <2>1, ExactQuotient
<1> QED
  BY <1>1, <1>2, <1>4

-----------------------------------------------------------------------------
(* OnlineStats                                                             *)

StatsInv ==
    /\ samples \in Seq(Int) /\ Len(samples) <= NUM_TICKS
    /\ welford.n = Len(samples)
    /\ SampleMoments(samples, STATS_SCALE, welford.mean, welford.m2)
    /\ ewma.init <=> samples # <<>>
    /\ samples # <<>> =>
          /\ DecayedMoment(samples, STATS_SCALE, ALPHA_N, ALPHA_D, ewma.mean)
          /\ DecayedSpread(samples, STATS_SCALE, ALPHA_N, ALPHA_D, ewma.mean, ewma.var)

\* Both objects begin without prices.
LEMMA StatsStarts == ASSUME StatsInit PROVE StatsInv
<1>1. /\ samples = <<>> /\ Len(samples) = 0 /\ samples \in Seq(Int)
      /\ welford.n = 0 /\ welford.mean = 0 /\ welford.m2 = 0 /\ ewma.init = FALSE
  BY DEF StatsInit
<1>2. Total(samples, 0) = 0 /\ Total(Squared(samples), 0) = 0
  BY TotalOfNone
<1>3. NUM_TICKS >= 0 /\ STATS_SCALE \in Int
  BY StatsAssumption
<1>4. SampleMoments(samples, STATS_SCALE, 0, 0)
  <2>1. 0 * 0 = STATS_SCALE * 0 /\ 0 = STATS_SCALE * STATS_SCALE * 0 - 0 * (0 * 0) /\ 0 \in Int
    BY <1>3
  <2> QED
    BY <1>1, <1>2, <2>1 DEF SampleMoments, IsMean, AreSquares
<1> QED
  BY <1>1, <1>2, <1>3, <1>4 DEF StatsInv

\* update of both objects: each keeps its moments of one price more.
LEMMA StatsKept == ASSUME StatsInv, [StatsNext]_statsVars PROVE StatsInv'
<1>1. CASE UNCHANGED statsVars
  BY <1>1 DEF statsVars, StatsInv
<1>2. CASE StatsUpdate
  <2>0. /\ NUM_TICKS \in Nat /\ SampleValues \subseteq Int
        /\ ALPHA_N \in Int /\ ALPHA_D \in Nat \ {0} /\ STATS_SCALE \in Int
        /\ \A k \in 1 .. NUM_TICKS : Divides(k, STATS_SCALE)
        /\ \A k \in 0 .. NUM_TICKS - 1 : Divides(Power(ALPHA_D, k), STATS_SCALE)
    BY StatsAssumption DEF Scales
  <2>1. PICK x \in SampleValues : /\ welford' = WelfordUpdate(x) /\ ewma' = EwmaUpdate(x)
                                  /\ samples' = Append(samples, x)
    BY <1>2 DEF StatsUpdate
  <2>2. PICK n \in Nat : n = Len(samples) /\ n < NUM_TICKS
    BY <1>2 DEF StatsUpdate, StatsInv
  <2>3. x \in Int /\ OneMore(samples, n, x, samples')
    BY <2>0, <2>1, <2>2 DEF StatsInv, OneMore
  <2>4. Divides(n + 1, STATS_SCALE) /\ Divides(Power(ALPHA_D, n), STATS_SCALE)
    BY <2>0, <2>2
  <2>5. samples' \in Seq(Int) /\ Len(samples') = n + 1 /\ n + 1 <= NUM_TICKS /\ samples' # <<>>
    <3>1. samples' \in Seq(Int) /\ Len(samples') = n + 1
      BY <2>3, SequenceGrows
    <3> QED
      BY <2>0, <2>2, <3>1
  <2>6. welford'.n = n + 1 /\ SampleMoments(samples', STATS_SCALE, welford'.mean, welford'.m2)
    <3>1. PICK M, R : M = welford.mean /\ R = welford.m2
      OBVIOUS
    <3>2. SampleMoments(samples, STATS_SCALE, M, R) /\ welford.n = n
      BY <2>2, <3>1 DEF StatsInv
    <3>3. PICK q \in Int :
             /\ (STATS_SCALE * x - M) \div (n + 1) = q
             /\ SampleMoments(samples', STATS_SCALE, M + q,
                              R + (STATS_SCALE * x - M) * (STATS_SCALE * x - (M + q)))
      BY <2>0, <2>3, <2>4, <3>2, SampleUpdate
    <3>4. /\ welford'.n = n + 1 /\ welford'.mean = M + q
          /\ welford'.m2 = R + (STATS_SCALE * x - M) * (STATS_SCALE * x - (M + q))
      BY <2>1, <3>1, <3>2, <3>3 DEF WelfordUpdate
    <3> QED
      BY <3>3, <3>4
  <2>7. /\ ewma'.init = TRUE
        /\ DecayedMoment(samples', STATS_SCALE, ALPHA_N, ALPHA_D, ewma'.mean)
        /\ DecayedSpread(samples', STATS_SCALE, ALPHA_N, ALPHA_D, ewma'.mean, ewma'.var)
    <3>1. CASE n = 0
      <4>1. samples = <<>> /\ ~ewma.init
        <5>1. samples \in Seq(Int) /\ Len(samples) = 0
          BY <2>2, <3>1 DEF StatsInv
        <5>2. samples = <<>>
          BY <5>1
        <5> QED
          BY <5>2 DEF StatsInv
      <4>2. ewma'.init = TRUE /\ ewma'.mean = STATS_SCALE * x /\ ewma'.var = 0
        BY <2>1, <4>1 DEF EwmaUpdate
      <4>3. OneMore(samples, 0, x, samples')
        BY <2>3, <3>1
      <4>4. /\ DecayedMoment(samples', STATS_SCALE, ALPHA_N, ALPHA_D, STATS_SCALE * x)
            /\ DecayedSpread(samples', STATS_SCALE, ALPHA_N, ALPHA_D, STATS_SCALE * x, 0)
        BY <2>0, <4>3, DecayedFirst
      <4> QED
        BY <4>2, <4>4
    <3>2. CASE n # 0
      <4>1. PICK M, v : M = ewma.mean /\ v = ewma.var
        OBVIOUS
      <4>2. /\ n \in Nat \ {0} /\ ewma.init
            /\ DecayedMoment(samples, STATS_SCALE, ALPHA_N, ALPHA_D, M)
            /\ DecayedSpread(samples, STATS_SCALE, ALPHA_N, ALPHA_D, M, v)
        <5>1. samples # <<>>
          BY <2>2, <3>2
        <5> QED
          BY <3>2, <4>1, <5>1 DEF StatsInv
      <4>3. M \in Int /\ v \in Int
        BY <4>2 DEF DecayedMoment, DecayedSpread, IsMean, IsSpread
      <4>4. PICK N1 : /\ Follows(N1, STATS_SCALE, ALPHA_N, ALPHA_D, M, x)
                      /\ DecayedMoment(samples', STATS_SCALE, ALPHA_N, ALPHA_D, N1)
        BY <2>0, <2>3, <2>4, <4>2, DecayedUpdate
      <4>5. PICK q \in Int :
               /\ (ALPHA_D - ALPHA_N) * (ALPHA_D * v + ALPHA_N * ((STATS_SCALE * x - M) * (STATS_SCALE * x - M)))
                     = (ALPHA_D * ALPHA_D) * q
               /\ DecayedSpread(samples', STATS_SCALE, ALPHA_N, ALPHA_D, N1, q)
        BY <2>0, <2>3, <2>4, <4>2, <4>4, DecayedUpdate
      <4>6. (ALPHA_N * (STATS_SCALE * x) + (ALPHA_D - ALPHA_N) * M) \div ALPHA_D = N1
        BY <2>0, <2>3, <4>3, <4>4, FollowingMean
      <4>7. ((ALPHA_D - ALPHA_N) * (ALPHA_D * v + ALPHA_N * ((STATS_SCALE * x - M) * (STATS_SCALE * x - M))))
               \div (ALPHA_D * ALPHA_D) = q
        <5>1. ALPHA_D * ALPHA_D \in Nat \ {0}
          <6>1. ALPHA_D * ALPHA_D >= ALPHA_D
            BY <2>0, Multiples
          <6> QED
            BY <2>0, <6>1
        <5>2. (ALPHA_D - ALPHA_N) * (ALPHA_D * v + ALPHA_N * ((STATS_SCALE * x - M) * (STATS_SCALE * x - M))) \in Int
          BY <2>0, <2>3, <4>3
        <5> QED
          BY <4>5, <5>1, <5>2, ExactQuotient
      <4>8. ewma'.init = TRUE /\ ewma'.mean = N1 /\ ewma'.var = q
        BY <2>1, <4>1, <4>2, <4>6, <4>7 DEF EwmaUpdate
      <4> QED
        BY <4>4, <4>5, <4>8
    <3> QED
      BY <3>1, <3>2
  <2> QED
    BY <2>5, <2>6, <2>7 DEF StatsInv
<1> QED
  BY <1>1, <1>2 DEF StatsNext, StatsReported

\* What both objects hold is what the definitions give.
LEMMA StatsRead == StatsInv => StatsExact
<1> SUFFICES ASSUME StatsInv, samples # <<>>
             PROVE  /\ welford.mean = MeanOf(samples, STATS_SCALE)
                    /\ welford.m2 = SquaresOf(samples, STATS_SCALE)
                    /\ ewma.mean = DecayedMean(samples, STATS_SCALE, ALPHA_N, ALPHA_D)
                    /\ ewma.var = DecayedSquares(samples, STATS_SCALE, ALPHA_N, ALPHA_D)
  BY DEF StatsExact
<1>1. /\ NUM_TICKS \in Nat /\ ALPHA_N \in Int /\ ALPHA_D \in Nat \ {0} /\ STATS_SCALE \in Int
      /\ Scales(STATS_SCALE, ALPHA_D, NUM_TICKS)
  BY StatsAssumption
<1>2. samples \in Seq(Int) /\ samples # <<>> /\ Len(samples) <= NUM_TICKS
  BY DEF StatsInv
<1>3. SampleMoments(samples, STATS_SCALE, welford.mean, welford.m2)
  BY DEF StatsInv
<1>4. welford.mean = MeanOf(samples, STATS_SCALE) /\ welford.m2 = SquaresOf(samples, STATS_SCALE)
  BY <1>1, <1>2, <1>3, SampleReads
<1>5. /\ DecayedMoment(samples, STATS_SCALE, ALPHA_N, ALPHA_D, ewma.mean)
      /\ DecayedSpread(samples, STATS_SCALE, ALPHA_N, ALPHA_D, ewma.mean, ewma.var)
  BY <1>2 DEF StatsInv
<1>6. Divides(Power(ALPHA_D, Len(samples) - 1), STATS_SCALE)
  BY <1>1, <1>2, ScaleReaches
<1> QED
  BY <1>1, <1>2, <1>4, <1>5, <1>6, DecayedReads

\* The update functions of day22: the recurrences hold what the definitions give for the
\* whole sequence of prices.
THEOREM RunningMomentsExact == StatsSpec => []StatsExact
<1>1. StatsInit => StatsInv
  BY StatsStarts
<1>2. StatsInv /\ [StatsNext]_statsVars => StatsInv'
  BY StatsKept
<1>3. StatsInv => StatsExact
  BY StatsRead
<1> QED
  BY <1>1, <1>2, <1>3, PTL DEF StatsSpec

-----------------------------------------------------------------------------
(* SimdPipeline                                                            *)

\* What either function does to a lane.
LaneMoves(l, prices) ==
    LET scaled == SIMD_SCALE * prices[l]
    IN /\ p_n'[l] = p_n[l] + 1
       /\ p_mean'[l] = p_mean[l] + (scaled - p_mean[l]) \div (p_n[l] + 1)
       /\ p_m2'[l] = p_m2[l] + (scaled - p_mean[l]) * (scaled - p_mean'[l])
       /\ ema_fast'[l] = ema_fast[l] + (FAST_N * (scaled - ema_fast[l])) \div FAST_M
       /\ ema_slow'[l] = ema_slow[l] + (SLOW_N * (scaled - ema_slow[l])) \div SLOW_M
LanesMove(prices) == \A l \in Lanes : LaneMoves(l, prices)

\* The vector operations do so, one on top of the other.
LEMMA VectorsMove == ASSUME NEW prices, update_simd(prices) PROVE LanesMove(prices)
<1> SUFFICES ASSUME NEW l \in Lanes PROVE LaneMoves(l, prices)
  BY DEF LanesMove
<1>1. /\ \A v, w : /\ Add(v, w)[l] = v[l] + w[l] /\ Sub(v, w)[l] = v[l] - w[l]
                   /\ Mul(v, w)[l] = v[l] * w[l] /\ Div(v, w)[l] = v[l] \div w[l]
      /\ \A x : Set1(x)[l] = x
  BY DEF Add, Sub, Mul, Div, Set1
<1>2. p_n' = Add(p_n, Set1(1))
  BY DEF update_simd
<1>3. p_mean' = Add(p_mean, Div(Sub(Mul(Set1(SIMD_SCALE), prices), p_mean), Add(p_n, Set1(1))))
  BY DEF update_simd
<1>4. p_m2' = Add(p_m2, Mul(Sub(Mul(Set1(SIMD_SCALE), prices), p_mean),
                            Sub(Mul(Set1(SIMD_SCALE), prices), p_mean')))
  BY <1>3 DEF update_simd
<1>5. ema_fast' = Add(ema_fast, Div(Mul(Set1(FAST_N), Sub(Mul(Set1(SIMD_SCALE), prices), ema_fast)),
                                    Set1(FAST_M)))
  BY DEF update_simd
<1>6. ema_slow' = Add(ema_slow, Div(Mul(Set1(SLOW_N), Sub(Mul(Set1(SIMD_SCALE), prices), ema_slow)),
                                    Set1(SLOW_M)))
  BY DEF update_simd
<1> HIDE DEF Add, Sub, Mul, Div, Set1
<1>7. p_n'[l] = p_n[l] + 1
  BY <1>1, <1>2
<1>8. p_mean'[l] = p_mean[l] + (SIMD_SCALE * prices[l] - p_mean[l]) \div (p_n[l] + 1)
  BY <1>1, <1>3
<1>9. p_m2'[l] = p_m2[l] + (SIMD_SCALE * prices[l] - p_mean[l])
                               * (SIMD_SCALE * prices[l] - p_mean'[l])
  BY <1>1, <1>4
<1>10. ema_fast'[l] = ema_fast[l] + (FAST_N * (SIMD_SCALE * prices[l] - ema_fast[l])) \div FAST_M
  BY <1>1, <1>5
<1>11. ema_slow'[l] = ema_slow[l] + (SLOW_N * (SIMD_SCALE * prices[l] - ema_slow[l])) \div SLOW_M
  BY <1>1, <1>6
<1> QED
  BY <1>7, <1>8, <1>9, <1>10, <1>11 DEF LaneMoves

\* So does the loop over the symbols.
LEMMA SymbolsMove == ASSUME NEW prices, update_scalar(prices) PROVE LanesMove(prices)
  BY DEF update_scalar, LanesMove, LaneMoves

\* The inductive invariant: the state of every lane is that of the prices fed to it.
LaneHolds(l) ==
    /\ fed[l] \in Seq(Int) /\ Len(fed[l]) = updates + 1 /\ p_n[l] = updates + 1
    /\ SampleMoments(fed[l], SIMD_SCALE, p_mean[l], p_m2[l])
    /\ DecayedMoment(fed[l], SIMD_SCALE, FAST_N, FAST_M, ema_fast[l])
    /\ DecayedMoment(fed[l], SIMD_SCALE, SLOW_N, SLOW_M, ema_slow[l])
SimdInv == /\ updates \in Nat /\ updates <= Updates
           /\ p_prices \in [Lanes -> Int]
           /\ \A l \in Lanes : LaneHolds(l)

\* Every lane begins with init_price as its only price.
LEMMA LanesStart == ASSUME SimdInit PROVE SimdInv
<1>0. /\ SIMD_TICKS \in Nat /\ InitPrice \in Int /\ Garbage \subseteq Int /\ SIMD_SCALE \in Int
      /\ FAST_N \in Int /\ FAST_M \in Nat \ {0} /\ SLOW_N \in Int /\ SLOW_M \in Nat \ {0}
  BY SimdAssumption
<1>1. updates \in Nat /\ updates <= Updates /\ p_prices \in [Lanes -> Int]
  <2>1. updates = 0 /\ p_prices \in [Lanes -> Garbage]
    BY DEF SimdInit
  <2>2. Updates >= 0
    BY <1>0 DEF Updates
  <2>3. p_prices \in [Lanes -> Int]
    BY <1>0, <2>1
  <2> QED
    BY <2>1, <2>2, <2>3
<1>2. ASSUME NEW l \in Lanes PROVE LaneHolds(l)
  <2>1. /\ fed[l] = <<InitPrice>> /\ p_n[l] = 1 /\ updates = 0
        /\ p_mean[l] = SIMD_SCALE * InitPrice /\ p_m2[l] = 0
        /\ ema_fast[l] = SIMD_SCALE * InitPrice /\ ema_slow[l] = SIMD_SCALE * InitPrice
    BY DEF SimdInit
  <2>2. PICK e : e = <<>> /\ e \in Seq(Int) /\ Len(e) = 0
    <3>1. <<>> \in Seq(Int) /\ Len(<<>>) = 0
      OBVIOUS
    <3> QED
      BY <3>1, Zenon
  <2>3. OneMore(e, 0, InitPrice, fed[l])
    BY <1>0, <2>1, <2>2 DEF OneMore
  <2>4. fed[l] \in Seq(Int) /\ Len(fed[l]) = 1
    BY <1>0, <2>1
  <2>5. /\ DecayedMoment(fed[l], SIMD_SCALE, FAST_N, FAST_M, SIMD_SCALE * InitPrice)
        /\ DecayedMoment(fed[l], SIMD_SCALE, SLOW_N, SLOW_M, SIMD_SCALE * InitPrice)
    BY <1>0, <2>3, DecayedFirst
  <2>6. SampleMoments(fed[l], SIMD_SCALE, SIMD_SCALE * InitPrice, 0)
    <3>1. \A m \in Nat : OneMore(e, m, InitPrice, fed[l]) =>
              /\ Total(fed[l], m + 1) = Total(e, m) + InitPrice
              /\ Total(Squared(fed[l]), m + 1) = Total(Squared(e), m) + InitPrice * InitPrice
      BY TotalsGrow
    <3>2. /\ Total(fed[l], 0 + 1) = Total(e, 0) + InitPrice
          /\ Total(Squared(fed[l]), 0 + 1) = Total(Squared(e), 0) + InitPrice * InitPrice
      BY <2>3, <3>1
    <3>3. Total(e, 0) = 0 /\ Total(Squared(e), 0) = 0
      BY TotalOfNone
    <3>4. Total(fed[l], 1) = InitPrice /\ Total(Squared(fed[l]), 1) = InitPrice * InitPrice
      BY <1>0, <3>2, <3>3
    <3>5. /\ SIMD_SCALE * InitPrice \in Int /\ 1 * (SIMD_SCALE * InitPrice) = SIMD_SCALE * InitPrice
          /\ 0 = SIMD_SCALE * SIMD_SCALE * (InitPrice * InitPrice)
                   - 1 * ((SIMD_SCALE * InitPrice) * (SIMD_SCALE * InitPrice))
      BY <1>0
    <3> QED
      BY <2>4, <3>4, <3>5 DEF SampleMoments, IsMean, AreSquares
  <2> QED
    BY <2>1, <2>4, <2>5, <2>6 DEF LaneHolds
<1> QED
  BY <1>1, <1>2 DEF SimdInv

\* One call keeps a lane.
LEMMA LaneKept ==
  ASSUME SimdInv, updates < Updates, NEW prices \in [Lanes -> Int], LanesMove(prices), Feed(prices),
         NEW l \in Lanes
  PROVE  LaneHolds(l)'
<1>0. /\ SIMD_SCALE \in Int /\ FAST_N \in Int /\ FAST_M \in Nat \ {0}
      /\ SLOW_N \in Int /\ SLOW_M \in Nat \ {0}
      /\ \A k \in 1 .. Updates + 1 : Divides(k, SIMD_SCALE)
      /\ \A k \in 0 .. Updates : Divides(Power(FAST_M, k), SIMD_SCALE) /\ Divides(Power(SLOW_M, k), SIMD_SCALE)
  <2>1. Updates \in Nat /\ Updates + 1 - 1 = Updates
    BY SimdAssumption DEF Updates
  <2> QED
    BY <2>1, SimdAssumption DEF Scales
<1>1. PICK n \in Nat \ {0} : n = updates + 1
  BY DEF SimdInv
<1>2. PICK x \in Int : x = prices[l]
  OBVIOUS
<1>3. /\ updates' + 1 = n + 1 /\ fed'[l] = Append(fed[l], x)
  BY <1>1, <1>2 DEF Feed
<1>4. LaneHolds(l)
  BY DEF SimdInv
<1>5. OneMore(fed[l], n, x, fed'[l]) /\ p_n[l] = n
  BY <1>1, <1>3, <1>4 DEF LaneHolds, OneMore
<1>6. /\ Divides(n + 1, SIMD_SCALE)
      /\ Divides(Power(FAST_M, n), SIMD_SCALE) /\ Divides(Power(SLOW_M, n), SIMD_SCALE)
  <2>1. Updates \in Nat /\ updates \in Nat
    BY SimdAssumption DEF Updates, SimdInv
  <2>2. n + 1 \in 1 .. Updates + 1 /\ n \in 0 .. Updates
    BY <1>1, <2>1
  <2> QED
    BY <1>0, <2>2
<1>7. PICK M, R, f, s : M = p_mean[l] /\ R = p_m2[l] /\ f = ema_fast[l] /\ s = ema_slow[l]
  OBVIOUS
<1>8. /\ SampleMoments(fed[l], SIMD_SCALE, M, R)
      /\ DecayedMoment(fed[l], SIMD_SCALE, FAST_N, FAST_M, f)
      /\ DecayedMoment(fed[l], SIMD_SCALE, SLOW_N, SLOW_M, s)
  BY <1>4, <1>7 DEF LaneHolds
<1>9. /\ p_n'[l] = n + 1
      /\ p_mean'[l] = M + (SIMD_SCALE * x - M) \div (n + 1)
      /\ p_m2'[l] = R + (SIMD_SCALE * x - M) * (SIMD_SCALE * x - p_mean'[l])
      /\ ema_fast'[l] = f + (FAST_N * (SIMD_SCALE * x - f)) \div FAST_M
      /\ ema_slow'[l] = s + (SLOW_N * (SIMD_SCALE * x - s)) \div SLOW_M
  BY <1>2, <1>5, <1>7 DEF LanesMove, LaneMoves
<1>10. SampleMoments(fed'[l], SIMD_SCALE, p_mean'[l], p_m2'[l])
  <2>1. PICK q \in Int :
           /\ (SIMD_SCALE * x - M) \div (n + 1) = q
           /\ SampleMoments(fed'[l], SIMD_SCALE, M + q,
                            R + (SIMD_SCALE * x - M) * (SIMD_SCALE * x - (M + q)))
    BY <1>0, <1>5, <1>6, <1>8, SampleUpdate
  <2> QED
    BY <1>9, <2>1
<1>11. DecayedMoment(fed'[l], SIMD_SCALE, FAST_N, FAST_M, ema_fast'[l])
  <2>1. PICK N1 : /\ Follows(N1, SIMD_SCALE, FAST_N, FAST_M, f, x)
                  /\ DecayedMoment(fed'[l], SIMD_SCALE, FAST_N, FAST_M, N1)
    BY <1>0, <1>5, <1>6, <1>8, DecayedUpdate
  <2>2. f \in Int
    BY <1>8 DEF DecayedMoment, IsMean
  <2>3. f + (FAST_N * (SIMD_SCALE * x - f)) \div FAST_M = N1
    BY <1>0, <2>1, <2>2, FollowingMean
  <2> QED
    BY <1>9, <2>1, <2>3
<1>12. DecayedMoment(fed'[l], SIMD_SCALE, SLOW_N, SLOW_M, ema_slow'[l])
  <2>1. PICK N1 : /\ Follows(N1, SIMD_SCALE, SLOW_N, SLOW_M, s, x)
                  /\ DecayedMoment(fed'[l], SIMD_SCALE, SLOW_N, SLOW_M, N1)
    BY <1>0, <1>5, <1>6, <1>8, DecayedUpdate
  <2>2. s \in Int
    BY <1>8 DEF DecayedMoment, IsMean
  <2>3. s + (SLOW_N * (SIMD_SCALE * x - s)) \div SLOW_M = N1
    BY <1>0, <2>1, <2>2, FollowingMean
  <2> QED
    BY <1>9, <2>1, <2>3
<1>13. fed'[l] \in Seq(Int) /\ Len(fed'[l]) = n + 1
  BY <1>5, SequenceGrows
<1> QED
  BY <1>3, <1>9, <1>10, <1>11, <1>12, <1>13 DEF LaneHolds

\* One call keeps all lanes.
LEMMA CallKeeps ==
  ASSUME SimdInv, updates < Updates, NEW prices \in [Lanes -> Int], LanesMove(prices), Feed(prices)
  PROVE  SimdInv'
<1>1. \A l \in Lanes : LaneHolds(l)'
  BY LaneKept
<1>2. updates' = updates + 1 /\ p_prices' = prices
  BY DEF Feed
<1>3. updates' \in Nat /\ updates' <= Updates
  <2>1. Updates \in Nat /\ updates \in Nat
    BY SimdAssumption DEF Updates, SimdInv
  <2> QED
    BY <1>2, <2>1
<1> QED
  BY <1>1, <1>2, <1>3 DEF SimdInv

\* Every call of either function, in the warm-up or a benchmark.
LEMMA LanesKept == ASSUME SimdInv, [SimdNext]_simdVars PROVE SimdInv'
<1>1. CASE UNCHANGED simdVars
  BY <1>1 DEF simdVars, SimdInv, LaneHolds
<1>0. SIMD_TICKS \in Nat /\ Moves \subseteq Int /\ updates \in Nat /\ p_prices \in [Lanes -> Int]
      /\ Updates = 2 * SIMD_TICKS + 2
  BY SimdAssumption DEF SimdInv, Updates
<1>2. CASE WarmUp
  <2>1. LanesMove(p_prices) /\ Feed(p_prices) /\ updates \in {0, 1}
    BY <1>2, VectorsMove, SymbolsMove DEF WarmUp
  <2>2. updates < Updates
    BY <1>0, <2>1
  <2> QED
    BY <1>0, <2>1, <2>2, CallKeeps
<1>3. CASE Benchmark
  <2>1. PICK d \in [Lanes -> Moves] :
           \/ /\ updates \in 2 .. SIMD_TICKS + 1
              /\ update_simd(Add(p_prices, d)) /\ Feed(Add(p_prices, d))
           \/ /\ updates \in SIMD_TICKS + 2 .. Updates - 1
              /\ update_scalar(Add(p_prices, d)) /\ Feed(Add(p_prices, d))
    BY <1>3 DEF Benchmark
  <2>2. Add(p_prices, d) \in [Lanes -> Int]
    <3>1. \A l \in Lanes : p_prices[l] + d[l] \in Int
      <4> TAKE l \in Lanes
      <4>1. p_prices[l] \in Int
        BY <1>0, Zenon
      <4>2. d[l] \in Moves
        OBVIOUS
      <4>3. d[l] \in Int
        BY <1>0, <4>2, Zenon
      <4> QED
        BY <4>1, <4>3
    <3> QED
      BY <3>1 DEF Add
  <2>3. LanesMove(Add(p_prices, d)) /\ Feed(Add(p_prices, d))
    BY <2>1, VectorsMove, SymbolsMove
  <2>4. updates < Updates
    BY <1>0, <2>1
  <2> QED
    BY <2>2, <2>3, <2>4, CallKeeps
<1> QED
  BY <1>1, <1>2, <1>3 DEF SimdNext, Ended

\* The state of a lane is what the definitions give for its prices.
LEMMA LanesRead == SimdInv => LanesExact
<1> SUFFICES ASSUME SimdInv, NEW l \in Lanes
             PROVE  /\ p_n[l] = Len(fed[l])
                    /\ p_mean[l] = MeanOf(fed[l], SIMD_SCALE) /\ p_m2[l] = SquaresOf(fed[l], SIMD_SCALE)
                    /\ ema_fast[l] = DecayedMean(fed[l], SIMD_SCALE, FAST_N, FAST_M)
                    /\ ema_slow[l] = DecayedMean(fed[l], SIMD_SCALE, SLOW_N, SLOW_M)
  BY DEF LanesExact
<1>1. /\ SIMD_SCALE \in Int /\ FAST_N \in Int /\ FAST_M \in Nat \ {0}
      /\ SLOW_N \in Int /\ SLOW_M \in Nat \ {0} /\ Updates \in Nat
      /\ Scales(SIMD_SCALE, FAST_M, Updates + 1) /\ Scales(SIMD_SCALE, SLOW_M, Updates + 1)
  BY SimdAssumption DEF Updates
<1>2. LaneHolds(l) /\ updates \in Nat /\ updates <= Updates
  BY DEF SimdInv
<1>3. fed[l] \in Seq(Int) /\ Len(fed[l]) = updates + 1 /\ p_n[l] = updates + 1
  BY <1>2 DEF LaneHolds
<1>4. fed[l] # <<>>
  BY <1>2, <1>3
<1>5. /\ SampleMoments(fed[l], SIMD_SCALE, p_mean[l], p_m2[l])
      /\ DecayedMoment(fed[l], SIMD_SCALE, FAST_N, FAST_M, ema_fast[l])
      /\ DecayedMoment(fed[l], SIMD_SCALE, SLOW_N, SLOW_M, ema_slow[l])
  BY <1>2 DEF LaneHolds
<1>6. p_mean[l] = MeanOf(fed[l], SIMD_SCALE) /\ p_m2[l] = SquaresOf(fed[l], SIMD_SCALE)
  BY <1>1, <1>3, <1>4, <1>5, SampleReads
<1>7. /\ ema_fast[l] = DecayedMean(fed[l], SIMD_SCALE, FAST_N, FAST_M)
      /\ ema_slow[l] = DecayedMean(fed[l], SIMD_SCALE, SLOW_N, SLOW_M)
  <2>1. Len(fed[l]) <= Updates + 1
    BY <1>1, <1>2, <1>3
  <2>2. /\ Divides(Power(FAST_M, Len(fed[l]) - 1), SIMD_SCALE)
        /\ Divides(Power(SLOW_M, Len(fed[l]) - 1), SIMD_SCALE)
    BY <1>1, <1>3, <1>4, <2>1, ScaleReaches
  <2> QED
    BY <1>1, <1>3, <1>4, <1>5, <2>2, DecayedReads
<1> QED
  BY <1>3, <1>6, <1>7

\* update_simd and update_scalar: whichever made which of the updates, every symbol has
\* the averages and the moments of its own prices, the first the one it was made with.
THEOREM LaneMomentsExact == SimdSpec => []LanesExact
<1>1. SimdInit => SimdInv
  BY LanesStart
<1>2. SimdInv /\ [SimdNext]_simdVars => SimdInv'
  BY LanesKept
<1>3. SimdInv => LanesExact
  BY LanesRead
<1> QED
  BY <1>1, <1>2, <1>3, PTL DEF SimdSpec

-----------------------------------------------------------------------------
(* AlphaGenerator: the two averages                                        *)

AveragesInv ==
    /\ ticks \in Seq(Int) /\ Len(ticks) <= ALPHA_TICKS
    /\ init <=> ticks # <<>>
    /\ ticks # <<>> => /\ DecayedMoment(ticks, EMA_SCALE, 2, FAST + 1, fast_ema)
                       /\ DecayedMoment(ticks, EMA_SCALE, 2, SLOW + 1, slow_ema)

\* EMA::update, for an average of any period.
LEMMA AverageKept ==
  ASSUME AveragesInv, NEW n \in Nat, NEW x \in Int, NEW ys, OneMore(ticks, n, x, ys),
         n < ALPHA_TICKS, NEW period \in Nat, Scales(EMA_SCALE, period + 1, ALPHA_TICKS), NEW val,
         ticks # <<>> => DecayedMoment(ticks, EMA_SCALE, 2, period + 1, val)
  PROVE  DecayedMoment(ys, EMA_SCALE, 2, period + 1, Averaged(val, period, x))
<1>0. EMA_SCALE \in Int /\ ALPHA_TICKS \in Nat /\ 2 \in Int /\ period + 1 \in Nat \ {0}
  BY EmaAssumption
<1>1. ticks \in Seq(Int) /\ Len(ticks) = n
  BY DEF OneMore
<1>2. CASE n = 0
  <2>1. ticks = <<>>
    BY <1>1, <1>2
  <2>2. Averaged(val, period, x) = EMA_SCALE * x
    BY <2>1 DEF Averaged, AveragesInv
  <2>3. OneMore(ticks, 0, x, ys)
    BY <1>2
  <2>4. DecayedMoment(ys, EMA_SCALE, 2, period + 1, EMA_SCALE * x)
    BY <1>0, <2>3, DecayedFirst
  <2> QED
    BY <2>2, <2>4
<1>3. CASE n # 0
  <2>1. ticks # <<>> /\ n \in Nat \ {0}
    BY <1>1, <1>3
  <2>2. DecayedMoment(ticks, EMA_SCALE, 2, period + 1, val) /\ init
    BY <2>1 DEF AveragesInv
  <2>3. Divides(Power(period + 1, n), EMA_SCALE)
    <3>1. n \in 0 .. ALPHA_TICKS - 1
      BY <1>0
    <3> QED
      BY <3>1 DEF Scales
  <2>4. PICK N1 : /\ Follows(N1, EMA_SCALE, 2, period + 1, val, x)
                  /\ DecayedMoment(ys, EMA_SCALE, 2, period + 1, N1)
    BY <1>0, <2>1, <2>2, <2>3, DecayedUpdate
  <2>5. val \in Int
    BY <2>2 DEF DecayedMoment, IsMean
  <2>6. (2 * (EMA_SCALE * x) + (period + 1 - 2) * val) \div (period + 1) = N1
    BY <1>0, <2>4, <2>5, FollowingMean
  <2>7. period + 1 - 2 = period - 1
    OBVIOUS
  <2> QED
    BY <2>2, <2>4, <2>6, <2>7 DEF Averaged
<1> QED
  BY <1>2, <1>3

\* A step of main keeps both averages.
LEMMA AveragesKept == ASSUME AveragesInv, [AlphaNext]_alphaVars PROVE AveragesInv'
<1>0. /\ FAST \in Nat /\ SLOW \in Nat /\ ALPHA_TICKS \in Nat
      /\ Scales(EMA_SCALE, FAST + 1, ALPHA_TICKS) /\ Scales(EMA_SCALE, SLOW + 1, ALPHA_TICKS)
      /\ Prices \subseteq Int
  BY EmaAssumption, WindowAssumption
<1>1. CASE UNCHANGED alphaVars
  BY <1>1 DEF alphaVars, AveragesInv
<1>2. ASSUME NEW x \in Prices, NEW volume \in Volumes, Process(x, volume) PROVE AveragesInv'
  <2>1. /\ Len(ticks) < ALPHA_TICKS
        /\ fast_ema' = Averaged(fast_ema, FAST, x) /\ slow_ema' = Averaged(slow_ema, SLOW, x)
        /\ init' = TRUE /\ ticks' = Append(ticks, x)
    BY <1>2 DEF Process
  <2>2. PICK n \in Nat : n = Len(ticks) /\ n < ALPHA_TICKS
    BY <2>1 DEF AveragesInv
  <2>3. x \in Int /\ OneMore(ticks, n, x, ticks')
    BY <1>0, <2>1, <2>2 DEF OneMore, AveragesInv
  <2>4. /\ DecayedMoment(ticks', EMA_SCALE, 2, FAST + 1, fast_ema')
        /\ DecayedMoment(ticks', EMA_SCALE, 2, SLOW + 1, slow_ema')
    <3>1. /\ ticks # <<>> => DecayedMoment(ticks, EMA_SCALE, 2, FAST + 1, fast_ema)
          /\ ticks # <<>> => DecayedMoment(ticks, EMA_SCALE, 2, SLOW + 1, slow_ema)
      BY DEF AveragesInv
    <3>2. DecayedMoment(ticks', EMA_SCALE, 2, FAST + 1, Averaged(fast_ema, FAST, x))
      BY <1>0, <2>2, <2>3, <3>1, AverageKept
    <3>3. DecayedMoment(ticks', EMA_SCALE, 2, SLOW + 1, Averaged(slow_ema, SLOW, x))
      BY <1>0, <2>2, <2>3, <3>1, AverageKept
    <3> QED
      BY <2>1, <3>2, <3>3
  <2>5. ticks' \in Seq(Int) /\ Len(ticks') = n + 1 /\ n + 1 <= ALPHA_TICKS /\ ticks' # <<>>
    <3>1. ticks' \in Seq(Int) /\ Len(ticks') = n + 1
      BY <2>3, SequenceGrows
    <3> QED
      BY <1>0, <2>2, <3>1
  <2> QED
    BY <2>1, <2>4, <2>5 DEF AveragesInv
<1> QED
  BY <1>1, <1>2 DEF AlphaNext, AlphaReported

\* EMA::update: after any prices the two averages are the decayed means of them all.
THEOREM AveragesForgetAtTheirPace == AlphaSpec => []AveragesExact
<1>1. AlphaInit => AveragesInv
  <2> SUFFICES ASSUME AlphaInit PROVE AveragesInv
    OBVIOUS
  <2>1. ticks = <<>> /\ ~init /\ ALPHA_TICKS \in Nat
    BY EmaAssumption DEF AlphaInit
  <2>2. ticks \in Seq(Int) /\ Len(ticks) <= ALPHA_TICKS
    BY <2>1
  <2> QED
    BY <2>1, <2>2 DEF AveragesInv
<1>2. AveragesInv /\ [AlphaNext]_alphaVars => AveragesInv'
  BY AveragesKept
<1>3. AveragesInv => AveragesExact
  <2> SUFFICES ASSUME AveragesInv, ticks # <<>>
               PROVE  /\ fast_ema = DecayedMean(ticks, EMA_SCALE, 2, FAST + 1)
                      /\ slow_ema = DecayedMean(ticks, EMA_SCALE, 2, SLOW + 1)
    BY DEF AveragesExact
  <2>1. /\ FAST + 1 \in Nat \ {0} /\ SLOW + 1 \in Nat \ {0} /\ EMA_SCALE \in Int /\ 2 \in Int
        /\ ALPHA_TICKS \in Nat
        /\ Scales(EMA_SCALE, FAST + 1, ALPHA_TICKS) /\ Scales(EMA_SCALE, SLOW + 1, ALPHA_TICKS)
    BY EmaAssumption
  <2>2. /\ ticks \in Seq(Int) /\ Len(ticks) <= ALPHA_TICKS
        /\ DecayedMoment(ticks, EMA_SCALE, 2, FAST + 1, fast_ema)
        /\ DecayedMoment(ticks, EMA_SCALE, 2, SLOW + 1, slow_ema)
    BY DEF AveragesInv
  <2>3. /\ Divides(Power(FAST + 1, Len(ticks) - 1), EMA_SCALE)
        /\ Divides(Power(SLOW + 1, Len(ticks) - 1), EMA_SCALE)
    BY <2>1, <2>2, ScaleReaches
  <2> QED
    BY <2>1, <2>2, <2>3, DecayedReads
<1> QED
  BY <1>1, <1>2, <1>3, PTL DEF AlphaSpec

\* The programs of day21, day22 and day23 side by side: all that their recurrences hold is
\* what the definitions over the whole sequences give.
THEOREM AllMomentsExact == AlphaSpec /\ StatsSpec /\ SimdSpec => []MomentsExact
<1>1. AveragesExact /\ StatsExact /\ LanesExact => MomentsExact
  BY DEF MomentsExact
<1> QED
  BY <1>1, AveragesForgetAtTheirPace, RunningMomentsExact, LaneMomentsExact, PTL

================================================================================
