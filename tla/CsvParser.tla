------------------------------- MODULE CsvParser -------------------------------
(***************************************************************************)
(* day10_mmap_csv_parser.cpp: main writes a file of OHLCV rows and reads   *)
(* it twice, by getline and by a cursor over the mapped file.  Prices are  *)
(* in thousandths, the step of the generator.  A digit run of the file is  *)
(* one token, its value and its width; every other character is a token.   *)
(* The POSIX branch is modelled; open, fstat and mmap may fail at will.    *)
(***************************************************************************)
EXTENDS Integers, Sequences, FiniteSets

CONSTANTS ROWS,
          PriceDraws,       \* of 0 .. 99: what rng() % 100 may be
          SpreadDraws       \* of 0 .. 19: what rng() % 20 may be

ASSUME CsvAssumption == ROWS \in Nat /\ PriceDraws \subseteq 0 .. 99 /\ SpreadDraws \subseteq 0 .. 19

\* The bound of the model: below 1000 dollars the six digits that operator<< prints are all
\* of a price.  It takes 17346 draws of 99 to get there; main ends at its first one below 50.
PriceBound == 999999

VARIABLES stage,            \* the call main is in
          csv_price, rows,  \* the generator: its price, the rows it drew
          file,             \* the tokens written so far
          p,                \* the next token of a reader
          data_ifstream, data_mmap,      \* the rows each reader returned
          fd_, data_,       \* of the MemoryMappedFile
          descriptors,      \* the kernel: open descriptors ...
          mapped            \* ... and whether the file is mapped

csvVars == <<stage, csv_price, rows, file, p, data_ifstream, data_mmap, fd_, data_,
             descriptors, mapped>>
parsed == <<data_ifstream, data_mmap>>
written == <<csv_price, rows, file>>
wrapper == <<fd_, data_, descriptors, mapped>>

\* Tokens: a digit run, whose width only matters in a fraction, and other characters.
Digits(v) == [run |-> v, width |-> 0]
Char(c) == [char |-> c]
IsRun(token) == "run" \in DOMAIN token

\* operator<< of a double with at most six significant digits: no trailing zeros,
\* and no point when nothing follows it.
Printed(x) ==
    LET frac == x % 1000
        w == IF frac % 100 = 0 THEN 1 ELSE IF frac % 10 = 0 THEN 2 ELSE 3
        point == <<Char("point"), [run |-> frac \div 10^(3 - w), width |-> w]>>
    IN <<Digits(x \div 1000)>> \o IF frac = 0 THEN <<>> ELSE point

Line(r) == LET Field(x) == Printed(x) \o <<Char("comma")>>
           IN <<Digits(r.timestamp_ms), Char("comma")>>
                \o Field(r.open) \o Field(r.high) \o Field(r.low) \o Field(r.close)
                \o <<Digits(r.volume), Char("newline")>>

Header == <<Char("header"), Char("newline")>>

CsvInit == /\ stage = "generate"
           /\ csv_price = 150000 /\ rows = <<>> /\ file = Header
           /\ p = 1 /\ data_ifstream = <<>> /\ data_mmap = <<>>
           /\ fd_ = -1 /\ data_ = "nullptr" /\ descriptors = {} /\ mapped = FALSE

-----------------------------------------------------------------------------
(* generate_test_file                                                      *)

\* (int)((h - l) * 1000): rounding may lose one.  A draw below 50 leaves an unsigned
\* difference near 2^64, and at the price it gives high and low are the same.
Spans(draw, up, down) == IF draw < 50 THEN {0}
                         ELSE {up + down} \cup (IF up + down > 0 THEN {up + down - 1} ELSE {})

\* The row drawn around a price: open and close are offsets from its low.
Drawn(at, up, down, open, close) ==
    [timestamp_ms |-> Len(rows) * 60000, open |-> at - down + open, high |-> at + up,
     low |-> at - down, close |-> at - down + close, volume |-> 1000]
Emit(r) == rows' = Append(rows, r) /\ file' = file \o Line(r)

GenerateRow ==
    /\ stage = "generate" /\ Len(rows) < ROWS
    /\ \E draw \in PriceDraws, up \in SpreadDraws, down \in SpreadDraws :
          \E span \in Spans(draw, up, down) :
            /\ span > 0 /\ csv_price + draw - 50 + up <= PriceBound
            /\ \E open, close \in {0, span - 1} :
                  Emit(Drawn(csv_price + draw - 50, up, down, open, close))
            /\ csv_price' = csv_price + draw - 50
    /\ UNCHANGED <<stage, p, parsed, wrapper>>

\* rng() % 0 ends the program.
DivideByZero ==
    /\ stage = "generate" /\ Len(rows) < ROWS
    /\ \E draw \in PriceDraws, up, down \in SpreadDraws : 0 \in Spans(draw, up, down)
    /\ stage' = "killed"
    /\ UNCHANGED <<written, p, parsed, wrapper>>

Generated == /\ stage = "generate" /\ Len(rows) = ROWS
             /\ stage' = "ifstream"
             /\ UNCHANGED <<written, p, parsed, wrapper>>

-----------------------------------------------------------------------------
(* benchmark_ifstream: split at newlines, then at commas                   *)

\* The places of character c in the file from place k on, and the first of them.
First(c, k) == CHOOSE q \in k .. Len(file) :
                   file[q] = Char(c) /\ \A h \in k .. q - 1 : file[h] # Char(c)

\* The stream opens and the header is skipped, or there is no stream.
OpenStream == /\ stage = "ifstream"
              /\ \/ stage' = "getline" /\ p' = First("newline", 1) + 1
                 \/ stage' = "map" /\ UNCHANGED p
              /\ UNCHANGED <<written, parsed, wrapper>>

\* stod of the tokens of a field: digits, and perhaps a fraction
Stod(from, to) == 1000 * file[from].run
                      + IF to > from THEN file[to].run * 10^(3 - file[to].width) ELSE 0

GetLine ==
    /\ stage = "getline" /\ p <= Len(file)
    /\ LET end == First("newline", p)
           comma[k \in 0 .. 5] == IF k = 0 THEN p - 1 ELSE First("comma", comma[k - 1] + 1)
           field(k) == Stod(comma[k] + 1, comma[k + 1] - 1)
       IN /\ data_ifstream' = Append(data_ifstream,
                 [timestamp_ms |-> file[p].run, open |-> field(1), high |-> field(2),
                  low |-> field(3), close |-> field(4), volume |-> file[comma[5] + 1].run])
          /\ p' = end + 1
    /\ UNCHANGED <<stage, written, data_mmap, wrapper>>

StreamEnds == /\ stage = "getline" /\ p > Len(file)
              /\ stage' = "map"
              /\ UNCHANGED <<written, p, parsed, wrapper>>

-----------------------------------------------------------------------------
(* MemoryMappedFile: open stops at the first call that fails               *)

OpenFile == /\ stage = "map"
            /\ \/ /\ fd_' = 3 /\ descriptors' = {3}
                  /\ stage' = "stat"
               \/ /\ fd_' = -1 /\ UNCHANGED descriptors
                  /\ stage' = "unmap"
            /\ UNCHANGED <<written, p, parsed, data_, mapped>>

Stat == /\ stage = "stat"
        /\ stage' \in {"mmap", "unmap"}
        /\ UNCHANGED <<written, p, parsed, wrapper>>

\* Mapped, the cursor skips the header line.
Map == /\ stage = "mmap"
       /\ \/ /\ data_' = "mapping" /\ mapped' = TRUE
             /\ stage' = "parse" /\ p' = First("newline", 1) + 1
          \/ /\ data_' = "MAP_FAILED"
             /\ stage' = "unmap"
             /\ UNCHANGED <<mapped, p>>
       /\ UNCHANGED <<written, parsed, fd_, descriptors>>

\* A slip (mutant of Unmap): the descriptor is closed only if the file is mapped.
UnmapMapped == /\ stage = "unmap"
               /\ mapped' = (mapped /\ data_ \in {"nullptr", "MAP_FAILED"})
               /\ descriptors' = IF data_ = "mapping" THEN descriptors \ {fd_} ELSE descriptors
               /\ data_' = "nullptr" /\ fd_' = -1
               /\ stage' = "done"
               /\ UNCHANGED <<written, p, parsed>>

\* The destructor, on every return of benchmark_mmap.
Unmap == /\ stage = "unmap"
         /\ mapped' = (mapped /\ data_ \in {"nullptr", "MAP_FAILED"})
         /\ descriptors' = descriptors \ {fd_}
         /\ data_' = "nullptr" /\ fd_' = -1
         /\ stage' = "done"
         /\ UNCHANGED <<written, p, parsed>>

-----------------------------------------------------------------------------
(* benchmark_mmap; a parser returns the value and the cursor after it      *)

At(q, c) == q <= Len(file) /\ file[q] = Char(c)

parse_int64(q) == IF IsRun(file[q]) THEN [val |-> file[q].run, p |-> q + 1]
                                    ELSE [val |-> 0, p |-> q]

\* A slip (mutant of parse_double): every fraction is taken for thousandths.
ParseUnscaled(q) ==
    LET whole == parse_int64(q)
    IN IF At(whole.p, "point")
       THEN [val |-> 1000 * whole.val + file[whole.p + 1].run, p |-> whole.p + 2]
       ELSE [val |-> 1000 * whole.val, p |-> whole.p]

parse_double(q) ==
    LET whole == parse_int64(q)
    IN IF At(whole.p, "point")
       THEN LET frac == file[whole.p + 1]
            IN [val |-> 1000 * whole.val + frac.run * 10^(3 - frac.width), p |-> whole.p + 2]
       ELSE [val |-> 1000 * whole.val, p |-> whole.p]

\* One token is skipped after each of the first five fields, whatever it is.
ParseRow ==
    /\ stage = "parse" /\ p <= Len(file)
    /\ LET ts == parse_int64(p)              open == parse_double(ts.p + 1)
           high == parse_double(open.p + 1)  low == parse_double(high.p + 1)
           close == parse_double(low.p + 1)  volume == parse_int64(close.p + 1)
       IN /\ data_mmap' = Append(data_mmap,
                 [timestamp_ms |-> ts.val, open |-> open.val, high |-> high.val,
                  low |-> low.val, close |-> close.val, volume |-> volume.val])
          /\ p' = IF At(volume.p, "newline") THEN volume.p + 1 ELSE volume.p
    /\ UNCHANGED <<stage, written, data_ifstream, wrapper>>

ParseEnds == /\ stage = "parse" /\ p > Len(file)
             /\ stage' = "unmap"
             /\ UNCHANGED <<written, p, parsed, wrapper>>

Stopped == stage \in {"done", "killed"} /\ UNCHANGED csvVars

CsvNext == \/ GenerateRow \/ DivideByZero \/ Generated
           \/ OpenStream \/ GetLine \/ StreamEnds
           \/ OpenFile \/ Stat \/ Map \/ ParseRow \/ ParseEnds \/ Unmap \/ Stopped

CsvSpec == CsvInit /\ [][CsvNext]_csvVars

-----------------------------------------------------------------------------
(* Properties.                                                             *)

\* The cursor stays in the file or just after it, and the stages are those of main.
CsvTypeOK ==
    /\ stage \in {"generate", "killed", "ifstream", "getline", "map", "stat", "mmap", "parse",
                  "unmap", "done"}
    /\ p \in 1 .. Len(file) + 1
    /\ csv_price \in Nat /\ Len(rows) <= ROWS
    /\ fd_ \in {-1, 3} /\ data_ \in {"nullptr", "mapping", "MAP_FAILED"}
    /\ descriptors \subseteq {3} /\ mapped \in BOOLEAN

\* Both readers recover, field by field and in order, exactly the rows that were
\* drawn, however many decimals the file shows, and nothing after the last row.
ParsersAgree ==
    /\ data_ifstream = SubSeq(rows, 1, Len(data_ifstream))
    /\ data_mmap = SubSeq(rows, 1, Len(data_mmap))
    /\ stage = "map" /\ p > 1 => data_ifstream = rows
    /\ stage = "unmap" /\ mapped => data_mmap = rows

\* Whichever call of open failed, when benchmark_mmap has returned no descriptor is
\* open and nothing is mapped; until then the mapping is never without its owner.
EverythingReleased ==
    /\ stage = "done" => descriptors = {} /\ ~mapped
    /\ mapped => data_ = "mapping" /\ fd_ \in descriptors
================================================================================
