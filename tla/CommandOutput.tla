----------------------------- MODULE CommandOutput ----------------------------
(***************************************************************************)
(* The text that commands print, as the parsers see it: a sequence of lines*)
(* that are not blank, each a sequence of fields.  Of a field only what the*)
(* parsers ask is kept: its kind, its letters and its number.              *)
(***************************************************************************)
EXTENDS Integers, SequencesExt

Field(kind, word, num) == [kind |-> kind, word |-> word, num |-> num]

Word(w) == Field("word", w, 0)
Num(n) == Field("number", "", n)
Percent(n) == Field("percent", "%", n)           \* 45%
Size(n, u) == Field("size", u, n)                \* 512M
Prefix(address, n) == Field("prefix", address, n) \* 10.0.0.5/24
Clock(h, m) == Field("clock", ":", 60 * h + m)   \* 3:15
Core(n) == Field("core", "cpu", n)               \* cpu0
Unit(name) == Field("unit", name, 0)             \* nginx.service
Process(name, pid) == Field("process", name, pid) \* cron[311]:

IsNumber(field) == field.kind = "number"
AllNumbers(line, places) == \A i \in places : IsNumber(line[i])

Each(lines, Op(_)) == [i \in DOMAIN lines |-> Op(lines[i])]

(* The lines at some places, and those that pass a test, in their order.   *)
(* They are counted, where SelectSeq recurs: one can prove what they are.  *)
Nth(places, n) == CHOOSE i \in places : Cardinality({j \in places : j < i}) = n - 1
At(lines, places) == [n \in 1 .. Cardinality(places) |-> lines[Nth(places, n)]]

Where(lines, Test(_)) == At(lines, {i \in DOMAIN lines : Test(lines[i])})

(* The field after the first one that reads w: none, or one.               *)
After(line, w) ==
    LET i == SelectInSeq(line, LAMBDA field : field = Word(w)) IN
    IF i \in 1 .. Len(line) - 1 THEN <<line[i + 1]>> ELSE <<>>

(* Lines that hold a key and a value; a dict keeps the last one of a key.  *)
Pair(key, value) == [key |-> key, value |-> value]

Get(pairs, key, default) ==
    LET i == SelectLastInSeq(pairs, LAMBDA pair : pair.key = key) IN
    IF i = 0 THEN default ELSE pairs[i].value

(* Python's a or b or c, for fields.                                       *)
FirstOf(fields) ==
    Head(Where(fields, LAMBDA field : field # Word("")) \o <<Last(fields)>>)

(* What may be left of a field whose end is missing: the first digits of a *)
(* number, or what stands before its unit; else a word that is no other    *)
(* one, unless the path still begins like those that are left out.         *)
Broken == Word("...")

Leading(n) == {m \in 1 .. n \div 10 : \E k \in 1 .. 9 : m = n \div 10^k}

Torn(field) ==
    LET digits == {Num(m) : m \in Leading(field.num)} IN
    CASE field.kind = "number" -> digits
      [] field.kind \in {"percent", "size"} -> digits \union {Num(field.num)}
      [] field.kind = "prefix" ->
            {Broken, Word(field.word)}
              \union {Prefix(field.word, m) : m \in Leading(field.num)}
      [] field.kind = "unit" -> {Broken, Word(field.word)}
      [] field.kind \in {"efi path", "snap path"} ->
            {Broken, Field(field.kind, "...", 0)}
      [] field = Word("users") -> {Broken, Word("user")}
      [] field = Word("/") -> {}
      [] OTHER -> {Broken}

(* What may be left of a line, but for all of it and nothing of it; of a   *)
(* line with a key the colon may be missing as well.                       *)
Parts(line) ==
    {SubSeq(line, 1, k) : k \in 1 .. Len(line) - 1}
      \union UNION {{Append(SubSeq(line, 1, k - 1), field) : field \in Torn(line[k])} :
                       k \in DOMAIN line}

PartOf(shape, line) ==
    CASE shape = "fields" -> Parts(line)
      [] shape = "pairs" ->
            {Pair("...", Word(""))}
              \union {Pair(line.key, value) : value \in {Word("")} \union Torn(line.value)}
      [] shape = "counters" ->
            {Pair("...", <<>>)}
              \union {Pair(line.key, value) : value \in {<<>>} \union Parts(line.value)}

(* What raises a ValidationError, and what does not.                       *)
Invalid == [valid |-> FALSE]
Valid(metrics) == [valid |-> TRUE, metrics |-> metrics]
===============================================================================
