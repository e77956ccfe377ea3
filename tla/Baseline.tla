------------------------------ MODULE Baseline ------------------------------
(***************************************************************************)
(* The rolling series of a benchmark (reqbench/src/stats.rs and its twin   *)
(* report.rs): each run compares its records with the medians of the runs  *)
(* in the file, then appends them, a line each.  A run may end, killed or  *)
(* out of space, at any byte of a line, and the next one writes on where   *)
(* it stopped.                                                             *)
(***************************************************************************)
EXTENDS Integers, Sequences, FiniteSets, FiniteSetsExt

CONSTANTS
  Key,      \* the benchmarks, in the order in which they are run
  Samples,  \* what sample may return: sequences of times
  BandPct,  \* --band-pct
  TornKeys, \* the keys read of a line cut in its key, real ones perhaps: req_bench
            \* makes the key of three fields, and the next line may complete them
  Tens,     \* powers of ten: the digits a cut number loses
  MaxRuns   \* bound on runs, one that is cut counting twice; the last is not written

BaselineAssumption ==
  /\ Key \in Seq(STRING)
  /\ Samples \subseteq Seq(Nat) /\ << >> \notin Samples
  /\ BandPct \in Nat
  /\ TornKeys \subseteq STRING
  /\ Tens \subseteq Nat \ {0}

VARIABLES
  tool,      \* "corpus" loads the baseline first, "req_bench" just before it compares
  pc,
  lines,     \* the file: lines of fields
  open,      \* the last line has no newline yet
  told,      \* what that line has told so far, of each name the first value
  baseline,  \* load_baseline of the file
  records,   \* the records of this run
  done,      \* how many of them are appended
  runs,      \* runs started, and cuts
  counted    \* the figures lines have told, each when it was complete

vars == <<tool, pc, lines, open, told, baseline, records, done, runs, counted>>

-----------------------------------------------------------------------------
\* What is at place n, from 0, once the values of f are sorted.
Ranked(f, n) ==
  CHOOSE v \in {f[p] : p \in DOMAIN f} :
    /\ Cardinality({p \in DOMAIN f : f[p] < v}) <= n
    /\ Cardinality({p \in DOMAIN f : f[p] <= v}) > n

\* The upper median.
Median(f) == Ranked(f, Cardinality(DOMAIN f) \div 2)

AbsDiff(a, b) == IF a < b THEN b - a ELSE a - b

FromSamples(key, s) ==
  [key |-> key, reps |-> Len(s), min |-> Ranked(s, 0),
   mad |-> Median([p \in DOMAIN s |-> AbsDiff(s[p], Median(s))])]

Names == {"key", "min", "mad"}

\* The fields of a line that are read back.
ToJsonLine(rec) == << <<"key", rec.key>>, <<"min", rec.min>>, <<"mad", rec.mad>> >>

\* The name is in the line and what follows cannot be read.
NoKey == ""
NoNumber == -1

\* What a cut leaves of a field: another key, the first digits of a number or nothing.
Torn(field) ==
  {<<field[1], v>> :
     v \in IF field[1] = "key" THEN TornKeys \cup {NoKey}
          ELSE ({field[2] \div t : t \in Tens} \ {0}) \cup {NoNumber}}

\* And what it leaves of a line.
CutLine(rec) ==
  LET full == ToJsonLine(rec)
  IN {SubSeq(full, 1, n) : n \in 0 .. 3}
     \cup UNION {{Append(SubSeq(full, 1, n), f) : f \in Torn(full[n + 1])} : n \in 0 .. 2}

\* field_str and field_u128 take the first field of the name.
Has(line, name) == \E p \in DOMAIN line : line[p][1] = name

Place(line, name) ==
  CHOOSE p \in DOMAIN line : line[p][1] = name /\ \A q \in 1 .. p - 1 : line[q][1] # name

Field(line, name) == line[Place(line, name)][2]

Legible(name, v) == IF name = "key" THEN v # NoKey ELSE v >= 0

\* If that one cannot be read, no later one is.
Parses(line) == \A name \in Names : Has(line, name) /\ Legible(name, Field(line, name))

\* Slip: the best run ever is the baseline.
Typical_Best(f) == Ranked(f, 0)

Typical(f) == Median(f)

LoadBaseline(text) ==
  LET good  == {p \in DOMAIN text : Parses(text[p])}
      Of(k) == {p \in good : Field(text[p], "key") = k}
  IN {[key |-> k,
       min |-> Typical([p \in Of(k) |-> Field(text[p], "min")]),
       mad |-> Typical([p \in Of(k) |-> Field(text[p], "mad")])] :
        k \in {Field(text[p], "key") : p \in good}}

Compare(rec, base) ==
  IF rec.reps < 3 THEN "untracked"
  ELSE IF ~\E b \in base : b.key = rec.key THEN "new"
  ELSE LET b    == CHOOSE e \in base : e.key = rec.key
           band == Max({rec.mad, b.mad, (b.min * BandPct) \div 100})
       IN IF AbsDiff(rec.min, b.min) <= band THEN "noise"
          ELSE IF rec.min < b.min THEN "win" ELSE "regression"

-----------------------------------------------------------------------------
\* What a line says of each name, as a set of one value or none.
Nothing == [name \in Names |-> {}]

Tells(fields) ==
  [name \in Names |-> {fields[p][2] : p \in {q \in DOMAIN fields : fields[q][1] = name}}]

\* What has been said is not taken back.
Joined(a, b) == [name \in Names |-> IF a[name] # {} THEN a[name] ELSE b[name]]

Complete(t) == \A name \in Names : \E v \in t[name] : Legible(name, v)

Figures(t) ==
  LET The(name) == CHOOSE v \in t[name] : TRUE
  IN [key |-> The("key"), min |-> The("min"), mad |-> The("mad")]

Init ==
  /\ tool \in {"corpus", "req_bench"}
  /\ pc = "start"
  /\ lines = << >> /\ open = FALSE /\ told = Nothing
  /\ baseline = {}
  /\ records = << >> /\ done = 0
  /\ runs = 0
  /\ counted = << >>

Start ==
  /\ pc = "start"
  /\ runs < MaxRuns
  /\ runs' = runs + 1
  /\ baseline' = IF tool = "corpus" THEN LoadBaseline(lines) ELSE {}
  /\ records' = << >> /\ done' = 0
  /\ pc' = "measure"
  /\ UNCHANGED <<tool, lines, open, told, counted>>

Measure ==
  /\ pc = "measure"
  /\ Len(records) < Len(Key)
  /\ \E s \in Samples : records' = Append(records, FromSamples(Key[Len(records) + 1], s))
  /\ UNCHANGED <<tool, pc, lines, open, told, baseline, done, runs, counted>>

\* Slip: the records are in the file before it is read.
Read_Appended == lines \o [p \in DOMAIN records |-> ToJsonLine(records[p])]

Read == lines

\* report_against_baseline; the tools of the corpus have compared already.
Report ==
  /\ pc = "measure"
  /\ Len(records) = Len(Key)
  /\ baseline' = IF tool = "req_bench" THEN LoadBaseline(Read) ELSE baseline
  /\ pc' = "append"
  /\ UNCHANGED <<tool, lines, open, told, records, done, runs, counted>>

\* Fields written at the end of the file.
Put(fields) ==
  IF open THEN [lines EXCEPT ![Len(lines)] = @ \o fields] ELSE Append(lines, fields)

\* The line they end tells more, and counts as soon as it has told all.
Write(fields) ==
  LET now == Joined(told, Tells(fields))
  IN /\ lines' = Put(fields)
     /\ told' = IF open' THEN now ELSE Nothing
     /\ counted' = IF Complete(now) /\ ~Complete(told) THEN Append(counted, Figures(now))
                   ELSE counted

AppendRecord ==
  /\ pc = "append"
  /\ done < Len(records)
  /\ runs < MaxRuns
  /\ open' = FALSE
  /\ Write(ToJsonLine(records[done + 1]))
  /\ done' = done + 1
  /\ UNCHANGED <<tool, pc, baseline, records, runs>>

\* The write fails or the process is killed; the records left are not written.
AppendCut ==
  /\ pc = "append"
  /\ done < Len(records)
  /\ runs < MaxRuns
  /\ open' = TRUE
  /\ \E fields \in CutLine(records[done + 1]) : Write(fields)
  /\ runs' = runs + 1
  /\ pc' = "start"
  /\ UNCHANGED <<tool, baseline, records, done>>

Finish ==
  /\ pc = "append"
  /\ done = Len(records)
  /\ pc' = "start"
  /\ UNCHANGED <<tool, lines, open, told, baseline, records, done, runs, counted>>

Next == Start \/ Measure \/ Report \/ AppendRecord \/ AppendCut \/ Finish

Spec == Init /\ [][Next]_vars

-----------------------------------------------------------------------------
Reporting == pc = "append" /\ done = 0

Counted(k) == {p \in DOMAIN counted : counted[p].key = k}

\* The entries a run is compared with are the medians, for each key, of what the lines
\* of earlier runs have told, none of its own: a whole line tells of its record; a
\* line cut short, with those run on behind it up to the next newline, tells at most
\* one key and its figures, and of each the first, cut or not.  So a cut line is not
\* skipped, as stats.rs says a malformed one is: it counts once it is complete, under
\* the key the cut left and with the first digits of its number or another's figures,
\* and not at all if it was cut just before a number.
EntriesEarlier ==
  Reporting =>
    baseline = {[key |-> k,
                 min |-> Typical([p \in Counted(k) |-> counted[p].min]),
                 mad |-> Typical([p \in Counted(k) |-> counted[p].mad])] :
                  k \in {counted[p].key : p \in DOMAIN counted}}

\* A win or a regression is never owed to a minority of the lines that count: it is
\* reported only if half of them or more lie outside the record's own noise.
VerdictRobust ==
  Reporting =>
    \A p \in DOMAIN records :
      LET rec  == records[p]
          near == {q \in Counted(rec.key) : AbsDiff(counted[q].min, rec.min) <= rec.mad}
      IN Compare(rec, baseline) \in {"win", "regression"} =>
           2 * Cardinality(near) <= Cardinality(Counted(rec.key))

=============================================================================
