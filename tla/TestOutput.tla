----------------------------- MODULE TestOutput -----------------------------
(***************************************************************************)
(* How the test command reads what go test printed (cmd/testcmd): the      *)
(* lines that parseTestOutput knows, and what runTest makes of the exit.   *)
(*                                                                         *)
(* A line is its kind and the coverage on it; a package, the result of its *)
(* tests, is written down by Printed, the part of go test, which is not in *)
(* the repository.                                                         *)
(***************************************************************************)
EXTENDS Integers, Sequences, SequencesExt

NoCov == -1      \* no coverage, or "[no statements]"

Line(kind, cov) == [kind |-> kind, cov |-> cov]

Empty == [packages |-> <<>>, passed |-> 0, failed |-> 0, skipped |-> 0,
          totalCov |-> 0, covCount |-> 0]

Counted(results, cov) ==
  IF cov = NoCov THEN results
  ELSE [results EXCEPT !.totalCov = @ + cov, !.covCount = @ + 1]

\* The last package without coverage gets what a line of its own says.
BackFill(results, cov) ==
  LET i == SelectLastInSeq(results.packages, LAMBDA c : c = NoCov) IN
  IF cov <= 0 \/ i = 0 THEN results
  ELSE Counted([results EXCEPT !.packages[i] = cov], cov)

\* ParseLine with a mistake: such a line goes to the last package, whatever it has
ParseLineOverwriting(results, line) ==
  CASE line.kind = "ok" ->
         [Counted(results, line.cov) EXCEPT !.packages = Append(@, line.cov), !.passed = @ + 1]
    [] line.kind = "FAIL" -> [results EXCEPT !.failed = @ + 1]
    [] line.kind = "?" -> [results EXCEPT !.skipped = @ + 1]
    [] line.kind = "coverage" ->
         IF line.cov <= 0 \/ results.packages = <<>> THEN results
         ELSE Counted([results EXCEPT !.packages[Len(results.packages)] = line.cov], line.cov)
    [] OTHER -> results

ParseLine(results, line) ==
  CASE line.kind = "ok" ->
         [Counted(results, line.cov) EXCEPT !.packages = Append(@, line.cov), !.passed = @ + 1]
    [] line.kind = "FAIL" -> [results EXCEPT !.failed = @ + 1]
    [] line.kind = "?" -> [results EXCEPT !.skipped = @ + 1]
    [] line.kind = "coverage" -> BackFill(results, line.cov)
    [] OTHER -> results

ParseTestOutput(lines) == FoldLeft(ParseLine, Empty, lines)

\* go test -cover: the tests of a package print their coverage; go test repeats
\* it on the ok line, and shows what they printed only if they failed or with -v.
Printed(package, verbose) ==
  LET own == IF package.cov = NoCov THEN <<>> ELSE <<Line("coverage", package.cov)>> IN
  CASE package.result = "ok" ->
         (IF verbose THEN own ELSE <<>>) \o <<Line("ok", package.cov)>>
    [] package.result = "FAIL" -> own \o <<Line("FAIL", NoCov)>>
    [] package.result = "no test files" ->
         IF package.cov = NoCov THEN <<Line("?", NoCov)>> ELSE <<Line("coverage", 0)>>

Output(packages, verbose) ==
  FlattenSeq([i \in 1..Len(packages) |-> Printed(packages[i], verbose)])

\* How go test may end: it ran to its end, or it was killed after some lines, for
\* which Go gives the exit code -1; NotStarted is an error of another kind.
NotStarted == -2
Ends(packages, verbose) ==
  LET out == Output(packages, verbose)
      failed == \E i \in DOMAIN packages : packages[i].result = "FAIL"
  IN {[code |-> NotStarted, lines |-> <<>>], [code |-> IF failed THEN 1 ELSE 0, lines |-> out]}
     \cup {[code |-> -1, lines |-> SubSeq(out, 1, n)] : n \in 0..Len(out)}

\* ExitCode with a mistake: a negative code is taken for no failure
ExitCodeZeroed(code) == IF code < 0 THEN 0 ELSE code

ExitCode(code) == IF code < 0 THEN 1 ELSE code

\* The error that runTest returns, the exit code it reports and with which counts
RunTest(end) ==
  IF end.code = NotStarted \/ (end.code # 0 /\ end.lines = <<>>)
  THEN [error |-> TRUE, exit_code |-> -1, results |-> Empty]
  ELSE [error |-> ExitCode(end.code) # 0, exit_code |-> ExitCode(end.code),
        results |-> ParseTestOutput(end.lines)]
=============================================================================
