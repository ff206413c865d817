----------------------------- MODULE QueryBridge -----------------------------
(***************************************************************************)
(* One POST /query: sqlparser --json prints the statements of a file and   *)
(* their results (src/main.c, json_out.c, print_rowset of storage.c), and  *)
(* run_sqlparser of src/server.py puts the lines of its output together    *)
(* again.  A line is who printed it, where in the result it stands, and    *)
(* how json.loads reads it.                                                *)
(***************************************************************************)
EXTENDS Integers, Sequences

CONSTANT Files      \* the files considered, each a sequence of statements

\* parses: a statement of a known type.  clean: no character in its texts that
\* json_out.c passes through and json.loads refuses.  result: the lines of
\* print_rowset, as they read to the bridge; none if the statement failed or
\* is no SELECT.
Readings == {"statement", "other", "blank"}

Statements == [parses : BOOLEAN, clean : BOOLEAN, result : Seq(Readings)]

ASSUME FilesAssumption == Files \subseteq Seq(Statements)

VARIABLES
    file,
    ran,        \* how many statements the process has worked through
    stdout,     \* the lines it printed
    process,    \* "running", "exited" or "killed"
    read,       \* how many lines the bridge has read
    statements, \* the cards of the answer
    pending,    \* pending_result_lines
    answer      \* "none", "cards" or "timeout"

vars == <<file, ran, stdout, process, read, statements, pending, answer>>

Init ==
    /\ file \in Files
    /\ ran = 0 /\ stdout = <<>> /\ process = "running"
    /\ read = 0 /\ statements = <<>> /\ pending = <<>>
    /\ answer = "none"

\* print_json: one line, or two that make no sense if a newline is in a text.
JsonLines(n) ==
    LET line(as) == [of |-> n, at |-> 0, as |-> as]
    IN  IF file[n].clean THEN <<line("statement")>> ELSE <<line("other"), line("other")>>

\* print_rowset.
ResultLines(n) == [k \in DOMAIN file[n].result |-> [of |-> n, at |-> k, as |-> file[n].result[k]]]

\* process_stmt.  (Mutant: the result first.)
OutputBackwards(n) ==
    IF file[n].parses THEN ResultLines(n) \o JsonLines(n) ELSE <<>>
Output(n) ==
    IF file[n].parses THEN JsonLines(n) \o ResultLines(n) ELSE <<>>

ProcessStmt ==
    /\ process = "running" /\ ran < Len(file)
    /\ stdout' = stdout \o Output(ran + 1)
    /\ ran' = ran + 1
    /\ UNCHANGED <<file, process, read, statements, pending, answer>>

ProcessExits ==
    /\ process = "running" /\ ran = Len(file)
    /\ process' = "exited"
    /\ UNCHANGED <<file, ran, stdout, read, statements, pending, answer>>

\* TimeoutExpired: subprocess.run kills the process, its output is not read.
\* (Mutant: only the start of the process is timed.)
MayTimeOutAtStart == process = "running" /\ ran = 0
MayTimeOut == process = "running"

Timeout ==
    /\ MayTimeOut
    /\ process' = "killed"
    /\ answer' = "timeout"
    /\ UNCHANGED <<file, ran, stdout, read, statements, pending>>

\* flush_result, without the lines rstrip takes off.
Flushed ==
    IF statements = <<>> \/ pending = <<>> THEN statements
    ELSE [statements EXCEPT ![Len(statements)].result = pending]

ReadLine ==
    LET line == stdout[read + 1]
    IN  /\ process = "exited" /\ read < Len(stdout)
        /\ read' = read + 1
        /\ CASE line.as = "blank" -> UNCHANGED <<statements, pending>>
             [] line.as = "statement" ->
                  /\ statements' = Append(Flushed, [of |-> line.of, result |-> <<>>])
                  /\ pending' = <<>>
             [] OTHER ->
                  /\ pending' = Append(pending, line)
                  /\ UNCHANGED statements
        /\ UNCHANGED <<file, ran, stdout, process, answer>>

Answer ==
    /\ process = "exited" /\ read = Len(stdout) /\ answer = "none"
    /\ statements' = Flushed
    /\ answer' = "cards"
    /\ UNCHANGED <<file, ran, stdout, process, read, pending>>

Sent == answer # "none" /\ UNCHANGED vars

Next == ProcessStmt \/ ProcessExits \/ Timeout \/ ReadLine \/ Answer \/ Sent

Spec == Init /\ [][Next]_vars

\* The reader goes on, and the timeout ends what the process does not.
FairSpec == Spec /\ WF_vars(ReadLine) /\ WF_vars(Answer) /\ WF_vars(Timeout)
=============================================================================
