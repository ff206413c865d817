------------------------------ MODULE ScriptRun ------------------------------
(***************************************************************************)
(* One POST /query from the text of the request to its answer: the process *)
(* runs each statement (QueryBridge) as soon as run_statements has cut it  *)
(* off (StatementStream), the bridge reads what it printed.                *)
(***************************************************************************)
EXTENDS StatementStreamProps, QueryBridgeProps

CONSTANTS
    Verbs,      \* first tokens that parse_sql knows
    Results     \* what print_rowset may print of a statement

\* No statement is known before it is cut off.
ASSUME NoFileYetAssumption == Files = {<<>>}
ASSUME ResultsAssumption == Results \subseteq Seq(Readings)

scriptVars == <<splitVars, vars>>

\* What a statement may come to: it parses if it begins with a keyword, and a
\* newline in one of its texts goes into the JSON, if parse_sql keeps the text.
Meanings(text) ==
    LET tokens == Tokens(text)
        parses == tokens # <<>> /\ tokens[1] \in Verbs
        clean  == \A k \in DOMAIN tokens : "\n" \notin ToSet(tokens[k])
    IN  [parses : {parses}, clean : {TRUE, clean},
         result : IF parses THEN Results ELSE {<<>>}]

Cuts == InQuote \/ OpenQuote \/ EndStatement \/ OtherCharacter \/ EndFile

\* The loop of run_statements, which waits while process_stmt runs.
Scan ==
    /\ process = "running" /\ ran = Len(file)
    /\ Cuts
    /\ IF processed' = processed THEN UNCHANGED file
       ELSE \E m \in Meanings(Last(processed')) : file' = Append(file, m)
    /\ UNCHANGED <<ran, stdout, process, read, statements, pending, answer>>

ScriptInit == SplitInit /\ Init

RunStatement == ProcessStmt /\ UNCHANGED splitVars
EndOfScript == AtEnd /\ ProcessExits /\ UNCHANGED splitVars
RequestTimesOut == Timeout /\ UNCHANGED splitVars
BridgeReads == (ReadLine \/ Answer) /\ UNCHANGED splitVars
RequestIsOver == Sent /\ UNCHANGED splitVars

ScriptNext ==
    \/ Scan \/ RunStatement \/ EndOfScript \/ RequestTimesOut \/ BridgeReads \/ RequestIsOver

\* As for QueryBridge: nothing is assumed of the process.
ScriptSpec ==
    /\ ScriptInit /\ [][ScriptNext]_scriptVars
    /\ WF_scriptVars(BridgeReads) /\ WF_scriptVars(RequestTimesOut)
=============================================================================
