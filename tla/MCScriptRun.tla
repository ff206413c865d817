----------------------------- MODULE MCScriptRun -----------------------------
(***************************************************************************)
(* All files of up to five characters that the splitter or the tokenizer   *)
(* tells apart, longer ones without blanks and double quotes, and scripts  *)
(* of up to three statements: known or not, with a newline in a text, and  *)
(* each with every result of up to two lines that server.py tells apart.   *)
(***************************************************************************)
EXTENDS ScriptRun

UpTo(n, S) == UNION {[1 .. m -> S] : m \in 0 .. n}

\* "a" is a keyword of those that begin a statement.
MCVerbs == {<<"a">>}

MCResults == {<<>>} \cup {<<"other", r>> : r \in Readings} \cup {<<"blank">>}

Pieces == {<<"a">>, <<"a", "'", "\n", "'">>, <<".">>, <<" ">>}

MCSources ==
    UpTo(5, {"a", " ", "\n", "'", "\"", ";", "-"})
    \cup UpTo(6, {"a", "'", "\"", ";"})
    \cup UpTo(4, {"a", "=", "<", "(", "\n", ";", "?"})
    \cup {p1 \o <<";">> \o p2 \o <<";">> \o p3 : p1 \in Pieces, p2 \in Pieces, p3 \in Pieces}

NoFiles == {<<>>}
NoWords == {}
=============================================================================
