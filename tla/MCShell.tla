------------------------------- MODULE MCShell -------------------------------
(***************************************************************************)
(* Shell on small scripts, each written in several ways: plainly, with all *)
(* tokens quoted, and with comments and empty statements.                  *)
(***************************************************************************)
EXTENDS Shell

Word(w) == <<w>>
Statement(words) == [i \in DOMAIN words |-> Word(words[i])]
Program(statements) == [i \in DOMAIN statements |-> Statement(statements[i])]

\* The paths and documents of the instance.
Paths == {Word("/a")}
Data == {Word("1"), Word("true"), Word("INT32_MAX"), Word("INT64_MAX")}
Booleans == {Word("true")}
Narrowed == [d \in {Word("INT64_MAX")} |-> Word("INT32_MAX")]
Files == [f \in {Word("f")} |-> [p \in {Word("/a")} |-> Word("1")]]
Nothing == Word("null")
Numbers == {Word("1")}

\* A connection that comes and goes; sleeps around a command that does not
\* wait; a value that is waited for and goes again; commands that are refused.
Programs ==
    { Program(<< <<"connect">>, <<"wait", "connected">>, <<"disconnect">>,
                 <<"wait", "disconnected">>, <<"sleep", "1">> >>),
      Program(<< <<"sleep", "1">>, <<"put", "/a", "1">>, <<"sleep", "x">>, <<"sleep", "1">> >>),
      Program(<< <<"connect">>, <<"wait", "data", "/a", "1">>, <<"wait", "data", "/a", "null">>,
                 <<"wait", "disconnected">> >>),
      Program(<< <<"connect", "x">>, <<"x">>, <<"wait", "disconnected">>, <<"connect">>,
                 <<"disconnect">>, <<"wait", "connected">> >>) }

\* Values that treenode_from_json() changes; waits for the value that a child
\* callback's subscription, or a value callback's, remembers.
DataPrograms ==
    { Program(<< <<"connect">>, <<"wait", "data", "/a", "true">>,
                 <<"wait", "data", "/a", "INT64_MAX">>, <<"wait", "data", "/a", "{">> >>),
      Program(<< <<"cache", "load", "f">>, <<"on", "child_added", "/a">>, <<"connect">>,
                 <<"wait", "data", "/a", "null">>, <<"wait", "data", "/a", "1">>,
                 <<"off", "child_added", "/a">>, <<"sleep", "1">>, <<"wait", "data", "/a", "1">> >>),
      Program(<< <<"connect">>, <<"on", "child_changed", "/a">>, <<"wait", "data", "/a", "1">>,
                 <<"sleep", "1">>, <<"wait", "data", "/a", "1">>, <<"off", "/a">> >>),
      Program(<< <<"on", "value", "/a">>, <<"connect">>, <<"wait", "data", "/a", "1">>,
                 <<"cache", "load", "f">>, <<"off", "value", "/a">>, <<"cache", "load", "g">> >>) }

\* A program whose tokens hold what has to be quoted.
QuotedProgram ==
    << << <<"put">>, <<"/a", " ", "#", ";">>, <<"\\", "\n">> >>, << <<"x">>, <<>> >> >>

Plain(token) == token
Quoted(token) ==
    <<"'">> \o FlattenSeq([i \in DOMAIN token |->
                             IF token[i] = "\\" THEN <<"\\", "\\">> ELSE <<token[i]>>]) \o <<"'">>

\* The text of a program: its tokens, written as Write does, separated by sep,
\* and its statements, ended by end; the last one by the end of the script.
Text(program_text, Write(_), sep, end) ==
    LET Line(s) == FlattenSeq([i \in DOMAIN s |->
                                 (IF i = 1 THEN <<>> ELSE sep) \o Write(s[i])])
    IN  FlattenSeq([i \in DOMAIN program_text |->
                      (IF i = 1 THEN <<>> ELSE end) \o Line(program_text[i])])

Scripts ==
    {[text |-> Text(p, Plain, <<" ">>, <<";">>), statements |-> p] : p \in Programs}
    \cup {[text |-> Text(p, Quoted, <<"\t">>, <<"\n">>), statements |-> p] : p \in Programs}
    \cup {[text |-> Text(p, Plain, <<" ", " ">>, <<"#", "'", ";", "\n", ";", "\n">>), statements |-> p] :
              p \in Programs}
    \cup {[text |-> Text(p, Plain, <<" ">>, <<";">>), statements |-> p] : p \in DataPrograms}
    \cup {[text |-> Text(QuotedProgram, Quoted, <<" ">>, <<";">>), statements |-> QuotedProgram]}

\* The texts are well formed, as the theorem about them asks.
ASSUME ScriptsAreScanned == \A s \in Script : Scanned(s)
=============================================================================
