----------------------------- MODULE ShellParser -----------------------------
(***************************************************************************)
(* The scanner of the shell (tools/wcsh_parse.c, tools/wcsh.fsm and        *)
(* tools/fsm.c): a finite state machine, fed with the text of a script as  *)
(* it is read, that calls back for every statement it has seen to its end. *)
(* A word of the script is one letter of the text: a token is a sequence   *)
(* of letters, a statement a sequence of tokens.                           *)
(***************************************************************************)
EXTENDS SequencesExt

Blank == {"\t", " "}
End == {"\n", ";"}
Quote == {"'"}
Escape == {"\\"}
Hash == {"#"}
Other == {}             \* ELSE: the row of the table that matches any character

\* struct fsm with the struct wcsh_cmd_parse of its callbacks; out is what
\* on_command_end() has handed on, halted that fsm_feed() has given up.
Parser(state) ==
    [state |-> state, token_list |-> <<>>, token |-> <<>>,
     ps |-> "PARSE_PARSING", out |-> <<>>, halted |-> FALSE]

-----------------------------------------------------------------------------
(* The callbacks of wcsh_parse.c.                                          *)

save_token(p) == [p EXCEPT !.token_list = Append(@, p.token)]

on_command_end(p) ==
    [p EXCEPT !.out = IF p.token_list = <<>> THEN @ ELSE Append(@, p.token_list),
              !.token_list = <<>>]

Exec(p, callback, c) ==
    CASE callback = "on_token_start" -> [p EXCEPT !.token = <<c>>]
      [] callback = "save_char" -> [p EXCEPT !.token = Append(@, c)]
      [] callback = "on_group_start" -> [p EXCEPT !.token = <<>>]
      [] callback = "save_token" -> save_token(p)
      [] callback = "on_command_end" -> on_command_end(p)
      [] callback = "save_token_end_command" -> on_command_end(save_token(p))
      [] callback = "none" -> p

\* A row of the table in wcsh.fsm.
Row(when, exec, goto) == [when |-> when, exec |-> exec, goto |-> goto]

wcsh_parse_script ==
    [BLANK |-> << Row(Blank, "none", "BLANK"),
                  Row(Quote, "on_group_start", "GROUP"),
                  Row(Hash, "none", "COMMENT"),
                  Row(End, "on_command_end", "BLANK"),
                  Row(Other, "on_token_start", "TOKEN") >>,
     TOKEN |-> << Row(Blank, "save_token", "BLANK"),
                  Row(Hash, "save_token", "COMMENT"),
                  Row(End, "save_token_end_command", "BLANK"),
                  Row(Other, "save_char", "TOKEN") >>,
     GROUP |-> << Row(Quote, "save_token", "GROUP_END"),
                  Row(Escape, "none", "ESCAPE"),
                  Row(Other, "save_char", "GROUP") >>,
     ESCAPE |-> << Row(Escape, "save_char", "GROUP") >>,
     GROUP_END |-> << Row(End, "on_command_end", "BLANK"),
                      Row(Blank, "none", "BLANK") >>,
     COMMENT |-> << Row({"\n"}, "on_command_end", "BLANK"),
                    Row(Other, "none", "COMMENT") >>]

accept == {"BLANK", "TOKEN", "GROUP_END", "COMMENT"}

\* One character: the first row that matches it, or the end of this feed.
Scan(p, c) ==
    LET rows == wcsh_parse_script[p.state]
        matching == {i \in DOMAIN rows : c \in rows[i].when \/ rows[i].when = Other}
        row == rows[Min(matching)]
    IN  IF p.halted THEN p
        ELSE IF matching = {}
             THEN [p EXCEPT !.ps = "PARSE_UNEXPECTED_INPUT", !.halted = TRUE]
             ELSE [Exec(p, row.exec, c) EXCEPT !.state = row.goto]

\* An error ends the call and marks the machine, but the next call goes on.
fsm_feed(p, buf) == FoldLeft(Scan, [p EXCEPT !.halted = FALSE], buf)

fsm_end(p) ==
    [p EXCEPT !.ps = IF p.state \in accept THEN "PARSE_OK" ELSE "PARSE_UNEXPECTED_END"]

\* A mutant of the next definition: every chunk has a machine of its own, as
\* every line typed has.
ChunkEvalFresh(p, buf) == fsm_feed(Parser("BLANK"), IF buf = <<>> THEN <<"\n">> ELSE buf)

\* wcsh_chunk_eval(): one machine for the whole script; an empty chunk ends it.
wcsh_chunk_eval(p, buf) ==
    LET fresh == [p EXCEPT !.out = <<>>]
        last == fsm_feed(fresh, <<"\n">>)
    IN  IF buf # <<>> THEN fsm_feed(fresh, buf)
        ELSE IF last.ps # "PARSE_PARSING" THEN last ELSE fsm_end(last)
=============================================================================
