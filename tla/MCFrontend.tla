------------------------------ MODULE MCFrontend ------------------------------
(* A small instance of Frontend: one frontend with every command, and tasks  *)
(* of a second program with the same friendly name on the same display.      *)
EXTENDS Frontend

MCClass == [picom |-> "alphanumeric", term |-> "alphanumeric", path |-> "printable",
            shell |-> "alphanumeric"]

MCEnvDisplay == [xorg |-> ":0", wayland |-> ""]

Arg(letter, name) == [letter |-> letter, name |-> name]

Run(program, name, display, tags, watch) ==
  [cmd |-> "run", program |-> program, name |-> name, display |-> display,
   tags |-> tags, peek |-> watch]

On(cmd, id) == [cmd |-> cmd, id |-> id, peek |-> FALSE]

List(status, unique, display) ==
  [cmd |-> "list", id |-> NoId, names |-> {}, tags |-> {"shell"}, format |-> "",
   status |-> status, unique |-> unique, display |-> display]

RefreshAll == [cmd |-> "refresh", id |-> NoId, names |-> {}, tags |-> {}]

RunPicom == Run("picom", "", Arg("x", ""), {"shell"}, FALSE)

MCCommandLines ==
  {Run("path", "picom", Arg("x", ":0"), {}, TRUE), Run("path", "", Arg("h", ":0"), {}, FALSE),
   On("peek", 0), [On("resume", 0) EXCEPT !.peek = TRUE], On("stop", 0),
   List("inactive", TRUE, Arg("", "")), List("active", FALSE, Arg("w", "")),
   RefreshAll, On("log", NoId), On("check", NoId)}

MCOtherCommands == {RunPicom, On("resume", 0)}

MCRefreshLines == {RefreshAll}

MCMaxLives == [i \in 0 .. MaxTasks - 1 |-> IF i = 0 THEN 2 ELSE 0]

MCMaxLines == [i \in 0 .. MaxTasks - 1 |-> IF i = 0 THEN 2 ELSE 0]

=============================================================================
