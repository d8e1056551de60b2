------------------------------ MODULE MCShell ------------------------------
EXTENDS Shell

Cmd(name) == CHOOSE w \in {command_list[k] : k \in DOMAIN command_list} : w.begins = name
MCNoSuch == Word(122, 122, "")      \* a word that no name begins
Typed(tokens, job) == [tokens |-> tokens, job |-> job]
AnyLine ==
    { Typed(<<Cmd("ls")>>, 1), Typed(<<Cmd("sleep"), Ampersand>>, 1),
      Typed(<<Cmd("ls"), Pipe, Cmd("grep")>>, 1), Typed(<<Cmd("jobs")>>, 1),
      Typed(<<MCNoSuch>>, 1), Typed(<<Cmd("ls"), Pipe>>, 1),
      Typed(<<Cmd("exit")>>, 1), Typed(<<Cmd("exit"), Ampersand>>, 1),
      Typed(<<Cmd("bg"), MCNoSuch, Ampersand>>, 1),
      Typed(<<Cmd("ls"), Pipe, Cmd("kill"), MCNoSuch>>, 1) }
    \cup { Typed(<<Cmd(name), MCNoSuch>>, 1) : name \in {"fg", "bg", "kill", "cd"} }
MCLines(n) ==
    CASE n = 1 -> AnyLine
      [] n = 0 -> {Typed(<<Cmd("ls")>>, 1), Typed(<<Cmd("sleep"), Ampersand>>, 1)}
      [] OTHER -> {Typed(<<MCNoSuch>>, 1)}
MCTokens == {Cmd("ls"), Cmd("fg"), MCNoSuch, Dot, Pipe, Ampersand, Quote}
MCLongLines == UNION {[1 .. n -> MCTokens] : n \in 0 .. 5}

=============================================================================
