---------------------------- MODULE ShellParser ----------------------------
(***************************************************************************)
(* How myshell reads a line (parser(), find_shell_command() and            *)
(* find_arguments() of interpreter.c, command_list of builtin.c).          *)
(*                                                                         *)
(* A line is a sequence of tokens without the white space between them.    *)
(* The search for a command looks at the first two characters of a word    *)
(* and at whether the word begins with a name, so that a word is these     *)
(* two, as numbers, and the name it begins with.                           *)
(***************************************************************************)
EXTENDS Integers, Sequences

CONSTANT MAXARGS    \* 16 in the code, the name of the command included

ASSUME ParserAssumption == MAXARGS \in Nat /\ MAXARGS >= 2

Word(c0, c1, name) == [kind |-> "word", c0 |-> c0, c1 |-> c1, begins |-> name]
Mark(kind, c0) == [kind |-> kind, c0 |-> c0, c1 |-> 0, begins |-> ""]
Pipe == Mark("pipe", 124)
Ampersand == Mark("amp", 38)
Quote == Mark("quote", 34)      \* a double quote that is not closed
Dot == Mark("dot", 46)          \* a path that begins with a dot

-----------------------------------------------------------------------------
command_list ==
  << Word(98, 103, "bg"), Word(99, 97, "cat"), Word(99, 100, "cd"),
     Word(99, 108, "clear"), Word(99, 111, "code"), Word(101, 99, "echo"),
     Word(101, 120, "exit"), Word(102, 103, "fg"), Word(103, 99, "gcc"),
     Word(103, 105, "git"), Word(103, 114, "grep"), Word(106, 111, "jobs"),
     Word(107, 105, "kill"), Word(108, 101, "less"), Word(108, 115, "ls"),
     Word(109, 97, "make"), Word(109, 107, "mkdir"), Word(109, 111, "more"),
     Word(112, 114, "printenv"), Word(112, 115, "ps"), Word(112, 119, "pwd"),
     Word(114, 109, "rmdir"), Word(115, 99, "scp"), Word(115, 108, "sleep"),
     Word(115, 111, "sort"), Word(115, 115, "ssh"), Word(116, 97, "tar"),
     Word(116, 111, "touch"), Word(118, 105, "vi"), Word(119, 104, "whereis") >>

(* What a line is made of: a word begins with a name of command_list, whose *)
(* characters are then its own, or with none.                              *)
Tokens == {command_list[k] : k \in DOMAIN command_list}
              \cup [kind : {"word"}, c0 : 0 .. 255, c1 : 0 .. 255, begins : {""}]
              \cup {Dot, Pipe, Ampersand, Quote}

functions == {"bg", "cd", "exit", "fg", "jobs", "kill"}

num_command == 29

(* Whether the binary search goes on above mid. *)
Upper(word, mid) ==
    LET name == command_list[mid + 1]
    IN  IF word.c0 = name.c0 THEN word.c1 > name.c1 ELSE word.c0 > name.c0

find_shell_command(word) ==
    LET Seek[b \in (0 .. num_command + 1) \X (-1 .. num_command)] ==
          LET mid == (b[1] + b[2]) \div 2
          IN  IF b[1] > b[2] THEN ""
              ELSE IF word.begins = command_list[mid + 1].begins THEN word.begins
              ELSE IF Upper(word, mid) THEN Seek[<<mid + 1, b[2]>>]
              ELSE Seek[<<b[1], mid - 1>>]
    IN  IF word.kind = "dot" THEN "." ELSE Seek[<<0, num_command>>]

-----------------------------------------------------------------------------
(***************************************************************************)
(* find_arguments(): the first token after the arguments of the command at *)
(* pos.  An ampersand, a pipe and the end of the line stop it, and so does *)
(* the size of the array: what is left is then read as another command.    *)
(***************************************************************************)
find_arguments(line, pos) ==
    LET Stop(i) == \/ i > Len(line)
                   \/ line[i].kind \in {"pipe", "amp"}
                   \/ i - pos = MAXARGS
        Seek[i \in pos + 1 .. Len(line) + 1] == IF Stop(i) THEN i ELSE Seek[i + 1]
    IN  Seek[pos + 1]

(* Variant: a line may end with a pipe. *)
AtEnd_OK(line, pos) == IF pos = 1 THEN "uninitialised" ELSE "OK"

(* The status when the end of the line is reached. *)
AtEnd(line, pos) ==
    IF pos = 1 THEN "uninitialised"
    ELSE IF line[pos - 1].kind = "pipe" THEN "BUFFERING" ELSE "OK"

parser(line) ==
    LET Read[pos \in 1 .. Len(line) + 1] ==
          IF pos > Len(line)
          THEN [status |-> AtEnd(line, pos), commands |-> <<>>, mode |-> "FOREGROUND"]
          ELSE IF find_shell_command(line[pos]) = ""
          THEN [status |-> "NOCOMMANDERR", commands |-> <<>>, mode |-> "FOREGROUND"]
          ELSE LET end == find_arguments(line, pos)
                   stop == IF end > Len(line) THEN "" ELSE line[end].kind
                   cmd == <<find_shell_command(line[pos])>>
               IN  IF stop = "amp"
                   THEN [status |-> IF end = Len(line) THEN "OK" ELSE "SYNTAXERR",
                         commands |-> cmd, mode |-> "BACKGROUND"]
                   ELSE LET rest == Read[IF stop = "pipe" THEN end + 1 ELSE end]
                        IN  [rest EXCEPT !.commands = cmd \o @]
    IN  Read[1]

-----------------------------------------------------------------------------
(***************************************************************************)
(* What a line should be: commands that are separated by pipes, each a     *)
(* name and its arguments, and perhaps an ampersand at the end.            *)
(***************************************************************************)
Heads(line) == {i \in DOMAIN line : i = 1 \/ line[i - 1].kind = "pipe"}

FewArguments(line) ==
    \A i \in Heads(line) : find_arguments(line, i) - i < MAXARGS

IsCommandLine(line) ==
    LET last == Len(line)
    IN  /\ \A i \in Heads(line) :
            line[i].kind = "dot"
            \/ \E k \in DOMAIN command_list : command_list[k].begins = line[i].begins
        /\ last > 0 => line[last].kind # "pipe"
        /\ \A i \in DOMAIN line : line[i].kind = "amp" => i = last

=============================================================================
