----------------------------- MODULE CommandLine -----------------------------
(***************************************************************************)
(* parse_args of ch6-network/client.cc, one iteration of its loops a step:  *)
(*                                                                          *)
(*   client SERVER PORT [options] COMMAND [-key BASE [+] [PADLEN]]          *)
(*                                        [-value BASE [+] [PADLEN]]        *)
(*                                                                          *)
(* argv is a sequence of tokens, the first of them argv[0]. A token is a    *)
(* string with a numeric value for atoi and characters for strlen, given by *)
(* constants.                                                               *)
(***************************************************************************)
EXTENDS Integers, Sequences

CONSTANTS
  NumberOf,  \* token -> what atoi makes of it, for those that are numbers
  NoBase     \* a StrConfig whose base is NULL

\* The counts are unsigned.
ASSUME NumberAssumption == \A token \in DOMAIN NumberOf : NumberOf[token] \in Nat

VARIABLES
  argv,      \* the command line
  parse,     \* "fixed", "options", "configs", "parsed"; "usage" (exit(1)), "crashed"
  next_arg,  \* index into argv, from 0
  args       \* [n_conns, rpcs_per_conn, command, key, value]; the last two are the
             \* `base' of their StrConfig, of which nothing else is ever used

lineVars == <<argv, parse, next_arg, args>>

Commands == {"ping", "write", "read", "quit"}
Counts   == {"-rep", "-k", "-waitms"}     \* options followed by a number
Flags    == {"-seed1", "-verbose"}
Dashed   == Counts \cup Flags \cup {"-key", "-value"}   \* tokens that start with '-'

argc == Len(argv)
Arg(n) == argv[n + 1]
Atoi(token) == IF token \in DOMAIN NumberOf THEN NumberOf[token] ELSE 0

DefaultArgs == [n_conns |-> 1, rpcs_per_conn |-> 1, command |-> "none",
                key |-> NoBase, value |-> NoBase]

\* Nothing has been started.
LineInit ==
  /\ argv = <<>> /\ parse = "fixed" /\ next_arg = 0 /\ args = DefaultArgs

\* A process is started with this command line.
LineStarts(line) ==
  /\ argv' = line
  /\ parse' = "fixed"
  /\ next_arg' = 0
  /\ args' = DefaultArgs

ParseExits == parse' = "usage" /\ UNCHANGED <<argv, next_arg, args>>

\* The server and the port.
ParseFixed ==
  /\ parse = "fixed"
  /\ IF argc < 4 THEN ParseExits
     ELSE parse' = "options" /\ next_arg' = 3 /\ UNCHANGED <<argv, args>>

\* An option with a number in the next argument, whatever that is.
Counted(option, n) ==
  CASE option = "-rep" -> [args EXCEPT !.n_conns = n]
    [] option = "-k"   -> [args EXCEPT !.rpcs_per_conn = n]
    [] OTHER           -> args

ParseCount ==
  /\ parse = "options"
  /\ next_arg < argc
  /\ Arg(next_arg) \in Counts
  /\ IF next_arg + 1 >= argc THEN ParseExits
     ELSE /\ args' = Counted(Arg(next_arg), Atoi(Arg(next_arg + 1)))
          /\ next_arg' = next_arg + 2
          /\ UNCHANGED <<argv, parse>>

ParseFlag ==
  /\ parse = "options"
  /\ next_arg < argc
  /\ Arg(next_arg) \in Flags
  /\ next_arg' = next_arg + 1
  /\ UNCHANGED <<argv, parse, args>>

\* Anything else is the command.
ParseCommand ==
  /\ parse = "options"
  /\ next_arg < argc => Arg(next_arg) \notin Counts \cup Flags
  /\ IF next_arg >= argc \/ Arg(next_arg) \notin Commands THEN ParseExits
     ELSE /\ args' = [args EXCEPT !.command = Arg(next_arg)]
          /\ next_arg' = next_arg + 1
          /\ parse' = "configs"
          /\ UNCHANGED argv

\* strtol(argv[n]): argv[argc] is the null pointer, and what lies behind it need
\* not be a string.
StrtolMayReturn(n) == n # argc
StrtolMayCrash(n)  == n >= argc

\* The base of this string configuration has been given.
Based(which, base) ==
  IF which = "-key" THEN [args EXCEPT !.key = base] ELSE [args EXCEPT !.value = base]

\* Mutant of ParseConfig: next_arg is not taken back for the loop to increment.
ParseConfigTooFar ==
  /\ parse = "configs"
  /\ next_arg < argc
  /\ Arg(next_arg) \in {"-key", "-value"}
  /\ next_arg + 1 < argc
  /\ args' = Based(Arg(next_arg), Arg(next_arg + 1))
  /\ next_arg' = next_arg + 3
  /\ UNCHANGED <<argv, parse>>

\* -key or -value, its base, a "+" and the padded length, if there. The length is
\* taken three arguments too far on.
ParseConfig ==
  /\ parse = "configs"
  /\ next_arg < argc
  /\ Arg(next_arg) \in {"-key", "-value"}
  /\ IF next_arg + 1 >= argc THEN ParseExits
     ELSE LET plus == next_arg + 2 < argc /\ Arg(next_arg + 2) = "+"
              n    == next_arg + IF plus THEN 3 ELSE 2
              pad  == n < argc /\ Arg(n) \notin Dashed
          IN  /\ args' = Based(Arg(next_arg), Arg(next_arg + 1))
              /\ next_arg' = IF pad THEN n + 1 ELSE n
              /\ \/ (pad => StrtolMayReturn(n + 3)) /\ UNCHANGED parse
                 \/ pad /\ StrtolMayCrash(n + 3) /\ parse' = "crashed"
              /\ UNCHANGED argv

\* An unknown argument; or the end, where a write must have a key and a value.
ParseEnd ==
  /\ parse = "configs"
  /\ IF next_arg < argc
     THEN Arg(next_arg) \notin {"-key", "-value"} /\ ParseExits
     ELSE /\ parse' = IF args.command = "write" /\ NoBase \in {args.key, args.value}
                      THEN "usage" ELSE "parsed"
          /\ UNCHANGED <<argv, next_arg, args>>

ParseStep ==
  ParseFixed \/ ParseCount \/ ParseFlag \/ ParseCommand \/ ParseConfig \/ ParseEnd
=============================================================================
