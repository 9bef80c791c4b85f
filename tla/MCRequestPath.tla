---------------------------- MODULE MCRequestPath ----------------------------
(* Command lines and bodies of RequestPath for TLC. *)
EXTENDS RequestPath

MCNumberOf == [t \in {"0", "1", "2"} |-> IF t = "0" THEN 0 ELSE IF t = "1" THEN 1 ELSE 2]

MCFooBarBaz == <<Chr("foo"), Chr("bar"), Chr("baz")>>

Line(tokens) == [argv |-> <<"client", "localhost", "12345">> \o tokens, body |-> Made]
Sent(method, body) == [argv |-> <<"other", "localhost", "12345", method, "-key", "k",
                                  "-value", "v">>, body |-> body]

\* Writers of one key, and of one too long.
Writers ==
  {Line(<<"-k", "2", "-k", "1", "-seed1", "write", "-value", "v", "-key", "k">>),
   Line(<<"-waitms", "2", "write", "-key", "long", "+", "-value", "k">>),
   Line(<<"write", "-key", "k", "-value", "most">>)}

\* With every option and command.
MainLines ==
  Writers \cup
  {Line(<<"-rep", "2", "-k", "2", "-verbose", "read", "-key", "k">>),
   Line(<<"-rep", "2", "read", "-key", "long">>), Line(<<"ping">>), Line(<<"quit">>)}

\* Lines that end badly, or oddly.
OddLines ==
  {Line(<<>>), Line(<<"-rep">>), Line(<<"-k", "2">>), Line(<<"put">>),
   Line(<<"-rep", "-k", "ping">>), Line(<<"write", "-key", "k">>),
   Line(<<"read", "-key">>), Line(<<"read", "v">>),
   Line(<<"write", "-key", "k", "5", "-value", "v">>),
   Line(<<"write", "-value", "v", "-key", "k", "5">>),
   Line(<<"write", "-key", "k", "+", "5", "-value", "v", "5">>),
   Line(<<"write", "-key", "k", "-value", "huge">>),
   Line(<<"write", "-key", "+", "5", "-value", "v">>),
   Line(<<"read", "-key", "+", "5">>),
   Line(<<"ping", "-value", "-key">>)}

\* Bodies other programs may send for a write: too short for the lengths, with
\* lengths that do not add up, and with an empty key and value.
OtherBodies ==
  {Sent("write", b) : b \in {<<>>, <<Num(1)>>, <<Num(0), Padding>>,
     <<Num(1), Padding, Num(1), Chr("k")>>, <<Num(3), Padding, Num(1), Chr("k"), Chr("v")>>,
     <<Num(1), Padding, Num(0), Chr("k"), Chr("v")>>, <<Num(0), Padding, Num(0)>>}}

Reader == Line(<<"read", "-key", "k">>)

\* Two processes of MainLines, or one of the others and a reader; and a reader
\* after any two writers.
SomeWorks ==
  MainLines \X MainLines
    \cup (OddLines \cup OtherBodies) \X {Reader}
    \cup Writers \X Writers \X {Reader}

Arguments ==
  UNION {{process.argv[m] : m \in DOMAIN process.argv} :
           process \in MainLines \cup OddLines \cup OtherBodies \cup {Reader}}

\* Their characters: "long" is of KeyMod characters and more, "huge" longer than the
\* longest value.
MCChars ==
  [t \in Arguments |->
     CASE t = "k"    -> <<Chr("k")>>
       [] t = "long" -> <<Chr("k"), Chr("l"), Chr("m"), Chr("n"), Chr("o")>>
       [] t = "v"    -> <<Chr("v"), Chr("w")>>
       [] t = "most" -> <<Chr("m"), Chr("m"), Chr("m")>>
       [] t = "huge" -> <<Chr("h"), Chr("h"), Chr("h"), Chr("h")>>
       [] OTHER      -> <<Chr(t)>>]
=============================================================================
