------------------------------- MODULE MCCli -------------------------------
EXTENDS Cli

(* Processes are strings: a process is also the name it links or creates.  *)
TwoProcs == {"p", "q"}

Pair(a, b) == [p \in TwoProcs |-> IF p = "p" THEN a ELSE b]

(* Commands that meet: on Docker, on the credentials, on pyproject.toml.   *)
Meetings ==
  { Pair("run", "run"),
    Pair("login", "login"), Pair("login", "logout"), Pair("login", "deploy"),
    Pair("link", "deploy"), Pair("link", "init"), Pair("init", "deploy") }

(* Two databases one whose name needs cleaning, and a bucket.              *)
Bases  == <<"todo", "a-b">>
Bins   == <<"files">>
Clean  == [n \in {"todo", "a-b", "files"} |-> IF n = "a-b" THEN "a_b" ELSE n]
Given1 == {{"todo"}, {"a-b", "s3"}}

Panels == {"cloud"}

(* No file, and every text of up to three lines that can be parsed, where  *)
(* the lines within a value come after its first; and one of four, whose   *)
(* value link takes for the end of the section.                            *)
Lines  == {Line(k) : k \in {"own", "oddOwn", "table", "nested", "ownText", "key"}}
          \union {Entry(k, "old") : k \in {"app", "oddApp", "dotted", "appText"}}
Inner  == {"nested", "ownText", "appText"}

WellFormed(lines) ==
  /\ Parsed(lines)
  /\ \A i \in Indices(lines, Inner) :
       i > 1 /\ lines[i - 1][1] \in Inner \union {"key"}

Texts  ==
  {NoFile, <<Line("own"), Line("key"), Line("nested"), AppLine("old")>>}
  \union {lines \in BoundedSeq(Lines, 3) : WellFormed(lines)}
=============================================================================
