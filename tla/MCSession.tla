------------------------------ MODULE MCSession ------------------------------
(***************************************************************************)
(* An instance of Session: a history of three commands, a table of three   *)
(* names in addresses of eight bits, scripts that fail, exit and run each  *)
(* other.                                                                  *)
(***************************************************************************)
EXTENDS Session, TLC

Num(a) == ToString(a)

\* A number is also a name, "be", if a symbol is called so.
MC_Numbers(as) == FoldSet(LAMBDA a, f : f @@ (Num(a) :> a), Num(0) :> 0, as)
MC_Hex ==
  FoldSet(LAMBDA k, f : f @@ MC_Numbers(16 * k .. 16 * k + 15), "be" :> 190, 0 .. 15)
MC_Printed == [a \in Word |-> Num(a)]

Cmd(op, arg, val) == [op |-> op, arg |-> arg, val |-> val]

MC_Does ==
  "echo"      :> Cmd("echo", "", "") @@
  "oops"      :> Cmd("unknown", "", "") @@
  "ss"        :> Cmd("ss", "", "") @@
  "."         :> Cmd(".", "", "") @@
  "u be"      :> Cmd("u", "be", "") @@
  "u lab"     :> Cmd("u", "lab", "") @@
  "go lab"    :> Cmd("go", "lab", "") @@
  "where"     :> Cmd("where", "", "") @@
  "def be"    :> Cmd("sym -d", "be", ".") @@
  "def lab"   :> Cmd("sym -d", "lab", "be") @@
  "def bad"   :> Cmd("sym -d", "lab", "zz") @@
  "load"      :> Cmd("sym -f", "list", "") @@
  "load no"   :> Cmd("sym -f", "none", "") @@
  "remove"    :> Cmd("sym -r", "", "") @@
  "reset"     :> Cmd("reset", "", "") @@
  "exit"      :> Cmd("exit", "", "") @@
  "quit"      :> Cmd("exit", "", "") @@
  "do"        :> Cmd("fail", "", "") @@
  "do fails"  :> Cmd("do", "fails", "") @@
  "do exits"  :> Cmd("do", "exits", "") @@
  "do self"   :> Cmd("do", "self", "") @@
  "do none"   :> Cmd("do", "none", "")

Commands == DOMAIN MC_Does
Lists == ("go lab; where" :> <<"go lab", "where">>) @@ ("do fails; echo" :> <<"do fails", "echo">>)
         @@ ("load; where; ss" :> <<"load", "where", "ss">>) @@ ("exit; echo" :> <<"exit", "echo">>)
\* A list of its own is never one command, and is never looked up.
MC_Texts  == Commands \cup DOMAIN Lists
MC_Pieces == [l \in MC_Texts |-> IF l \in DOMAIN Lists THEN Lists[l] ELSE <<l>>]
MC_DoesAll == [l \in MC_Texts |-> IF l \in Commands THEN MC_Does[l] ELSE Cmd("echo", "", "")]

MC_Scripts ==
  [fails |-> <<"def be", "oops", "remove">>, exits |-> <<"exit; echo", "ss">>,
   self |-> <<"echo", "do self", "ss">>]

MC_SymFiles ==
  [list |-> << [kind |-> "text", name |-> "early", val |-> 40],
               [kind |-> "header", name |-> "", val |-> 0],
               [kind |-> "section", name |-> "text", val |-> 0],
               [kind |-> "data", name |-> "be", val |-> 28],
               [kind |-> "text", name |-> "lab", val |-> 60],
               [kind |-> "text", name |-> "top", val |-> 127],
               [kind |-> "abs", name |-> "neg", val |-> 200],
               [kind |-> "bss", name |-> "low", val |-> 2] >>]

\* Arrows and repeated commands, the command of `.', failures, symbols.
MC_Sessions ==
  { {"echo", "oops", "do"},
    {"u be", "u lab", "oops"},
    {"ss", ".", "reset"},
    {"do fails; echo", "do exits", "do self", "do none", "exit; echo"},
    {"def be", "load; where; ss"},
    {"def lab", "go lab; where", "remove"},
    {"def bad", "load no", "where", "quit"} }
==============================================================================
