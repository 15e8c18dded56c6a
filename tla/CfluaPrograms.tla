---------------------------- MODULE CfluaPrograms ----------------------------
(***************************************************************************)
(* Types and Lua programs for Cflua.  A configuration is an array of       *)
(* servers, a server an array of paths: both levels inherit.  A node leads *)
(* to other nodes by an option.                                            *)
(***************************************************************************)
EXTENDS Cflua

Option(name, of) == [name |-> name, of |-> of, upper |-> 8, default |-> 0,
                     single |-> FALSE, inherit |-> 0]
ArrayOf(of)  == [Option("", of) EXCEPT !.inherit = 1]
SingleOf(of) == [Option("", of) EXCEPT !.single = TRUE]
TypeOf(size, commands) == [size |-> size, commands |-> commands, mayOmit |-> FALSE, wants |-> ""]

SomeTypes ==
  [conf   |-> TypeOf(0, <<ArrayOf("server"), Option("peer", "node")>>),
   server |-> TypeOf(1, <<ArrayOf("path"), [Option("y", "number") EXCEPT !.default = 1]>>),
   path   |-> TypeOf(1, <<[Option("x", "number") EXCEPT !.default = 7], Option("limit", "limit")>>),
   limit  |-> TypeOf(0, <<SingleOf("number")>>),
   node   |-> [TypeOf(1, <<Option("x", "number"), Option("next", "node")>>)
               EXCEPT !.mayOmit = TRUE, !.wants = "x"]]

SomeOptions == {"x", "y", "limit", "peer", "next", "z"}

Empty == [opt |-> [n \in SomeOptions |-> Nil], arr |-> <<>>]
With(opt, members) ==
  [opt |-> opt @@ Empty.opt, arr |-> [i \in DOMAIN members |-> Table(members[i])]]
Maybe(n) == {Nil, Number(n)}

\* Lua tables: 1 and 2 configurations, 3 and 4 servers, 5 and 6 paths, 7 and 8
\* nodes, 9 to 11 limits.
Program(c1, c2, s1, s2, p1, n1, n2) ==
  <<c1, c2, s1, s2, p1, Empty, n1, n2, Empty,
    [Empty EXCEPT !.arr = <<Number(6)>>], [Empty EXCEPT !.arr = <<Number(1), Number(2)>>]>>

OtherConf == With("x" :> Number(6), <<4, 3>>)
OtherServer == With("x" :> Number(5), <<5>>)
Plain == Program(With("y" :> Number(2), <<3, 4>>), OtherConf, With("x" :> Number(4), <<5, 6>>),
                 OtherServer, Empty, Empty, Empty)

\* What is set at which level, and who shares what.
Inherited ==
  {Program(With("x" :> x @@ "limit" :> l @@ "y" :> y, cs), OtherConf,
           With("x" :> sx @@ "limit" :> sl, ss), OtherServer,
           With("x" :> px, <<>>), Empty, Empty) :
     x \in Maybe(3), l \in Maybe(2), y \in Maybe(2), cs \in {<<>>, <<3>>, <<3, 4>>, <<3, 3>>},
     sx \in Maybe(4), sl \in {Nil, Table(9), Table(10)}, ss \in {<<>>, <<5>>, <<5, 6>>},
     px \in Maybe(5)}

\* One thing wrong, somewhere.
WrongOnes ==
  {[Plain EXCEPT ![i].opt[n] = v] :
     i \in {1, 3, 5}, n \in SomeOptions, v \in {Number(9), Table(9), Table(11)}}
  \cup {[Plain EXCEPT ![i].arr = m] : i \in {1, 5}, m \in {<<Number(1)>>, <<Table(6), Number(1)>>}}

\* Nodes that lead around, some without what they want.
Led ==
  {Program(With("peer" :> p, <<3>>), With("peer" :> Table(8), <<>>), Empty, Empty, Empty,
           With("x" :> x @@ "next" :> n, <<>>), With("x" :> y @@ "next" :> m, <<>>)) :
     p \in {Nil, Table(7)}, x \in Maybe(2), n \in {Nil, Table(7), Table(8)},
     y \in Maybe(1), m \in {Nil, Table(7)}}

SomePrograms == Inherited \cup WrongOnes \cup Led
=============================================================================
