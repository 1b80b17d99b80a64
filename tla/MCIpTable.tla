----------------------------- MODULE MCIpTable -----------------------------
(* Instances of IpTable for TLC: files of a header and up to three lines.   *)
EXTENDS IpTable

CONSTANT none

MCBoards == {<<0, 1, 1>>, <<0, 2, 1>>, <<1, 0, 1>>, <<15, 15, 16>>, <<0, 1, 0>>, <<16, 0, 1>>}

Entry(b, address) == <<<<b[1]>>, <<b[2]>>, <<b[3]>>, address>>
Lines ==
  {Entry(<<0, 1, 1>>, <<10, 0, 0, 1>>), Entry(<<0, 1, 1>>, <<10, 0, 0, 2>>),
   Entry(<<0, 2, 1>>, <<10, 0, 1, 1>>), Entry(<<256, 1, 1>>, <<10, 0, 0, 300>>),
   Entry(<<0, 1, 1>>, <<10, 7>>), <<<<0>>, <<2>>, <<10, 0, 1, 2>>>>, <<<<0>>, <<1>>>>, <<>>}
Header   == <<<<0>>, <<0>>, <<0>>, <<0>>>>
Tails    == UNION {[1 .. n -> Lines] : n \in 0 .. 3}
MCFiles  == {none, <<>>} \cup {<<Header>> \o t : t \in Tails}
=============================================================================
