---------------------------- MODULE FanoutInputs ----------------------------
(* A family of instances, its bare name, and a family within the family.    *)
EXTENDS Integers, TLC

Web == <<"web">>
Web0 == <<"web", "0">>
Web1 == <<"web", "1">>
Web01 == <<"web", "0", "1">>
WebX == <<"web", "x">>
FanoutNumbers == {"0", "1"}
FanoutStartNames == {Web1}
FanoutRegistries ==
  {<<>>, (0 :> Web0 @@ 1 :> Web1 @@ 2 :> WebX), (0 :> Web @@ 1 :> Web01 @@ 2 :> Web0)}

Id(n) == [kind |-> "id", id |-> n, name |-> <<>>]
Nm(name) == [kind |-> "name", id |-> 0, name |-> name]
All == [kind |-> "all", id |-> 0, name |-> <<>>]
Targets ==
  {<<>>, <<All>>, <<Id(1)>>, <<Nm(Web)>>, <<Nm(Web), Id(0)>>, <<Id(2), Nm(Web0), Id(0)>>,
   <<All, Nm(Web1)>>, <<Id(1), All>>}
FanoutCommands ==
  [op : {"restart", "delete"}, via : {"cli"}, n : {1, 2, 3}, targets : Targets]
  \cup [op : {"reload"}, via : {"cli"}, n : {1}, targets : Targets]
  \cup [op : {"restart", "delete", "reload"}, via : {"http"}, n : {1},
        targets : {<<All>>, <<Id(1)>>, <<Nm(Web)>>}]
=============================================================================
