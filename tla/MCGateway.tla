------------------------------- MODULE MCGateway -------------------------------
\* Two endpoints and their dependencies: read needs a session, and a session and its user
\* both need the settings; write needs the user twice, once uncached.
EXTENDS GatewayProps

On(d)    == [dep |-> d, cached |-> TRUE]
Fresh(d) == [dep |-> d, cached |-> FALSE]

ItemsMatches == [item |-> {"/items/1"}]

Routes ==
  {[method |-> "GET",  rule |-> "/items",   handler |-> "read", cors |-> "default"],
   [method |-> "ANY",  rule |-> "/items/1", handler |-> "write", cors |-> "off"],
   [method |-> "GET",  rule |-> "item",     handler |-> "read", cors |-> "on"],
   [method |-> "ANY",  rule |-> "item",     handler |-> "write", cors |-> "default"]}
OwnChains    == [read |-> << >>, write |-> <<"audit">>]
Scalar(named, marker, default) ==
  [named |-> named, type |-> "scalar", marker |-> marker, default |-> default]
Model(default) == [named |-> FALSE, type |-> "model", marker |-> "none", default |-> default]
ParamsOf     == [read  |-> {Scalar(TRUE, "none", "none"), Scalar(FALSE, "header", "text")},
                 write |-> {Model("none"), Scalar(TRUE, "body", "other")}]
NeedsOf      == [read |-> <<On("session"), On("user")>>, write |-> <<On("user"), Fresh("user")>>]
SubsOf       == [settings |-> << >>, user |-> <<On("settings")>>,
                 session |-> <<On("settings"), On("user")>>]
AcceptsOf    == [settings |-> {}, user |-> {"settings"}, session |-> {"settings", "user"},
                 fake |-> {"settings"}, stub |-> {}]
TestReplaces == {<<"user", "fake">>, <<"user", "stub">>}
===============================================================================
