---------------------------- MODULE MCFormatter ----------------------------
(***************************************************************************)
(* Formatter on up to two instances that differ in the stores they have    *)
(* and in where a name is found, for every format and every name.          *)
(***************************************************************************)
EXTENDS Documents

MCBuiltin == <<"id", "path">>
MCNames   == {"id", "path", "nick", "catalog", "properties", "packages", "catalog_nick", "version"}
MCObjectOf == [name \in MCNames |-> IF name = "catalog_nick" THEN "catalog" ELSE None]
MCMemberOf == [name \in MCNames |-> IF name = "catalog_nick" THEN "nick" ELSE None]

Plain == [unreadable |-> {}, throwing |-> {}, noInterface |-> FALSE,
          own |-> NoStore, catalog |-> NoStore, properties |-> NoStore,
          packages |-> <<>>, files |-> <<"path">>]
Kinds == {
  Plain,
  [Plain EXCEPT !.unreadable = {"id"}, !.files = NoStore],
  [Plain EXCEPT !.unreadable = {"path"}, !.throwing = {"id"}],
  [Plain EXCEPT !.noInterface = TRUE, !.files = <<"id", "path">>],
  [Plain EXCEPT !.own = <<"id", "nick">>, !.catalog = <<"nick">>],
  [Plain EXCEPT !.own = <<"catalog_nick", "version">>, !.catalog = <<"id", "nick", "version">>,
                !.properties = <<"nick", "nick">>, !.packages = <<<<"id", "version">>, <<"id">>>>],
  [Plain EXCEPT !.catalog = <<>>, !.properties = <<"catalog", "catalog_nick", "nick">>],
  [Plain EXCEPT !.unreadable = {"id", "path"}, !.catalog = <<"properties">>,
                !.properties = <<"nick", "packages">>, !.packages = <<<<"id">>>>],
  [Plain EXCEPT !.unreadable = {"nick"}, !.own = <<"nick">>, !.catalog = <<"nick">>,
                !.packages = <<<<>>, <<"id">>, <<>>>>],
  [Plain EXCEPT !.unreadable = {"id", "path"}, !.packages = <<<<>>>>]}

MCMachines == {<<>>} \cup {<<a>> : a \in Kinds} \cup {<<a, b>> : a, b \in Kinds}

MCRequests ==
  {r \in [format : Formatters, property : MCNames \cup {None}, packages : BOOLEAN,
          find : BOOLEAN, badPattern : BOOLEAN] :
     /\ r.badPattern => r.find
     /\ r.find => r.property = None /\ ~r.packages}
=============================================================================
