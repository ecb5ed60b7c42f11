-------------------------- MODULE MCSchemaRegistry --------------------------
(***************************************************************************)
(* Small instances of SchemaRegistry for TLC.                              *)
(***************************************************************************)
EXTENDS SchemaRegistry

CONSTANTS users, orders, items,  \* tables
          id, name, secret       \* columns

\* A database whose tables and foreign keys come and go.
ShopShapes ==
    { [tables |-> (users :> {id, name, secret}) @@ (orders :> {id}) @@ (items :> {id}),
       keys   |-> {<<orders, users>>, <<items, orders>>}],
      [tables |-> (users :> {id, secret}) @@ (orders :> {id, name}) @@ (items :> {id}),
       keys   |-> {<<items, users>>, <<orders, users>>}],
      [tables |-> (users :> {secret}) @@ (items :> {id, name}),
       keys   |-> {<<items, items>>}] }

ShopRequests ==
    {[raw |-> FALSE, table |-> users, columns |-> cs, filters |-> fs] :
        cs \in {{}, {name}}, fs \in {{}, {name}, {secret}}}
      \cup {[raw |-> FALSE, table |-> orders, columns |-> {}, filters |-> {}],
            [raw |-> TRUE, table |-> users, columns |-> {}, filters |-> {}]}
=============================================================================
